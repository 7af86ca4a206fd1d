------------------------------- MODULE Entries -------------------------------
(* What the validation of submissions promises the teams: the latest         *)
(* submission counts and waits until it is judged; it is judged once, with   *)
(* an archive that was built from it or as a failure; only people undo a     *)
(* verdict: the team by submitting again, the administrator by disabling it. *)
EXTENDS Naturals

CONSTANTS Team, None, Contents

VARIABLE entry

Absent == [state |-> "none", number |-> 0, archive |-> None]
Waiting(n) == [state |-> "waiting", number |-> n, archive |-> None]
Failed(n) == [state |-> "failed", number |-> n, archive |-> None]
Disabled(n) == [state |-> "disabled", number |-> n, archive |-> None]
Approved(n, a) == [state |-> "approved", number |-> n, archive |-> a]

Init == entry = [t \in Team |-> Absent]

Submit(t) == entry' = [entry EXCEPT ![t] = Waiting(entry[t].number + 1)]

Disable(t) ==
    /\ entry[t] # Absent
    /\ entry' = [entry EXCEPT ![t] = Disabled(entry[t].number)]

Approve(t) ==
    /\ entry[t].state = "waiting"
    /\ \E a \in Contents[t][entry[t].number] \ {None} :
          entry' = [entry EXCEPT ![t] = Approved(entry[t].number, a)]

Fail(t) ==
    /\ entry[t].state = "waiting"
    /\ entry' = [entry EXCEPT ![t] = Failed(entry[t].number)]

Next == \E t \in Team : Submit(t) \/ Disable(t) \/ Approve(t) \/ Fail(t)

Spec == Init /\ [][Next]_entry
=============================================================================
