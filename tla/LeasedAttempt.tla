---------------------------- MODULE LeasedAttempt ----------------------------
(***************************************************************************)
(* One attempt at a leased game, as the worker that plays it and the queue *)
(* that lends it out must both see it: it is opened once and empty, it     *)
(* stores moves while its lease is live and only adds to them, and it ends *)
(* once, completed or lost, with what it has stored.  The tournament queue *)
(* (for all attempts) and the runner (for its own) implement it.           *)
(***************************************************************************)
EXTENDS Naturals

CONSTANT Attempt

VARIABLE attempt

NotYet == [phase |-> "none", moves |-> 0]
Live(k) == [phase |-> "live", moves |-> k]
Completed(k) == [phase |-> "completed", moves |-> k]
Lost(k) == [phase |-> "lost", moves |-> k]

Init == attempt \in [Attempt -> {NotYet, Live(0)}]

Open(a, b) == a = NotYet /\ b = Live(0)

Store(a, b) == a.phase = "live" /\ b.moves > a.moves /\ b = Live(b.moves)

Finish(a, b) == a.phase = "live" /\ b \in {Completed(a.moves), Lost(a.moves)}

Step(a, b) == Open(a, b) \/ Store(a, b) \/ Finish(a, b)

Next == \A i \in Attempt : attempt'[i] = attempt[i] \/ Step(attempt[i], attempt'[i])

Spec == Init /\ [][Next]_attempt
=============================================================================
