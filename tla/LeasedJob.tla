------------------------------ MODULE LeasedJob ------------------------------
(***************************************************************************)
(* What a queue of leased jobs promises, whatever the rows and statements  *)
(* it is made of: a job is tried by one holder at a time, a try is counted *)
(* when it is handed out, there are at most MaxTries of them, a job ends   *)
(* once, and it is credited to a try only while that try is the current    *)
(* one.  The tournament queue and the benchmark run queue implement it.    *)
(***************************************************************************)
EXTENDS Naturals

CONSTANTS Job, MaxTries

VARIABLE job

NewJob == [phase |-> "new", tries |-> 0, by |-> 0]

Waiting(n) == [phase |-> "waiting", tries |-> n, by |-> 0]
Held(n) == [phase |-> "held", tries |-> n, by |-> 0]
EndedBy(n, k) == [phase |-> "ended", tries |-> n, by |-> k]

Init == job \in [Job -> {NewJob, Waiting(0)}]

Enter(a, b) == a = NewJob /\ b = Waiting(0)

\* Handed to a holder: for the first time, after a release, or from a lost holder.
Take(a, b) ==
    /\ a.phase \in {"waiting", "held"}
    /\ a.tries < MaxTries
    /\ b = Held(a.tries + 1)

\* A lost try is given back while there are tries left.
Release(a, b) ==
    /\ a.phase = "held"
    /\ a.tries < MaxTries
    /\ b = Waiting(a.tries)

\* Ends with the result of the current try, or with nobody's.
Finish(a, b) ==
    /\ a.phase \in {"waiting", "held"}
    /\ b = EndedBy(a.tries, 0) \/ (a.phase = "held" /\ b = EndedBy(a.tries, a.tries))

Step(a, b) == Enter(a, b) \/ Take(a, b) \/ Release(a, b) \/ Finish(a, b)

Next == \A j \in Job : job'[j] = job[j] \/ Step(job[j], job'[j])

Spec == Init /\ [][Next]_job
=============================================================================
