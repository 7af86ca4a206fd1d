--------------------------- MODULE MCHarnessQueue ---------------------------
(* Small instances of the benchmark run queue. *)
EXTENDS HarnessQueue

CONSTANTS p1, p2

OneRun == {1}
OneTeam == [r \in Run |-> "team"]

ArcAndBundled == [p \in Poller |-> IF p = p1 THEN "arc" ELSE "bundled"]
=============================================================================
