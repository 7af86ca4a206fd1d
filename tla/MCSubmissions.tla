---------------------------- MODULE MCSubmissions ----------------------------
(* The first team submits twice, and something may be wrong with its second   *)
(* repository; the second team submits the first team's first repository.     *)
EXTENDS Submissions

CONSTANTS t1, a1, a2

MCGenerations == [t \in Team |-> IF t = t1 THEN 2 ELSE 1]
MCContents == [t \in Team |-> IF t = t1 THEN <<{a1}, {None, a2}>> ELSE <<{a1}>>]
=============================================================================
