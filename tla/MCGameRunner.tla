---------------------------- MODULE MCGameRunner ----------------------------
(* Two teams.  Four moves: three strikes of one agent and what comes after;  *)
(* the play limit is two timed-out decisions.                                *)
EXTENDS GameRunner

TwoTeams == {0, 1}
HigherSeatRicher == {[s \in TwoTeams |-> s]}
=============================================================================
