--------------------------- MODULE MCMonopolyGames ---------------------------
(* Instances of MonopolyGames for TLC. *)
EXTENDS MonopolyGames, TLC

CONSTANTS t1, g1, g2, w1, w2, c1, c2

OneTournament == [g \in Game |-> t1]

\* Workers, connections and the games of the tournament are interchangeable.
Symmetry == Permutations(Worker) \cup Permutations(Conn) \cup Permutations(Game)
=============================================================================
