------------------------- MODULE MCMonopolyEngine -------------------------
(* Small boards for TLC: a corner, two streets, and a jail that is also "go  *)
(* to jail".  Each street is a colour group of its own, so that one purchase *)
(* is a monopoly and may be improved.  Amounts are multiples of ten: a       *)
(* redeemed mortgage costs a tenth of 100.                                   *)
EXTENDS MonopolyProgress, TLC

CONSTANTS a, b, c

TwoSeats == <<a, b>>
ThreeSeats == <<a, b, c>>
Streets == {1, 2}
TwoGroups == (1 :> "brown") @@ (2 :> "blue")
StreetPrice == [q \in Streets |-> 120]
StreetMortgage == [q \in Streets |-> 100]
StreetHouse == [q \in Streets |-> 10]

\* A rent that a player can just pay after a purchase's mortgage, and one that
\* ruins whoever lands on it.
LowRent == [q \in Streets |-> <<80, 80, 200, 200, 200, 200>>]
HighRent == [q \in Streets |-> <<200, 80, 200, 200, 200, 200>>]

CornerTax == [s \in {0} |-> 50]
NoTax == [s \in {} |-> 0]
=============================================================================
