-------------------------- MODULE MonopolyProgress --------------------------
(* Why a game of the rules engine ends, as a safety property: every step of  *)
(* MonopolyEnv, whatever the policies choose, uses up something that only a  *)
(* more significant thing can give back -- a round, a seat of the round, a   *)
(* stage of the turn, a player still to answer, a bid still possible, an     *)
(* offer still to make or to answer, the player's worth, a thing to sell.    *)
EXTENDS MonopolyEngine

\* What the constants.py of the engine makes of its amounts: a property costs more
\* than its mortgage pays, a tenth of that is not rounded to nothing, and neither
\* houses nor bail are free.
ASSUME TermsAssumption ==
    /\ \A q \in Props : Price[q] > MortgageValue[q]
    /\ \A q \in Props : MortgageValue[q] >= 10
    /\ \A q \in RealEstate : HousePrice[q] > 0
    /\ Bail > 0

\* The sum of f over the properties, as the number of its single units.
Units(f) == UNION {{q} \X (1 .. f[q]) : q \in Props}
Total(f) == Cardinality(Units(f))

(* What a turn has left, from the most to the least significant. *)

\* The rolls the doubles still allow, and the landing that follows a roll.
Stage ==
    LET rolls == 3 * (3 - doubles)
        again == IF extraRoll THEN rolls ELSE 0
    IN  CASE phase = "pre_roll" -> 10
          [] phase = "post_roll" /\ ~hasRolled -> rolls
          [] phase = "post_roll" /\ hasRolled -> again + 2
          [] phase = "auction" -> again + 1
          [] phase = "out_of_turn" -> 0

\* The players who have not yet ended their part, or passed their bid.
Waiting == IF phase = "auction" THEN auction.bidders ELSE outOfTurn

\* The bids that somebody at the table could still pay.
OpenBids ==
    IF phase = "auction" THEN UNION {(auction.high + 1) .. cash[p] : p \in Players} ELSE {}

\* The offers the player to move may still answer, and the one still to make.
OpenOffers ==
    {s \in Players : IF s = Actor THEN trades[s] = NoOffer ELSE trades[s].to = Actor}

\* What the properties of p would fetch, and how many things p may sell.
Value(p) ==
    [q \in Props |->
        IF owner[q] # p THEN 0
        ELSE (IF mortgaged[q] THEN 0 ELSE MortgageValue[q]) + houses[q] * HalfPrice(q)]
Lots(p) ==
    [q \in Props |->
        IF owner[q] # p THEN 0 ELSE (IF mortgaged[q] THEN 0 ELSE 1) + houses[q]]
Worth(p) == cash[p] + Total(Value(p))

Left ==
    <<MaxRounds - round, N - turn, Stage, Cardinality(Waiting), Cardinality(OpenBids),
      Cardinality(OpenOffers), Worth(Active), Total(Lots(Active))>>

\* The order of tuples of eight natural numbers, the first the most significant.
IsMeasure(x) == DOMAIN x = 1 .. 8 /\ \A i \in 1 .. 8 : x[i] \in Nat
Below(x, y) == \E i \in 1 .. 8 : x[i] < y[i] /\ \A j \in 1 .. (i - 1) : x[j] = y[j]
-----------------------------------------------------------------------------
(* Properties. *)

\* The rolls of a turn: doubles are counted only while they give another roll,
\* which the landing grants and the next roll spends; nothing of a turn is left
\* over for the next, and a game that is not over has rounds left.
RollsCounted ==
    /\ extraRoll => doubles > 0 /\ phase \in {"post_roll", "auction"}
    /\ phase = "pre_roll" => doubles = 0
    /\ phase = "post_roll" /\ ~hasRolled => ~extraRoll
    /\ round <= MaxRounds /\ (~done => round < MaxRounds)

\* What the bank holds is bare: no houses stand on an unowned property.
BankHoldsBare == \A q \in Props : owner[q] = None => houses[q] = 0

ProgressInv == EngineInv /\ RollsCounted /\ BankHoldsBare

\* No menu can be walked in a circle (mortgage and redeem, build and sell, offer
\* and decline, bid and outbid, doubles without end): every step of the game
\* lowers what is left, and natural numbers cannot fall for ever.
EveryMoveDescends == [][IsMeasure(Left') /\ Below(Left', Left)]_vars

=============================================================================
