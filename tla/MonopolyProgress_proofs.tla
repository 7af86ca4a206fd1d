----------------------- MODULE MonopolyProgress_proofs ----------------------
(* Every step of a game lowers what is left of it, for any board, any number *)
(* of players and any policies: the games of the rules engine end.           *)
EXTENDS MonopolyProgress, MonopolyEngine_proofs

-----------------------------------------------------------------------------
(* Sums over the properties *)

LEMMA UnitsFinite ==
    ASSUME NEW f \in [Props -> Nat], NEW S \in SUBSET Props
    PROVE  IsFiniteSet(UNION {{q} \X (1 .. f[q]) : q \in S})
  <1> DEFINE units(q) == {q} \X (1 .. f[q])
             g == [q \in S |-> units(q)]
             family == {units(q) : q \in S}
  <1>1. ASSUME NEW q \in S PROVE IsFiniteSet(units(q))
    <2>1. f[q] \in Nat
      OBVIOUS
    <2>2. IsFiniteSet(1 .. f[q])
      BY <2>1, FS_Interval
    <2>3. IsFiniteSet({q})
      BY FS_Singleton
    <2> QED BY <2>2, <2>3, FS_Product
  <1>2. g \in Surjection(S, family)
    BY DEF Surjection
  <1>3. IsFiniteSet(family)
    BY <1>2, PropsFinite, FS_Surjection
  <1>4. \A T \in family : IsFiniteSet(T)
    BY <1>1
  <1> QED BY <1>3, <1>4, FS_UNION

\* The sum is what f gives at q and what it gives elsewhere.
LEMMA TotalAt ==
    ASSUME NEW f \in [Props -> Nat], NEW q \in Props
    PROVE  LET rest == Cardinality(UNION {{r} \X (1 .. f[r]) : r \in Props \ {q}})
           IN  rest \in Nat /\ Total(f) = rest + f[q]
  <1> DEFINE others == UNION {{r} \X (1 .. f[r]) : r \in Props \ {q}}
             here == {q} \X (1 .. f[q])
  <1>1. IsFiniteSet(others) /\ Cardinality(others) \in Nat
    <2>1. IsFiniteSet(others)
      BY UnitsFinite
    <2> QED BY <2>1, FS_CardinalityType
  <1>2. IsFiniteSet(here) /\ Cardinality(here) = f[q]
    <2>1. IsFiniteSet(1 .. f[q]) /\ Cardinality(1 .. f[q]) = f[q]
      <3>1. f[q] \in Nat
        OBVIOUS
      <3> QED BY <3>1, FS_Interval
    <2>2. IsFiniteSet({q}) /\ Cardinality({q}) = 1
      BY FS_Singleton
    <2>3. IsFiniteSet(here) /\ Cardinality(here) = 1 * f[q]
      BY <2>1, <2>2, FS_Product
    <2>4. f[q] \in Nat
      OBVIOUS
    <2>5. 1 * f[q] = f[q]
      BY <2>4
    <2> QED BY <2>3, <2>5
  <1>3. others \cap here = {}
    OBVIOUS
  <1>4. Units(f) = others \cup here
    BY DEF Units
  <1>5. Cardinality(others \cap here) = 0
    BY <1>3, FS_EmptySet
  <1>6. Cardinality(others \cup here) = Cardinality(others) + f[q] - 0
    BY <1>1, <1>2, <1>5, FS_Union
  <1> HIDE DEF others, here
  <1>7. f[q] \in Nat
    OBVIOUS
  <1>8. Total(f) = Cardinality(others) + f[q]
    BY <1>1, <1>4, <1>6, <1>7 DEF Total
  <1> QED BY <1>1, <1>8 DEF others

LEMMA TotalIsNat ==
    ASSUME NEW f \in [Props -> Nat]
    PROVE  Total(f) \in Nat
  BY UnitsFinite, FS_CardinalityType DEF Total, Units

\* A change at one property changes the sum by as much.
LEMMA TotalChange ==
    ASSUME NEW f \in [Props -> Nat], NEW g \in [Props -> Nat], NEW q \in Props,
           \A r \in Props \ {q} : g[r] = f[r]
    PROVE  Total(g) - Total(f) = g[q] - f[q]
  <1> DEFINE restf == Cardinality(UNION {{r} \X (1 .. f[r]) : r \in Props \ {q}})
             restg == Cardinality(UNION {{r} \X (1 .. g[r]) : r \in Props \ {q}})
  <1>1. restf = restg
    <2>1. {{r} \X (1 .. f[r]) : r \in Props \ {q}} = {{r} \X (1 .. g[r]) : r \in Props \ {q}}
      OBVIOUS
    <2> QED BY <2>1
  <1>2. restf \in Nat /\ Total(f) = restf + f[q] /\ Total(g) = restg + g[q]
    BY TotalAt
  <1>3. f[q] \in Nat /\ g[q] \in Nat
    OBVIOUS
  <1> HIDE DEF restf, restg
  <1> QED BY <1>1, <1>2, <1>3

-----------------------------------------------------------------------------
(* What is left is eight natural numbers *)

\* The terms in what a game is worth, and how the orders of amounts carry over.
LEMMA Terms ==
    ASSUME NEW q \in Props
    PROVE  /\ Price[q] \in Nat /\ MortgageValue[q] \in Nat /\ HousePrice[q] \in Nat
           /\ RedemptionCost(q) \in Nat /\ HalfPrice(q) \in Nat
           /\ Price[q] > MortgageValue[q] /\ RedemptionCost(q) > MortgageValue[q]
           /\ q \in RealEstate => HousePrice[q] > HalfPrice(q)
           /\ Bail \in Nat /\ Bail > 0 /\ MaxHouses \in Nat
  BY AmountAssumption, TermsAssumption
  DEF AmountAssumption, TermsAssumption, RedemptionCost, HalfPrice, RealEstate

LEMMA ValueType ==
    ASSUME BuildingTypes, EstateInv, NEW p
    PROVE  Value(p) \in [Props -> Nat] /\ Lots(p) \in [Props -> Nat]
  <1>1. ASSUME NEW q \in Props
        PROVE  /\ houses[q] \in Nat /\ HalfPrice(q) \in Nat /\ MortgageValue[q] \in Nat
               /\ houses[q] * HalfPrice(q) \in Nat
    <2>1. houses[q] \in Nat /\ HalfPrice(q) \in Nat /\ MortgageValue[q] \in Nat
      BY Terms DEF BuildingTypes, Hotel
    <2> QED BY <2>1
  <1>2. ASSUME NEW q \in Props
        PROVE  Value(p)[q] \in Nat /\ Lots(p)[q] \in Nat
    BY <1>1 DEF Value, Lots
  <1> QED BY <1>2 DEF Value, Lots

LEMMA PlayersFinite ==
    ASSUME NEW S \in SUBSET Players
    PROVE  IsFiniteSet(S) /\ Cardinality(S) \in Nat
  BY BoardAssumption, FS_Subset, FS_CardinalityType DEF BoardAssumption

LEMMA WaitingFinite ==
    ASSUME FlowInv, AuctionInv
    PROVE  IsFiniteSet(Waiting) /\ Cardinality(Waiting) \in Nat
  BY PlayersFinite DEF FlowInv, AuctionInv, Auction, Waiting

LEMMA OpenBidsFinite ==
    ASSUME MoneyInv, AuctionInv
    PROVE  IsFiniteSet(OpenBids) /\ Cardinality(OpenBids) \in Nat
  <1> DEFINE bids(p) == (auction.high + 1) .. cash[p]
             g == [p \in Players |-> bids(p)]
             family == {bids(p) : p \in Players}
  <1>1. ASSUME NEW p \in Players PROVE IsFiniteSet(bids(p))
    <2>1. auction.high + 1 \in Int /\ cash[p] \in Int
      BY DEF MoneyInv, AuctionInv, Auction
    <2> QED BY <2>1, FS_Interval
  <1>2. g \in Surjection(Players, family)
    BY DEF Surjection
  <1>3. IsFiniteSet(family)
    BY <1>2, PlayersFinite, FS_Surjection
  <1>4. \A T \in family : IsFiniteSet(T)
    BY <1>1
  <1>5. IsFiniteSet(UNION family)
    BY <1>3, <1>4, FS_UNION
  <1>6. IsFiniteSet(OpenBids)
    BY <1>5, FS_EmptySet DEF OpenBids
  <1> QED BY <1>6, FS_CardinalityType

LEMMA StageIsNat ==
    ASSUME FlowInv
    PROVE  Stage \in Nat
  <1>1. 3 * (3 - doubles) \in Nat /\ 0 \in Nat
    BY DEF FlowInv
  <1> QED BY <1>1 DEF FlowInv, Stage

LEMMA LeftType ==
    ASSUME EngineInv, round <= MaxRounds
    PROVE  IsMeasure(Left)
  <1>1. MaxRounds - round \in Nat /\ N - turn \in Nat
    BY Parts, AmountAssumption, BoardAssumption DEF AmountAssumption, BoardAssumption, FlowInv
  <1>2. Stage \in Nat /\ Cardinality(Waiting) \in Nat /\ Cardinality(OpenBids) \in Nat
    BY Parts, StageIsNat, WaitingFinite, OpenBidsFinite
  <1>3. Cardinality(OpenOffers) \in Nat
    BY PlayersFinite DEF OpenOffers
  <1>4. Worth(Active) \in Nat
    <2>1. cash[Active] \in Nat
      BY Parts, ActorPlays DEF MoneyInv, PlayerTypes
    <2>2. Total(Value(Active)) \in Nat
      BY Parts, ValueType, TotalIsNat
    <2> QED BY <2>1, <2>2 DEF Worth
  <1>5. Total(Lots(Active)) \in Nat
    BY Parts, ValueType, TotalIsNat
  <1>6. \A i \in 1 .. 8 : i \in {1, 2, 3, 4, 5, 6, 7, 8}
    OBVIOUS
  <1>7. DOMAIN Left = 1 .. 8
    BY DEF Left
  <1>8. \A i \in 1 .. 8 : Left[i] \in Nat
    BY <1>1, <1>2, <1>3, <1>4, <1>5, <1>6 DEF Left
  <1> QED BY <1>7, <1>8 DEF IsMeasure
-----------------------------------------------------------------------------
(* What is left falls in the first place that changes *)

LEMMA RoundFalls ==
    ASSUME round \in Nat, MaxRounds \in Nat, round' = round + 1
    PROVE  Below(Left', Left)
  <1>1. Left'[1] < Left[1]
    BY DEF Left
  <1>2. \A j \in 1 .. (1 - 1) : Left'[j] = Left[j]
    BY DEF Left
  <1>3. 1 \in 1 .. 8
    OBVIOUS
  <1> QED BY <1>1, <1>2, <1>3 DEF Below

LEMMA SeatFalls ==
    ASSUME turn \in Nat, turn' \in Nat, N \in Nat, round' = round, turn' > turn
    PROVE  Below(Left', Left)
  <1>1. Left'[2] < Left[2]
    <2>1. \A n, s, t \in Nat : s < t => n - t < n - s
      OBVIOUS
    <2>2. N - turn' < N - turn
      BY <2>1
    <2> QED BY <2>2 DEF Left
  <1>2. \A j \in 1 .. (2 - 1) : Left'[j] = Left[j]
    <2>1. Left'[1] = Left[1]
      BY DEF Left
    <2>2. \A j \in 1 .. (2 - 1) : j = 1
      OBVIOUS
    <2> QED BY <2>1, <2>2
  <1>3. 2 \in 1 .. 8
    OBVIOUS
  <1> QED BY <1>1, <1>2, <1>3 DEF Below

LEMMA StageFalls ==
    ASSUME UNCHANGED <<round, turn>>, Stage' < Stage
    PROVE  Below(Left', Left)
  <1>1. Left'[3] < Left[3]
    BY DEF Left
  <1>2. \A j \in 1 .. (3 - 1) : Left'[j] = Left[j]
    BY DEF Left
  <1>3. 3 \in 1 .. 8
    OBVIOUS
  <1> QED BY <1>1, <1>2, <1>3 DEF Below

LEMMA WaitingFalls ==
    ASSUME UNCHANGED <<round, turn, Stage>>,
           Cardinality(Waiting') < Cardinality(Waiting)
    PROVE  Below(Left', Left)
  <1>1. Left'[4] < Left[4]
    BY DEF Left
  <1>2. \A j \in 1 .. (4 - 1) : Left'[j] = Left[j]
    BY DEF Left
  <1>3. 4 \in 1 .. 8
    OBVIOUS
  <1> QED BY <1>1, <1>2, <1>3 DEF Below

LEMMA OpenBidsFall ==
    ASSUME UNCHANGED <<round, turn, Stage, Waiting>>,
           Cardinality(OpenBids') < Cardinality(OpenBids)
    PROVE  Below(Left', Left)
  <1>1. Left'[5] < Left[5]
    BY DEF Left
  <1>2. \A j \in 1 .. (5 - 1) : Left'[j] = Left[j]
    BY DEF Left
  <1>3. 5 \in 1 .. 8
    OBVIOUS
  <1> QED BY <1>1, <1>2, <1>3 DEF Below

LEMMA OpenOffersFall ==
    ASSUME UNCHANGED <<round, turn, Stage, Waiting, OpenBids>>,
           Cardinality(OpenOffers') < Cardinality(OpenOffers)
    PROVE  Below(Left', Left)
  <1>1. Left'[6] < Left[6]
    BY DEF Left
  <1>2. \A j \in 1 .. (6 - 1) : Left'[j] = Left[j]
    BY DEF Left
  <1>3. 6 \in 1 .. 8
    OBVIOUS
  <1> QED BY <1>1, <1>2, <1>3 DEF Below

LEMMA WorthFalls ==
    ASSUME UNCHANGED <<round, turn, Stage, Waiting, OpenBids, OpenOffers>>,
           Worth(Active)' < Worth(Active)
    PROVE  Below(Left', Left)
  <1>1. Left'[7] < Left[7]
    BY DEF Left
  <1>2. \A j \in 1 .. (7 - 1) : Left'[j] = Left[j]
    BY DEF Left
  <1>3. 7 \in 1 .. 8
    OBVIOUS
  <1> QED BY <1>1, <1>2, <1>3 DEF Below

LEMMA LotsFall ==
    ASSUME UNCHANGED <<round, turn, Stage, Waiting, OpenBids, OpenOffers>>,
           Worth(Active)' = Worth(Active), Total(Lots(Active))' < Total(Lots(Active))
    PROVE  Below(Left', Left)
  <1>1. Left'[8] < Left[8]
    BY DEF Left
  <1>2. \A j \in 1 .. (8 - 1) : Left'[j] = Left[j]
    BY DEF Left
  <1>3. 8 \in 1 .. 8
    OBVIOUS
  <1> QED BY <1>1, <1>2, <1>3 DEF Below

-----------------------------------------------------------------------------
(* The turn moves on *)

LEMMA NextPlayerFalls ==
    ASSUME FlowInv, NEW broke \in [Players -> BOOLEAN], \E p \in Players : ~broke[p],
           NextPlayer(broke)
    PROVE  Below(Left', Left)
  <1> DEFINE next == NextSeat(turn, {p \in Players : ~broke[p]})
  <1>1. next \in 1 .. N
    BY NextSeatInSet DEF FlowInv
  <1>2. turn' = next /\ round' = IF next <= turn THEN round + 1 ELSE round
    BY DEF NextPlayer
  <1> HIDE DEF next
  <1>3. N \in Nat /\ MaxRounds \in Nat /\ turn \in 1 .. N /\ round \in Nat
    BY BoardAssumption, AmountAssumption DEF BoardAssumption, AmountAssumption, FlowInv
  <1>4. CASE next <= turn
    BY <1>2, <1>3, <1>4, RoundFalls
  <1>5. CASE ~(next <= turn)
    <2>1. round' = round /\ turn' > turn /\ turn' \in Nat /\ turn \in Nat
      BY <1>1, <1>2, <1>3, <1>5
    <2> QED BY <1>3, <2>1, SeatFalls
  <1> QED BY <1>4, <1>5

\* The end of a landing, on the square or after its auction.
LEMMA FinishFalls ==
    ASSUME FlowInv, PlayerTypes, RollsCounted, FinishLanding,
           phase = "auction" \/ (phase = "post_roll" /\ hasRolled)
    PROVE  Below(Left', Left)
  <1>1. doubles \in 0 .. 2 /\ 3 * (3 - doubles) \in Nat /\ extraRoll \in BOOLEAN
    BY DEF FlowInv
  <1>2. Stage > 0
    BY <1>1 DEF Stage
  <1>3. CASE extraRoll /\ RollAgain
    <2>1. Stage > 3 * (3 - doubles)
      BY <1>1, <1>3 DEF Stage
    <2>2. Stage' = 3 * (3 - doubles) /\ UNCHANGED <<round, turn>>
      BY <1>3 DEF RollAgain, Stage
    <2> QED BY <2>1, <2>2, StageFalls
  <1>4. CASE StartOutOfTurn /\ Responders = {}
    <2>1. NextPlayer(bankrupt) /\ bankrupt \in [Players -> BOOLEAN]
      BY <1>4 DEF StartOutOfTurn, PlayerTypes
    <2>2. \E p \in Players : ~bankrupt[p]
      BY BoardAssumption DEF BoardAssumption, FlowInv, TableSound, Active
    <2> QED BY <2>1, <2>2, NextPlayerFalls
  <1>5. CASE StartOutOfTurn /\ Responders # {}
    <2>1. Stage' = 0 /\ UNCHANGED <<round, turn>>
      BY <1>5 DEF StartOutOfTurn, Stage
    <2> QED BY <1>2, <2>1, StageFalls
  <1> QED BY <1>3, <1>4, <1>5 DEF FinishLanding

LEMMA EndsFall ==
    ASSUME EngineInv, RollsCounted, NEW p \in Players,
           EndPreRoll(p) \/ EndOnUnowned(p) \/ EndPostRoll(p) \/ EndOutOfTurn(p)
    PROVE  Below(Left', Left)
  <1>1. doubles \in 0 .. 2 /\ 3 * (3 - doubles) \in 0 .. 9 /\ extraRoll \in BOOLEAN
    BY Parts DEF FlowInv
  <1>2. CASE EndPreRoll(p)
    <2>1. Stage = 10
      BY <1>2 DEF EndPreRoll, PreRoll, Stage
    <2>2. Stage' = 3 * (3 - doubles) /\ UNCHANGED <<round, turn>>
      BY <1>2 DEF EndPreRoll, Stage
    <2> QED BY <1>1, <2>1, <2>2, StageFalls
  <1>3. CASE EndOnUnowned(p)
    <2> DEFINE again == IF extraRoll THEN 3 * (3 - doubles) ELSE 0
    <2>1. Stage = again + 2
      BY <1>3 DEF EndOnUnowned, Landed, Stage
    <2>2. Stage' = again + 1 /\ UNCHANGED <<round, turn>>
      BY <1>3 DEF EndOnUnowned, Stage
    <2>3. again \in Nat
      BY <1>1
    <2> QED BY <2>1, <2>2, <2>3, StageFalls
  <1>4. CASE EndPostRoll(p)
    BY <1>4, Parts, FinishFalls DEF EndPostRoll, Landed
  <1>5. CASE EndOutOfTurn(p) /\ outOfTurn = {p}
    <2>1. NextPlayer(bankrupt) /\ \E s \in Players : ~bankrupt[s]
      BY <1>5, Parts, ActorPlays DEF EndOutOfTurn, PlayerTypes
    <2> QED BY <2>1, Parts, NextPlayerFalls DEF PlayerTypes
  <1>6. CASE EndOutOfTurn(p) /\ outOfTurn # {p}
    <2>1. /\ phase = "out_of_turn" /\ p = FirstOf(outOfTurn) /\ outOfTurn' = outOfTurn \ {p}
          /\ UNCHANGED <<phase, turn, round, hasRolled, doubles, extraRoll>>
      BY <1>6 DEF EndOutOfTurn, Responding
    <2>2. N \in 1 .. N
      BY BoardAssumption DEF BoardAssumption
    <2>3. p \in outOfTurn
      BY <2>1, <2>2, Parts, NextSeatInSet DEF FlowInv, TableSound, FirstOf
    <2>4. IsFiniteSet(outOfTurn) /\ Cardinality(outOfTurn) \in Nat
      BY Parts, PlayersFinite DEF FlowInv
    <2>5. Cardinality(outOfTurn \ {p}) = Cardinality(outOfTurn) - 1
      BY <2>3, <2>4, FS_RemoveElement
    <2>6. Waiting = outOfTurn /\ Waiting' = outOfTurn \ {p} /\ Stage' = Stage
      BY <2>1 DEF Waiting, Stage
    <2> QED BY <2>1, <2>4, <2>5, <2>6, WaitingFalls
  <1> QED BY <1>2, <1>3, <1>4, <1>5, <1>6

\* A roll spends the right to roll, and grants another only for a double.
LEMMA RollFalls ==
    ASSUME EngineInv, RollsCounted, NEW p \in Players, RollDice(p)
    PROVE  Below(Left', Left)
  <1>1. /\ doubles \in 0 .. 2 /\ extraRoll = FALSE
        /\ phase = "post_roll" /\ ~hasRolled
        /\ UNCHANGED <<phase, round, turn>> /\ hasRolled' = TRUE
    BY Parts DEF FlowInv, RollsCounted, RollDice, StayInJail, ThirdDouble, Move, Unrolled
  <1>2. Stage = 3 * (3 - doubles)
    BY <1>1 DEF Stage
  <1>3. CASE StayInJail(p) \/ ThirdDouble(p)
    <2>1. extraRoll' = FALSE
      BY <1>1, <1>3 DEF StayInJail, ThirdDouble
    <2>2. Stage' = 2
      BY <1>1, <2>1 DEF Stage
    <2> QED BY <1>1, <1>2, <2>2, StageFalls
  <1>4. CASE \E d1, d2 \in Dice : Move(p, d1, d2)
    <2>1. \/ extraRoll' = FALSE
          \/ extraRoll' = TRUE /\ doubles' = doubles + 1
      BY <1>4 DEF Move, LandInJail
    <2>2. CASE extraRoll' = FALSE
      <3>1. Stage' = 2
        BY <1>1, <2>2 DEF Stage
      <3> QED BY <1>1, <1>2, <3>1, StageFalls
    <2>3. CASE extraRoll' = TRUE /\ doubles' = doubles + 1
      <3>1. Stage' = 3 * (3 - (doubles + 1)) + 2
        BY <1>1, <2>3 DEF Stage
      <3> QED BY <1>1, <1>2, <3>1, StageFalls
    <2> QED BY <2>1, <2>2, <2>3
  <1> QED BY <1>3, <1>4 DEF RollDice

LEMMA BankruptcyFalls ==
    ASSUME EngineInv, EngineInv', NEW p \in Players, DeclareBankrupt(p)
    PROVE  Below(Left', Left)
  <1>1. NextPlayer(bankrupt')
    BY DEF DeclareBankrupt
  <1>2. bankrupt' \in [Players -> BOOLEAN] /\ ~bankrupt'[Active'] /\ Active' \in Players
    BY BoardAssumption DEF BoardAssumption, EngineInv, TypeOK, TableSound, Active
  <1> QED BY <1>1, <1>2, Parts, NextPlayerFalls
-----------------------------------------------------------------------------
(* Bids and offers *)

\* A pass takes a bidder away; a bid takes away the bids up to it.
LEMMA BidFalls ==
    ASSUME EngineInv, RollsCounted, NEW p \in Players, AuctionMove(p)
    PROVE  Below(Left', Left)
  <1>1. /\ auction \in Auction /\ phase = "auction" /\ p = auction.current
        /\ p \in auction.bidders /\ cash[p] \in Nat
    BY Parts DEF AuctionInv, AuctionSound, AuctionMove, MoneyInv
  <1>2. PICK now \in {PassBid(p)} \cup
                     {RaiseBid(p, inc) : inc \in {i \in BidIncrements :
                                                      auction.high + i <= cash[p]}} :
            AuctionGoesOn(p, now) \/ FinishAuction(now)
    BY DEF AuctionMove
  <1>3. CASE FinishAuction(now)
    BY <1>1, <1>3, Parts, FinishFalls DEF FinishAuction
  <1>4. CASE AuctionGoesOn(p, now)
    <2>1. \E next : auction' = [now EXCEPT !.current = next]
      BY <1>4 DEF AuctionGoesOn
    <2>2. UNCHANGED <<phase, turn, round, hasRolled, doubles, extraRoll, cash>>
      BY <1>4 DEF AuctionGoesOn, flow
    <2>3. Stage' = Stage /\ UNCHANGED <<round, turn>>
      BY <2>2 DEF Stage
    <2>4. CASE now = PassBid(p)
      <3>1. Waiting = auction.bidders /\ Waiting' = auction.bidders \ {p}
        BY <1>1, <2>1, <2>2, <2>4 DEF PassBid, Auction, Waiting
      <3>2. IsFiniteSet(auction.bidders) /\ Cardinality(auction.bidders) \in Nat
        BY Parts, PlayersFinite DEF AuctionInv, Auction
      <3>3. Cardinality(auction.bidders \ {p}) = Cardinality(auction.bidders) - 1
        BY <1>1, <3>2, FS_RemoveElement
      <3> QED BY <2>3, <3>1, <3>2, <3>3, WaitingFalls
    <2>5. CASE \E inc \in BidIncrements :
                   now = RaiseBid(p, inc) /\ auction.high + inc <= cash[p]
      <3>1. PICK inc \in BidIncrements :
                     now = RaiseBid(p, inc) /\ auction.high + inc <= cash[p]
        BY <2>5
      <3>2. inc \in Nat /\ inc > 0 /\ auction.high \in Nat
        BY <1>1, AmountAssumption DEF AmountAssumption, Auction
      <3>3. auction'.bidders = auction.bidders /\ auction'.high = auction.high + inc
        BY <1>1, <2>1, <3>1 DEF RaiseBid, Auction
      <3>4. Waiting' = Waiting
        BY <1>1, <2>2, <3>3 DEF Waiting
      <3>5. /\ OpenBids = UNION {(auction.high + 1) .. cash[o] : o \in Players}
            /\ OpenBids' = UNION {(auction.high + inc + 1) .. cash[o] : o \in Players}
        BY <1>1, <2>2, <3>3 DEF OpenBids
      <3>6. cash \in [Players -> Nat]
        BY Parts DEF MoneyInv
      <3>7. auction.high + 1 \in OpenBids /\ auction.high + 1 \notin OpenBids'
        BY <1>1, <3>1, <3>2, <3>5, <3>6
      <3>8. OpenBids' \in SUBSET OpenBids
        BY <3>2, <3>5, <3>6
      <3>9. IsFiniteSet(OpenBids) /\ Cardinality(OpenBids) \in Nat
        BY Parts, OpenBidsFinite
      <3>10. /\ Cardinality(OpenBids') <= Cardinality(OpenBids)
             /\ Cardinality(OpenBids) = Cardinality(OpenBids') => OpenBids = OpenBids'
             /\ IsFiniteSet(OpenBids')
        BY <3>8, <3>9, FS_Subset
      <3>11. Cardinality(OpenBids') \in Nat
        BY <3>10, FS_CardinalityType
      <3>12. Cardinality(OpenBids') < Cardinality(OpenBids)
        BY <3>7, <3>9, <3>10, <3>11
      <3> QED BY <2>3, <3>4, <3>12, OpenBidsFall
    <2> QED BY <1>2, <2>4, <2>5
  <1> QED BY <1>2, <1>3, <1>4

\* Between two moves of one player in one phase only the offers, the purses
\* and the properties change.
LEMMA SameMoment ==
    ASSUME UNCHANGED <<phase, turn, round, hasRolled, outOfTurn, doubles, extraRoll, auction>>,
           phase # "auction"
    PROVE  UNCHANGED <<round, turn, Stage, Waiting, OpenBids>> /\ Actor' = Actor
  <1>1. Stage' = Stage /\ Waiting' = Waiting
    BY DEF Stage, Waiting
  <1>2. OpenBids = {} /\ OpenBids' = {}
    BY DEF OpenBids
  <1>3. Actor' = Actor
    BY DEF Actor, Active, FirstOf
  <1> QED BY <1>1, <1>2, <1>3

\* An offer made, or answered, cannot be made or answered again in this move.
LEMMA OfferFalls ==
    ASSUME EngineInv, NEW p \in Players,
           MakeOffer(p) \/ AcceptTrade(p) \/ DeclineTrade(p)
    PROVE  Below(Left', Left)
  <1>1. p = Actor /\ (PreRoll(p) \/ Responding(p))
    BY TheActorMoves DEF Decision, MakeOffer, AcceptTrade, DeclineTrade, Answering
  <1>2. /\ phase # "auction" /\ UNCHANGED bankrupt
        /\ UNCHANGED <<phase, turn, round, hasRolled, outOfTurn, doubles, extraRoll, auction>>
    BY <1>1, AtTrade DEF MakeOffer, AcceptTrade, DeclineTrade
  <1>3. UNCHANGED <<round, turn, Stage, Waiting, OpenBids>> /\ Actor' = p
    BY <1>1, <1>2, SameMoment
  <1>4. None \notin Players /\ NoOffer.to = None /\ trades \in [Players -> Offer]
    BY Parts, BoardAssumption DEF BoardAssumption, NoOffer, FlowInv
  <1>5. \E s \in OpenOffers : OpenOffers' = OpenOffers \ {s}
    <2>1. CASE MakeOffer(p)
      <3>1. PICK t \in Targets(p) :
                \E o \in BuyOffers(p, t) \cup SellOffers(p, t) \cup ExchangeOffers(p, t) :
                    trades' = [trades EXCEPT ![p] = o]
        BY <2>1 DEF MakeOffer
      <3>2. t \in Players
        BY <3>1, Parts DEF FlowInv, Targets, Alive
      <3>3. PICK o : trades' = [trades EXCEPT ![p] = o] /\ o.to = t
        BY <3>1, <3>2, OfferType
      <3>4. trades'[p] # NoOffer /\ trades[p] = NoOffer
        BY <1>4, <2>1, <3>2, <3>3 DEF MakeOffer
      <3>5. \A s \in Players \ {p} : trades'[s] = trades[s]
        BY <1>4, <3>3
      <3>6. p \in OpenOffers /\ p \notin OpenOffers'
        BY <1>1, <1>3, <3>4 DEF OpenOffers
      <3>7. \A s : s # p => (s \in OpenOffers' <=> s \in OpenOffers)
        BY <1>1, <1>3, <3>5 DEF OpenOffers
      <3>8. OpenOffers' = OpenOffers \ {p}
        BY <3>6, <3>7
      <3> QED BY <3>6, <3>8
    <2>2. CASE AcceptTrade(p) \/ DeclineTrade(p)
      <3> DEFINE s == Incoming(p)
      <3>1. trades' = [trades EXCEPT ![s] = NoOffer] /\ Answering(p)
        BY <2>2 DEF AcceptTrade, DeclineTrade
      <3> HIDE DEF s
      <3>2. s \in Players \ {p} /\ trades[s].to = p
        BY <1>2, <3>1, AnswerStep DEF s
      <3>3. trades'[s].to # p /\ \A r \in Players \ {s} : trades'[r] = trades[r]
        BY <1>4, <3>1, <3>2
      <3>4. s \in OpenOffers /\ s \notin OpenOffers'
        BY <1>1, <1>3, <3>2, <3>3 DEF OpenOffers
      <3>5. \A r : r # s => (r \in OpenOffers' <=> r \in OpenOffers)
        BY <1>1, <1>3, <3>3 DEF OpenOffers
      <3>6. OpenOffers' = OpenOffers \ {s}
        BY <3>4, <3>5
      <3> QED BY <3>4, <3>6
    <2> QED BY <2>1, <2>2
  <1>6. IsFiniteSet(OpenOffers) /\ Cardinality(OpenOffers) \in Nat
    BY PlayersFinite DEF OpenOffers
  <1>7. Cardinality(OpenOffers') = Cardinality(OpenOffers) - 1
    BY <1>5, <1>6, FS_RemoveElement
  <1> QED BY <1>3, <1>6, <1>7, OpenOffersFall
-----------------------------------------------------------------------------
(* Money, mortgages and buildings *)

LEMMA ValueTypeNext ==
    ASSUME BuildingTypes', EstateInv', NEW p
    PROVE  Value(p)' \in [Props -> Nat] /\ Lots(p)' \in [Props -> Nat]
  <1>1. ASSUME NEW q \in Props
        PROVE  /\ houses'[q] \in Nat /\ HalfPrice(q) \in Nat /\ MortgageValue[q] \in Nat
               /\ houses'[q] * HalfPrice(q) \in Nat
    <2>1. houses'[q] \in Nat /\ HalfPrice(q) \in Nat /\ MortgageValue[q] \in Nat
      BY Terms DEF BuildingTypes, Hotel
    <2> QED BY <2>1
  <1>2. ASSUME NEW q \in Props
        PROVE  Value(p)'[q] \in Nat /\ Lots(p)'[q] \in Nat
    BY <1>1 DEF Value, Lots
  <1> QED BY <1>2 DEF Value, Lots

\* A move about one property changes what a player's properties are worth, and
\* how many things there are to sell, by what it changes at that property.
LEMMA OneLot ==
    ASSUME BuildingTypes, EstateInv, BuildingTypes', EstateInv', NEW p, NEW q \in Props,
           \A r \in Props \ {q} : /\ owner'[r] = owner[r] /\ houses'[r] = houses[r]
                                  /\ mortgaged'[r] <=> mortgaged[r]
    PROVE  /\ Total(Value(p)) \in Nat /\ Total(Value(p)') \in Nat
           /\ Total(Lots(p)) \in Nat /\ Total(Lots(p)') \in Nat
           /\ Total(Value(p)') - Total(Value(p)) = Value(p)'[q] - Value(p)[q]
           /\ Total(Lots(p)') - Total(Lots(p)) = Lots(p)'[q] - Lots(p)[q]
  <1>1. Value(p) \in [Props -> Nat] /\ Lots(p) \in [Props -> Nat]
    BY ValueType
  <1>2. Value(p)' \in [Props -> Nat] /\ Lots(p)' \in [Props -> Nat]
    BY ValueTypeNext
  <1>3. ASSUME NEW r \in Props \ {q} PROVE Value(p)'[r] = Value(p)[r] /\ Lots(p)'[r] = Lots(p)[r]
    BY DEF Value, Lots
  <1>4. \A r \in Props \ {q} : Value(p)'[r] = Value(p)[r]
    BY <1>3
  <1>5. \A r \in Props \ {q} : Lots(p)'[r] = Lots(p)[r]
    BY <1>3
  <1>6. Total(Value(p)') - Total(Value(p)) = Value(p)'[q] - Value(p)[q]
    BY <1>1, <1>2, <1>4, TotalChange
  <1>7. Total(Lots(p)') - Total(Lots(p)) = Lots(p)'[q] - Lots(p)[q]
    BY <1>1, <1>2, <1>5, TotalChange
  <1> QED BY <1>1, <1>2, <1>6, <1>7, TotalIsNat

LEMMA SameOffers ==
    ASSUME UNCHANGED flow, UNCHANGED auction, phase # "auction"
    PROVE  UNCHANGED <<round, turn, Stage, Waiting, OpenBids, OpenOffers>> /\ Active' = Active
  <1>1. UNCHANGED <<round, turn, Stage, Waiting, OpenBids>> /\ Actor' = Actor
    BY SameMoment DEF flow
  <1>2. OpenOffers' = OpenOffers /\ Active' = Active
    BY <1>1 DEF OpenOffers, Active, flow
  <1> QED BY <1>1, <1>2

\* The active player spends more than what comes back in value.
LEMMA SpendFalls ==
    ASSUME EngineInv, EngineInv', NEW p \in Players, NEW q \in Props, NEW price \in Nat,
           UNCHANGED flow, UNCHANGED auction, phase # "auction", p = Active,
           cash'[p] = cash[p] - price,
           Value(p)'[q] - Value(p)[q] < price,
           \A r \in Props \ {q} : /\ owner'[r] = owner[r] /\ houses'[r] = houses[r]
                                  /\ mortgaged'[r] <=> mortgaged[r]
    PROVE  Below(Left', Left)
  <1>1. BuildingTypes /\ EstateInv /\ BuildingTypes' /\ EstateInv'
    BY Parts DEF EngineInv, TypeOK, EliminatedIsOut, BuildingTypes, EstateInv
  <1>2. /\ Total(Value(p)) \in Nat /\ Total(Value(p)') \in Nat
        /\ Total(Value(p)') - Total(Value(p)) = Value(p)'[q] - Value(p)[q]
    BY <1>1, OneLot
  <1>3. cash[p] \in Nat /\ cash'[p] \in Nat
    BY DEF EngineInv, TypeOK
  <1>4. cash'[p] + Total(Value(p)') < cash[p] + Total(Value(p))
    BY <1>2, <1>3
  <1>5. UNCHANGED <<round, turn, Stage, Waiting, OpenBids, OpenOffers>> /\ Active' = p
    BY SameOffers
  <1>6. Worth(Active)' = cash'[p] + Total(Value(p)') /\ Worth(Active) = cash[p] + Total(Value(p))
    BY <1>5 DEF Worth, Total, Units, Value
  <1> QED BY <1>4, <1>5, <1>6, WorthFalls

\* The active player raises no more than the value given up, with one thing less.
LEMMA LiquidateFalls ==
    ASSUME EngineInv, EngineInv', NEW p \in Players, NEW q \in Props, NEW amount \in Nat,
           UNCHANGED flow, UNCHANGED auction, phase # "auction", p = Active,
           cash'[p] <= cash[p] + amount,
           Value(p)'[q] = Value(p)[q] - amount, Lots(p)'[q] < Lots(p)[q],
           \A r \in Props \ {q} : /\ owner'[r] = owner[r] /\ houses'[r] = houses[r]
                                  /\ mortgaged'[r] <=> mortgaged[r]
    PROVE  Below(Left', Left)
  <1>1. BuildingTypes /\ EstateInv /\ BuildingTypes' /\ EstateInv'
    BY Parts DEF EngineInv, TypeOK, EliminatedIsOut, BuildingTypes, EstateInv
  <1>2. /\ Total(Value(p)) \in Nat /\ Total(Value(p)') \in Nat
        /\ Total(Lots(p)) \in Nat /\ Total(Lots(p)') \in Nat
        /\ Total(Value(p)') - Total(Value(p)) = Value(p)'[q] - Value(p)[q]
        /\ Total(Lots(p)') - Total(Lots(p)) = Lots(p)'[q] - Lots(p)[q]
    BY <1>1, OneLot
  <1>3. cash[p] \in Nat /\ cash'[p] \in Nat
    BY DEF EngineInv, TypeOK
  <1>4. Value(p)[q] \in Nat /\ Lots(p)[q] \in Nat /\ Lots(p)'[q] \in Nat
    BY <1>1, ValueType, ValueTypeNext
  <1>5. /\ cash'[p] + Total(Value(p)') <= cash[p] + Total(Value(p))
        /\ Total(Lots(p)') < Total(Lots(p))
    BY <1>2, <1>3, <1>4
  <1>6. UNCHANGED <<round, turn, Stage, Waiting, OpenBids, OpenOffers>> /\ Active' = p
    BY SameOffers
  <1>7. Worth(Active)' = cash'[p] + Total(Value(p)') /\ Worth(Active) = cash[p] + Total(Value(p))
    BY <1>6 DEF Worth, Total, Units, Value
  <1>8. Total(Lots(Active))' = Total(Lots(p)') /\ Total(Lots(Active)) = Total(Lots(p))
    BY <1>6 DEF Total, Units, Lots
  <1>9. CASE Worth(Active)' < Worth(Active)
    BY <1>6, <1>9, WorthFalls
  <1>10. CASE Worth(Active)' = Worth(Active)
    BY <1>5, <1>6, <1>8, <1>10, LotsFall
  <1>11. Worth(Active)' \in Nat /\ Worth(Active) \in Nat
    BY <1>2, <1>3, <1>7
  <1> QED BY <1>5, <1>7, <1>9, <1>10, <1>11

\* What is raised is at most added to the cash: a debtor's goes to the creditor.
LEMMA RaiseAtMost ==
    ASSUME EngineInv, NEW p \in Players, NEW amount \in Nat, PreRoll(p) \/ Landed(p),
           Raise(p, amount)
    PROVE  cash'[p] <= cash[p] + amount
  <1>1. cash \in [Players -> Nat] /\ debt \in Debt /\ cash[p] \in Nat /\ None \notin Players
    BY Parts, BoardAssumption DEF MoneyInv, BoardAssumption
  <1>2. CASE ~InDebt(p)
    <2>1. cash'[p] = cash[p] + amount
      BY <1>1, <1>2 DEF Raise
    <2> QED BY <1>1, <2>1
  <1>3. CASE InDebt(p)
    <2>1. debt # NoDebt
      BY <1>1, <1>3 DEF InDebt, NoDebt
    <2>2. debt.to \in Players \ {p}
      BY <1>3, <2>1, Parts DEF MoneyInv, DebtSound, Alive, InDebt
    <2> DEFINE purse == cash[p] + amount
               paid == Smaller(purse, debt.amount)
    <2>3. purse \in Nat /\ paid \in Nat
      BY <1>1 DEF Smaller, Debt
    <2> HIDE DEF purse, paid
    <2>4. cash' = [cash EXCEPT ![p] = purse - paid, ![debt.to] = cash[debt.to] + paid]
      BY <1>3, <2>2 DEF Raise, purse, paid
    <2>5. cash'[p] = purse - paid
      BY <1>1, <2>2, <2>4
    <2> QED BY <1>1, <2>3, <2>5 DEF purse
  <1> QED BY <1>2, <1>3

LEMMA PayBailFalls ==
    ASSUME EngineInv, EngineInv', NEW p \in Players, PayBail(p)
    PROVE  Below(Left', Left)
  <1>1. phase # "auction" /\ p = Active /\ UNCHANGED <<flow, auction, estate, buildings>>
    BY AtTable DEF PayBail
  <1>2. UNCHANGED <<round, turn, Stage, Waiting, OpenBids, OpenOffers>> /\ Active' = p
    BY <1>1, SameOffers
  <1>3. Worth(Active)' = cash'[p] + Total(Value(p)) /\ Worth(Active) = cash[p] + Total(Value(p))
    BY <1>1, <1>2 DEF Worth, Total, Units, Value, estate, buildings
  <1>4. Total(Value(p)) \in Nat
    BY Parts, ValueType, TotalIsNat
  <1>5. cash \in [Players -> Nat] /\ cash[p] \in Nat /\ Bail \in Nat /\ Bail > 0
    BY AmountAssumption, TermsAssumption, Parts DEF AmountAssumption, TermsAssumption, MoneyInv
  <1>6. cash'[p] = cash[p] - Bail
    BY <1>5 DEF PayBail
  <1>7. Worth(Active)' < Worth(Active)
    BY <1>3, <1>4, <1>5, <1>6
  <1> QED BY <1>2, <1>7, WorthFalls

\* A property costs more than its mortgage will pay.
LEMMA BuyPropertyFalls ==
    ASSUME EngineInv, EngineInv', BankHoldsBare, NEW p \in Players, BuyProperty(p)
    PROVE  Below(Left', Left)
  <1> DEFINE q == position[p]
  <1>1. /\ Landed(p) /\ q \in Props /\ owner[q] = None
        /\ owner' = [owner EXCEPT ![q] = p]
        /\ cash' = [cash EXCEPT ![p] = @ - Price[q]]
        /\ UNCHANGED <<mortgaged, buildings, flow, auction>>
    BY DEF BuyProperty, OnUnowned, Acquire
  <1> HIDE DEF q
  <1>2. phase # "auction" /\ p = Active
    BY <1>1, AtTable
  <1>3. /\ cash \in [Players -> Nat] /\ owner \in [Props -> Players \cup {None}]
        /\ None \notin Players /\ houses' = houses /\ houses[q] = 0
    BY <1>1, Parts, BoardAssumption
    DEF BoardAssumption, MoneyInv, EstateInv, BankHoldsBare, buildings
  <1>4. Price[q] \in Nat /\ MortgageValue[q] \in Nat /\ MortgageValue[q] < Price[q]
        /\ HalfPrice(q) \in Nat /\ 0 * HalfPrice(q) = 0
    BY <1>1, Terms
  <1>5. cash'[p] = cash[p] - Price[q]
    BY <1>1, <1>3
  <1>6. Value(p)[q] = 0 /\ Value(p)'[q] \in {0, MortgageValue[q]}
    BY <1>1, <1>3, <1>4 DEF Value
  <1>7. Value(p)'[q] - Value(p)[q] < Price[q]
    BY <1>4, <1>6
  <1>8. \A r \in Props \ {q} : /\ owner'[r] = owner[r] /\ houses'[r] = houses[r]
                               /\ mortgaged'[r] <=> mortgaged[r]
    BY <1>1, <1>3
  <1> QED BY <1>1, <1>2, <1>4, <1>5, <1>7, <1>8, SpendFalls

\* Redeeming costs more than the mortgage paid.
LEMMA UnmortgageFalls ==
    ASSUME EngineInv, EngineInv', NEW p \in Players, Unmortgage(p)
    PROVE  Below(Left', Left)
  <1>1. PICK q \in Redeemable(p) :
            /\ PreRoll(p)
            /\ mortgaged' = [mortgaged EXCEPT ![q] = FALSE]
            /\ cash' = [cash EXCEPT ![p] = @ - RedemptionCost(q)]
            /\ UNCHANGED <<owner, buildings, flow, auction>>
    BY DEF Unmortgage
  <1>2. phase # "auction" /\ p = Active /\ q \in Props /\ owner[q] = p /\ mortgaged[q]
    BY <1>1, AtTable DEF Redeemable
  <1>3. /\ cash \in [Players -> Nat] /\ mortgaged \in [Props -> BOOLEAN]
        /\ houses' = houses /\ owner' = owner /\ houses[q] \in Nat
    BY <1>1, <1>2, Parts DEF MoneyInv, EstateInv, BuildingTypes, buildings, Hotel
  <1>4. /\ RedemptionCost(q) \in Nat /\ MortgageValue[q] \in Nat
        /\ MortgageValue[q] < RedemptionCost(q)
        /\ HalfPrice(q) \in Nat /\ houses[q] * HalfPrice(q) \in Nat
    BY <1>2, <1>3, Terms
  <1>5. cash'[p] = cash[p] - RedemptionCost(q)
    BY <1>1, <1>3
  <1>6. ~mortgaged'[q]
    BY <1>1, <1>2, <1>3
  <1>7. /\ Value(p)[q] = 0 + houses[q] * HalfPrice(q)
        /\ Value(p)'[q] = MortgageValue[q] + houses[q] * HalfPrice(q)
    BY <1>2, <1>3, <1>6 DEF Value
  <1>8. Value(p)'[q] - Value(p)[q] < RedemptionCost(q)
    BY <1>4, <1>7
  <1>9. \A r \in Props \ {q} : /\ owner'[r] = owner[r] /\ houses'[r] = houses[r]
                               /\ mortgaged'[r] <=> mortgaged[r]
    <2>1. \A r \in Props \ {q} : mortgaged'[r] <=> mortgaged[r]
      BY <1>1, <1>3, Zenon
    <2> QED BY <1>3, <2>1
  <1> QED BY <1>1, <1>2, <1>4, <1>5, <1>8, <1>9, SpendFalls

\* A building costs more than the half it is sold for.
LEMMA BuildFalls ==
    ASSUME EngineInv, EngineInv', NEW p \in Players, BuildHouse(p) \/ BuildHotel(p)
    PROVE  Below(Left', Left)
  <1>1. PICK q \in Improvable(p) :
            /\ PreRoll(p)
            /\ houses' = [houses EXCEPT ![q] = houses[q] + 1]
            /\ cash' = [cash EXCEPT ![p] = @ - HousePrice[q]]
            /\ UNCHANGED <<estate, flow, auction>>
    BY DEF BuildHouse, BuildHotel, HouseSites, HotelSites, Hotel
  <1>2. phase # "auction" /\ p = Active /\ q \in RealEstate /\ q \in Props /\ owner[q] = p
    BY <1>1, AtTable DEF Improvable, RealEstate
  <1>3. /\ cash \in [Players -> Nat] /\ mortgaged' = mortgaged /\ owner' = owner
        /\ houses \in [Props -> 0 .. Hotel] /\ houses[q] \in Nat
    BY <1>1, <1>2, Parts DEF MoneyInv, BuildingTypes, estate, Hotel
  <1>4. /\ HousePrice[q] \in Nat /\ HalfPrice(q) \in Nat /\ HalfPrice(q) < HousePrice[q]
        /\ MortgageValue[q] \in Nat
    BY <1>2, Terms
  <1>5. cash'[p] = cash[p] - HousePrice[q] /\ houses'[q] = houses[q] + 1
    BY <1>1, <1>2, <1>3
  <1>6. (houses[q] + 1) * HalfPrice(q) = houses[q] * HalfPrice(q) + HalfPrice(q)
        /\ houses[q] * HalfPrice(q) \in Nat
    BY <1>3, <1>4
  <1>7. Value(p)'[q] - Value(p)[q] = HalfPrice(q)
    <2> DEFINE plain == IF mortgaged[q] THEN 0 ELSE MortgageValue[q]
    <2>1. plain \in Nat
      BY <1>4
    <2>2. /\ Value(p)[q] = plain + houses[q] * HalfPrice(q)
          /\ Value(p)'[q] = plain + houses'[q] * HalfPrice(q)
      BY <1>2, <1>3 DEF Value
    <2> QED BY <1>4, <1>5, <1>6, <2>1, <2>2
  <1>8. Value(p)'[q] - Value(p)[q] < HousePrice[q]
    BY <1>4, <1>7
  <1>9. \A r \in Props \ {q} : /\ owner'[r] = owner[r] /\ houses'[r] = houses[r]
                               /\ mortgaged'[r] <=> mortgaged[r]
    BY <1>1, <1>3
  <1> QED BY <1>1, <1>2, <1>4, <1>5, <1>8, <1>9, SpendFalls

\* A mortgage, a property or a building sold pays the value that it takes away.
LEMMA MortgageFalls ==
    ASSUME EngineInv, EngineInv', NEW p \in Players, Mortgage(p)
    PROVE  Below(Left', Left)
  <1>1. PICK q \in Unimproved(p) :
            /\ PreRoll(p) \/ Landed(p)
            /\ mortgaged' = [mortgaged EXCEPT ![q] = TRUE]
            /\ Raise(p, MortgageValue[q])
            /\ UNCHANGED <<owner, buildings, flow, auction>>
    BY DEF Mortgage
  <1>2. /\ phase # "auction" /\ p = Active
        /\ q \in Props /\ owner[q] = p /\ ~mortgaged[q] /\ houses[q] = 0
    BY <1>1, AtTable DEF Unimproved
  <1>3. mortgaged \in [Props -> BOOLEAN] /\ houses' = houses /\ owner' = owner
    BY <1>1, Parts DEF EstateInv, buildings
  <1>4. MortgageValue[q] \in Nat /\ HalfPrice(q) \in Nat /\ 0 * HalfPrice(q) = 0
    BY <1>2, Terms
  <1>5. cash'[p] <= cash[p] + MortgageValue[q]
    BY <1>1, <1>4, RaiseAtMost
  <1>6. mortgaged'[q]
    BY <1>1, <1>2, <1>3
  <1>7. /\ Value(p)[q] = MortgageValue[q] /\ Value(p)'[q] = 0
        /\ Lots(p)[q] = 1 /\ Lots(p)'[q] = 0
    BY <1>2, <1>3, <1>4, <1>6 DEF Value, Lots
  <1>8. Value(p)'[q] = Value(p)[q] - MortgageValue[q] /\ Lots(p)'[q] < Lots(p)[q]
    BY <1>4, <1>7
  <1>9. \A r \in Props \ {q} : /\ owner'[r] = owner[r] /\ houses'[r] = houses[r]
                               /\ mortgaged'[r] <=> mortgaged[r]
    <2>1. \A r \in Props \ {q} : mortgaged'[r] <=> mortgaged[r]
      BY <1>1, <1>3, Zenon
    <2> QED BY <1>3, <2>1
  <1> QED BY <1>1, <1>2, <1>4, <1>5, <1>8, <1>9, LiquidateFalls

LEMMA SellPropertyFalls ==
    ASSUME EngineInv, EngineInv', NEW p \in Players, SellProperty(p)
    PROVE  Below(Left', Left)
  <1>1. PICK q \in Unimproved(p) :
            /\ PreRoll(p) \/ Landed(p)
            /\ owner' = [owner EXCEPT ![q] = None]
            /\ Raise(p, MortgageValue[q])
            /\ UNCHANGED <<mortgaged, buildings, flow, auction>>
    BY DEF SellProperty
  <1>2. /\ phase # "auction" /\ p = Active /\ None # p
        /\ q \in Props /\ owner[q] = p /\ ~mortgaged[q] /\ houses[q] = 0
    BY <1>1, AtTable, BoardAssumption DEF BoardAssumption, Unimproved
  <1>3. owner \in [Props -> Players \cup {None}] /\ houses' = houses /\ mortgaged' = mortgaged
    BY <1>1, Parts DEF EstateInv, buildings
  <1>4. MortgageValue[q] \in Nat /\ HalfPrice(q) \in Nat /\ 0 * HalfPrice(q) = 0
    BY <1>2, Terms
  <1>5. cash'[p] <= cash[p] + MortgageValue[q]
    BY <1>1, <1>4, RaiseAtMost
  <1>6. owner'[q] = None
    BY <1>1, <1>2, <1>3
  <1>7. /\ Value(p)[q] = MortgageValue[q] /\ Value(p)'[q] = 0
        /\ Lots(p)[q] = 1 /\ Lots(p)'[q] = 0
    BY <1>2, <1>3, <1>4, <1>6 DEF Value, Lots
  <1>8. Value(p)'[q] = Value(p)[q] - MortgageValue[q] /\ Lots(p)'[q] < Lots(p)[q]
    BY <1>4, <1>7
  <1>9. \A r \in Props \ {q} : /\ owner'[r] = owner[r] /\ houses'[r] = houses[r]
                               /\ mortgaged'[r] <=> mortgaged[r]
    BY <1>1, <1>3
  <1> QED BY <1>1, <1>2, <1>4, <1>5, <1>8, <1>9, LiquidateFalls

LEMMA SellBuildingFalls ==
    ASSUME EngineInv, EngineInv', NEW p \in Players, SellHouse(p) \/ SellHotel(p)
    PROVE  Below(Left', Left)
  <1>1. PICK q \in WithHouses(p) \cup WithHotel(p) :
            /\ PreRoll(p) \/ Landed(p)
            /\ houses' = [houses EXCEPT ![q] = houses[q] - 1]
            /\ Raise(p, HalfPrice(q))
            /\ UNCHANGED <<estate, flow, auction>>
    <2>1. CASE SellHouse(p)
      BY <2>1 DEF SellHouse
    <2>2. CASE SellHotel(p)
      <3>1. PICK q \in WithHotel(p) :
                /\ PreRoll(p) \/ Landed(p)
                /\ houses' = [houses EXCEPT ![q] = MaxHouses]
                /\ Raise(p, HalfPrice(q))
                /\ UNCHANGED <<estate, flow, auction>>
        BY <2>2 DEF SellHotel
      <3>2. MaxHouses = houses[q] - 1
        BY AmountAssumption DEF AmountAssumption, WithHotel, Hotel
      <3> QED BY <3>1, <3>2
    <2> QED BY <2>1, <2>2
  <1>2. /\ phase # "auction" /\ p = Active /\ q \in Props /\ owner[q] = p
        /\ houses[q] \in Nat \ {0}
    BY <1>1, AtTable, AmountAssumption
    DEF AmountAssumption, WithHouses, WithHotel, RealEstate, Hotel
  <1>3. houses \in [Props -> 0 .. Hotel] /\ mortgaged' = mortgaged /\ owner' = owner
    BY <1>1, Parts DEF BuildingTypes, estate
  <1>4. MortgageValue[q] \in Nat /\ HalfPrice(q) \in Nat
    BY <1>2, Terms
  <1>5. cash'[p] <= cash[p] + HalfPrice(q) /\ houses'[q] = houses[q] - 1
    BY <1>1, <1>2, <1>3, <1>4, RaiseAtMost
  <1>6. (houses[q] - 1) * HalfPrice(q) = houses[q] * HalfPrice(q) - HalfPrice(q)
        /\ houses[q] * HalfPrice(q) \in Nat
    BY <1>2, <1>4
  <1>7. Value(p)'[q] = Value(p)[q] - HalfPrice(q)
    <2> DEFINE plain == IF mortgaged[q] THEN 0 ELSE MortgageValue[q]
    <2>1. plain \in Nat
      BY <1>4
    <2>2. /\ Value(p)[q] = plain + houses[q] * HalfPrice(q)
          /\ Value(p)'[q] = plain + houses'[q] * HalfPrice(q)
      BY <1>2, <1>3 DEF Value
    <2> QED BY <1>4, <1>5, <1>6, <2>1, <2>2
  <1>8. Lots(p)'[q] < Lots(p)[q]
    BY <1>2, <1>3, <1>5 DEF Lots
  <1>9. \A r \in Props \ {q} : /\ owner'[r] = owner[r] /\ houses'[r] = houses[r]
                               /\ mortgaged'[r] <=> mortgaged[r]
    BY <1>1, <1>3
  <1> QED BY <1>1, <1>2, <1>4, <1>5, <1>7, <1>8, <1>9, LiquidateFalls
-----------------------------------------------------------------------------
(* The rolls are counted, and the bank's properties are bare *)

LEMMA NextPlayerCounts ==
    ASSUME NEW broke, NextPlayer(broke), round \in Nat, ~done, RollsCounted, CheckGameOver
    PROVE  RollsCounted'
  <1>1. /\ phase' = "pre_roll" /\ hasRolled' = FALSE /\ doubles' = 0 /\ extraRoll' = FALSE
        /\ round' \in {round, round + 1}
    BY DEF NextPlayer
  <1>2. MaxRounds \in Nat /\ round < MaxRounds
    BY AmountAssumption DEF AmountAssumption, RollsCounted
  <1>3. round' <= MaxRounds /\ round' \in Nat
    BY <1>1, <1>2
  <1>4. ~done' => ~(round' >= MaxRounds)
    BY DEF CheckGameOver
  <1>5. ~done' => round' < MaxRounds
    BY <1>2, <1>3, <1>4
  <1> QED BY <1>1, <1>3, <1>5 DEF RollsCounted

LEMMA SameRoundCounts ==
    ASSUME round' = round, round \in Nat, ~done, RollsCounted, CheckGameOver
    PROVE  round' <= MaxRounds /\ (~done' => round' < MaxRounds)
  <1>1. MaxRounds \in Nat /\ round < MaxRounds
    BY AmountAssumption DEF AmountAssumption, RollsCounted
  <1> QED BY <1>1 DEF CheckGameOver

LEMMA FinishCounts ==
    ASSUME FlowInv, FinishLanding, ~done, RollsCounted, CheckGameOver
    PROVE  RollsCounted'
  <1>1. CASE RollAgain
    <2>1. round' <= MaxRounds /\ (~done' => round' < MaxRounds)
      BY <1>1, SameRoundCounts DEF RollAgain, FlowInv
    <2> QED BY <1>1, <2>1 DEF RollAgain, RollsCounted
  <1>2. CASE StartOutOfTurn /\ Responders = {}
    BY <1>2, NextPlayerCounts DEF StartOutOfTurn, FlowInv
  <1>3. CASE StartOutOfTurn /\ Responders # {}
    <2>1. round' <= MaxRounds /\ (~done' => round' < MaxRounds)
      BY <1>3, SameRoundCounts DEF StartOutOfTurn, FlowInv
    <2> QED BY <1>3, <2>1 DEF StartOutOfTurn, RollsCounted
  <1> QED BY <1>1, <1>2, <1>3 DEF FinishLanding

LEMMA RollsStep ==
    ASSUME EngineInv, RollsCounted, ~done, CheckGameOver, NEW p \in Players, Decision(p)
    PROVE  RollsCounted'
  <1>1. FlowInv /\ round \in Nat /\ doubles \in 0 .. 2
    BY Parts DEF FlowInv
  <1>2. ASSUME UNCHANGED <<phase, round, hasRolled, doubles, extraRoll>> PROVE RollsCounted'
    <2>1. round' <= MaxRounds /\ (~done' => round' < MaxRounds)
      BY <1>1, <1>2, SameRoundCounts
    <2> QED BY <1>2, <2>1 DEF RollsCounted
  <1>3. CASE EndPreRoll(p)
    <2>1. round' <= MaxRounds /\ (~done' => round' < MaxRounds)
      BY <1>1, <1>3, SameRoundCounts DEF EndPreRoll
    <2> QED BY <1>3, <2>1 DEF EndPreRoll, PreRoll, RollsCounted
  <1>4. CASE EndOnUnowned(p)
    <2>1. round' <= MaxRounds /\ (~done' => round' < MaxRounds)
      BY <1>1, <1>4, SameRoundCounts DEF EndOnUnowned
    <2> QED BY <1>4, <2>1 DEF EndOnUnowned, RollsCounted
  <1>5. CASE EndPostRoll(p)
    BY <1>1, <1>5, FinishCounts DEF EndPostRoll
  <1>6. CASE EndOutOfTurn(p)
    <2>1. CASE outOfTurn = {p}
      BY <1>1, <1>6, <2>1, NextPlayerCounts DEF EndOutOfTurn
    <2>2. CASE outOfTurn # {p}
      BY <1>2, <1>6, <2>2 DEF EndOutOfTurn
    <2> QED BY <2>1, <2>2
  <1>7. CASE RollDice(p)
    <2>1. /\ phase = "post_roll" /\ ~hasRolled /\ ~extraRoll
          /\ phase' = "post_roll" /\ hasRolled' = TRUE /\ round' = round
      BY <1>7 DEF RollsCounted, RollDice, StayInJail, ThirdDouble, Move, Unrolled
    <2>2. extraRoll' => doubles' > 0
      <3>1. CASE StayInJail(p) \/ ThirdDouble(p)
        BY <2>1, <3>1 DEF StayInJail, ThirdDouble
      <3>2. CASE \E d1, d2 \in Dice : Move(p, d1, d2)
        <4>1. extraRoll' = FALSE \/ (extraRoll' = TRUE /\ doubles' = doubles + 1)
          BY <3>2 DEF Move, LandInJail
        <4> QED BY <1>1, <4>1
      <3> QED BY <1>7, <3>1, <3>2 DEF RollDice
    <2>3. round' <= MaxRounds /\ (~done' => round' < MaxRounds)
      BY <1>1, <2>1, SameRoundCounts
    <2> QED BY <2>1, <2>2, <2>3 DEF RollsCounted
  <1>8. CASE DeclareBankrupt(p)
    BY <1>1, <1>8, NextPlayerCounts DEF DeclareBankrupt
  <1>9. CASE AuctionMove(p)
    <2>1. CASE \E now : AuctionGoesOn(p, now)
      BY <1>2, <2>1 DEF AuctionGoesOn, flow
    <2>2. CASE \E now : FinishAuction(now)
      BY <1>1, <2>2, FinishCounts DEF FinishAuction
    <2> QED BY <1>9, <2>1, <2>2 DEF AuctionMove
  <1>10. CASE \/ PayBail(p) \/ BuyProperty(p) \/ Mortgage(p) \/ Unmortgage(p) \/ SellProperty(p)
              \/ BuildHouse(p) \/ BuildHotel(p) \/ SellHouse(p) \/ SellHotel(p)
    BY <1>2, <1>10 DEF PayBail, BuyProperty, Mortgage, Unmortgage, SellProperty, BuildHouse,
                       BuildHotel, SellHouse, SellHotel, flow
  <1>11. CASE MakeOffer(p) \/ AcceptTrade(p) \/ DeclineTrade(p)
    BY <1>2, <1>11 DEF MakeOffer, AcceptTrade, DeclineTrade
  <1> QED BY <1>3, <1>4, <1>5, <1>6, <1>7, <1>8, <1>9, <1>10, <1>11 DEF Decision

LEMMA BareStep ==
    ASSUME EngineInv, BankHoldsBare, NEW p \in Players, Decision(p)
    PROVE  BankHoldsBare'
  <1>1. /\ owner \in [Props -> Players \cup {None}] /\ houses \in [Props -> 0 .. Hotel]
        /\ None \notin Players /\ None \notin Props
        /\ \A o \in Players : held[o] = {q \in Props : owner[q] = o}
    BY Parts, BoardAssumption DEF BoardAssumption, EstateInv, BuildingTypes, OwnershipAgrees
  <1>2. ASSUME houses' = houses,
               \A q \in Props : owner'[q] = None => owner[q] = None \/ houses[q] = 0
        PROVE  BankHoldsBare'
    BY <1>2 DEF BankHoldsBare
  <1>3. CASE \/ EndPreRoll(p) \/ EndOnUnowned(p) \/ EndPostRoll(p) \/ EndOutOfTurn(p)
             \/ RollDice(p) \/ PayBail(p) \/ Mortgage(p) \/ Unmortgage(p)
             \/ MakeOffer(p) \/ DeclineTrade(p)
    <2>1. houses' = houses /\ owner' = owner
      BY <1>3 DEF EndPreRoll, EndOnUnowned, EndPostRoll, EndOutOfTurn, RollDice, StayInJail,
                  ThirdDouble, Move, PayBail, Mortgage, Unmortgage, MakeOffer, DeclineTrade,
                  estate, buildings
    <2> QED BY <1>2, <2>1
  <1>4. CASE BuyProperty(p)
    BY <1>1, <1>2, <1>4 DEF BuyProperty, Acquire, buildings
  <1>5. CASE SellProperty(p)
    BY <1>1, <1>2, <1>5 DEF SellProperty, Unimproved, buildings
  <1>6. CASE BuildHouse(p) \/ BuildHotel(p) \/ SellHouse(p) \/ SellHotel(p)
    <2>1. PICK q \in Props :
             owner[q] = p /\ owner' = owner /\ \E h : houses' = [houses EXCEPT ![q] = h]
      BY <1>6 DEF BuildHouse, BuildHotel, SellHouse, SellHotel, HouseSites, HotelSites,
                  Improvable, WithHouses, WithHotel, RealEstate, estate
    <2> QED BY <1>1, <2>1 DEF BankHoldsBare
  <1>7. CASE DeclareBankrupt(p)
    <2>1. \A q \in Props : q \in held[p] => houses'[q] = 0
      BY <1>7 DEF DeclareBankrupt
    <2>2. \A q \in Props : q \notin held[p] => houses'[q] = houses[q] /\ owner'[q] = owner[q]
      BY <1>7 DEF DeclareBankrupt
    <2> QED BY <2>1, <2>2 DEF BankHoldsBare
  <1>8. CASE AuctionMove(p)
    <2>1. CASE UNCHANGED owner
      BY <1>2, <1>8, <2>1 DEF AuctionMove, buildings
    <2>2. CASE \E now : now.leader # None /\ Acquire(now.leader, now.prop)
      <3>1. PICK now : now.leader # None /\ owner' = [owner EXCEPT ![now.prop] = now.leader]
        BY <2>2 DEF Acquire
      <3>2. \A q \in Props : owner'[q] = None => owner[q] = None
        BY <1>1, <3>1
      <3> QED BY <1>2, <1>8, <3>2 DEF AuctionMove, buildings
    <2> QED BY <1>8, <2>1, <2>2 DEF AuctionMove, AuctionGoesOn, FinishAuction
  <1>9. CASE AcceptTrade(p)
    <2>1. CASE UNCHANGED owner
      BY <1>2, <1>9, <2>1 DEF AcceptTrade, buildings
    <2>2. CASE \E o : Exchange(Incoming(p), p, o)
      <3>1. Incoming(p) # None
        BY <1>1, <1>9, SeatIsSeat, NextSeatInSet DEF AcceptTrade, Answering, Senders, Incoming
      <3>2. \A q \in Props : owner'[q] = None => owner[q] = None
        BY <1>1, <2>2, <3>1 DEF Exchange
      <3> QED BY <1>2, <1>9, <3>2 DEF AcceptTrade, buildings
    <2> QED BY <1>9, <2>1, <2>2 DEF AcceptTrade
  <1> QED BY <1>3, <1>4, <1>5, <1>6, <1>7, <1>8, <1>9 DEF Decision
-----------------------------------------------------------------------------
(* Every move descends *)

LEMMA DecisionDescends ==
    ASSUME ProgressInv, EngineInv', NEW p \in Players, Decision(p)
    PROVE  Below(Left', Left)
  <1> USE DEF ProgressInv
  <1>1. CASE EndPreRoll(p) \/ EndOnUnowned(p) \/ EndPostRoll(p) \/ EndOutOfTurn(p)
    BY <1>1, EndsFall
  <1>2. CASE RollDice(p)
    BY <1>2, RollFalls
  <1>3. CASE DeclareBankrupt(p)
    BY <1>3, BankruptcyFalls
  <1>4. CASE AuctionMove(p)
    BY <1>4, BidFalls
  <1>5. CASE MakeOffer(p) \/ AcceptTrade(p) \/ DeclineTrade(p)
    BY <1>5, OfferFalls
  <1>6. CASE PayBail(p) \/ BuyProperty(p) \/ Unmortgage(p) \/ BuildHouse(p) \/ BuildHotel(p)
    BY <1>6, PayBailFalls, BuyPropertyFalls, UnmortgageFalls, BuildFalls
  <1>7. CASE Mortgage(p) \/ SellProperty(p) \/ SellHouse(p) \/ SellHotel(p)
    BY <1>7, MortgageFalls, SellPropertyFalls, SellBuildingFalls
  <1> QED BY <1>1, <1>2, <1>3, <1>4, <1>5, <1>6, <1>7 DEF Decision

LEMMA ProgressInit == Init => RollsCounted /\ BankHoldsBare
  <1> SUFFICES ASSUME Init PROVE RollsCounted /\ BankHoldsBare
    OBVIOUS
  <1>1. MaxRounds \in Nat \ {0}
    BY AmountAssumption DEF AmountAssumption
  <1>2. RollsCounted
    BY <1>1 DEF Init, RollsCounted
  <1>3. BankHoldsBare
    BY DEF Init, BankHoldsBare
  <1> QED BY <1>2, <1>3

\* Doubles give one more roll each, at most two a turn; what the bank sells is
\* bare; and a game that goes on has rounds left (with the engine's invariant).
THEOREM ProgressSound == Spec => []ProgressInv
  <1>1. Init => ProgressInv
    BY EngineInit, ProgressInit DEF ProgressInv
  <1>2. ProgressInv /\ [Next]_vars => ProgressInv'
    <2> SUFFICES ASSUME ProgressInv, [Next]_vars PROVE ProgressInv'
      OBVIOUS
    <2>1. EngineInv'
      BY DecisionStep, EngineStutter DEF Next, ProgressInv
    <2>2. CASE Next
      <3>1. RollsCounted' /\ BankHoldsBare'
        BY <2>2, RollsStep, BareStep DEF Next, ProgressInv
      <3> QED BY <2>1, <3>1 DEF ProgressInv
    <2>3. CASE UNCHANGED vars
      <3>1. RollsCounted' /\ BankHoldsBare'
        BY <2>3 DEF ProgressInv, RollsCounted, BankHoldsBare, vars, flow, estate, buildings
      <3> QED BY <2>1, <3>1 DEF ProgressInv
    <2> QED BY <2>2, <2>3
  <1> QED BY <1>1, <1>2, PTL DEF Spec

\* On any board, with any number of players and whatever the policies choose,
\* every step of MonopolyEnv.step lowers eight natural numbers lexically: no
\* menu can be walked in a circle, and there are no endless games.
THEOREM GamesDescend == Spec => EveryMoveDescends
  <1>1. ProgressInv => IsMeasure(Left)
    BY LeftType DEF ProgressInv, RollsCounted
  <1>2. ProgressInv /\ ProgressInv' /\ [Next]_vars => [Below(Left', Left)]_vars
    <2> SUFFICES ASSUME ProgressInv, ProgressInv', Next PROVE Below(Left', Left)
      OBVIOUS
    <2>1. EngineInv'
      BY DEF ProgressInv
    <2> QED BY <2>1, DecisionDescends DEF Next
  <1>3. IsMeasure(Left)' <=> IsMeasure(Left')
    BY DEF IsMeasure
  <1>4. ProgressInv' => IsMeasure(Left')
    BY <1>1, <1>3, PTL
  <1>5. ProgressInv /\ ProgressInv' /\ [Next]_vars => [IsMeasure(Left') /\ Below(Left', Left)]_vars
    BY <1>2, <1>4
  <1> QED BY <1>5, ProgressSound, PTL DEF Spec, EveryMoveDescends
=============================================================================
