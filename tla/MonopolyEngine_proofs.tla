------------------------ MODULE MonopolyEngine_proofs -----------------------
(* Theorems about MonopolyEngine, for any board and any number of players.   *)
EXTENDS MonopolyEngine, FiniteSetTheorems, WellFoundedInduction, TLAPS

-----------------------------------------------------------------------------
(* Around the table *)

\* Seat and NextSeat choose seats; someone in S sits at the seat NextSeat finds.
LEMMA SeatIsSeat ==
    ASSUME NEW p \in Players
    PROVE  Seat(p) \in 1 .. N /\ TurnOrder[Seat(p)] = p
  BY BoardAssumption DEF BoardAssumption, Seat

LEMMA AroundIsSeat ==
    ASSUME NEW i \in 1 .. N, NEW d \in 1 .. N
    PROVE  Around(i, d) \in 1 .. N
  <1>1. N \in Nat /\ N > 0 /\ i + d - 1 \in Nat
    BY BoardAssumption DEF BoardAssumption
  <1>2. (i + d - 1) % N \in 0 .. N - 1
    BY <1>1
  <1> QED BY <1>1, <1>2 DEF Around

LEMMA AroundReachesAll ==
    ASSUME NEW i \in 1 .. N, NEW j \in 1 .. N
    PROVE  \E d \in 1 .. N : Around(i, d) = j
  <1>1. N \in Nat /\ N > 0 /\ i \in Nat /\ j \in Nat
    BY BoardAssumption DEF BoardAssumption
  <1>2. CASE i < j
    <2>1. j - i \in 1 .. N /\ i + (j - i) - 1 = j - 1 /\ j - 1 \in 0 .. N - 1
      BY <1>1, <1>2
    <2>2. (j - 1) % N = j - 1
      BY <1>1, <2>1
    <2>3. Around(i, j - i) = j
      BY <1>1, <2>1, <2>2 DEF Around
    <2> QED BY <2>1, <2>3
  <1>3. CASE j <= i
    <2>1. /\ j - i + N \in 1 .. N /\ i + (j - i + N) - 1 = (j - 1) + N
          /\ j - 1 \in 0 .. N - 1
      BY <1>1, <1>3
    <2>2. ((j - 1) + N) % N = j - 1
      BY <1>1, <2>1
    <2>3. Around(i, j - i + N) = j
      BY <1>1, <2>1, <2>2 DEF Around
    <2> QED BY <2>1, <2>3
  <1> QED BY <1>1, <1>2, <1>3

LEMMA LeastNatural ==
    ASSUME NEW T \in SUBSET Nat, T # {}
    PROVE  \E x \in T : \A y \in T : x <= y
  <1>1. PICK x \in T : \A y \in T : <<y, x>> \notin OpToRel(<, Nat)
    BY NatLessThanWellFounded, WFMin
  <1>2. \A y \in T : ~(y < x)
    BY <1>1 DEF OpToRel
  <1> QED BY <1>2

LEMMA NextSeatInSet ==
    ASSUME NEW i \in 1 .. N, NEW S \in SUBSET Players, S # {}
    PROVE  NextSeat(i, S) \in 1 .. N /\ TurnOrder[NextSeat(i, S)] \in S
  <1> DEFINE T == {d \in 1 .. N : TurnOrder[Around(i, d)] \in S}
  <1>1. T # {}
    <2>1. PICK p \in S : TRUE
      OBVIOUS
    <2>2. PICK d \in 1 .. N : Around(i, d) = Seat(p)
      BY <2>1, SeatIsSeat, AroundReachesAll
    <2>3. TurnOrder[Around(i, d)] = p
      BY <2>1, <2>2, SeatIsSeat
    <2> QED BY <2>1, <2>3
  <1>2. T \in SUBSET Nat
    OBVIOUS
  <1>3. PICK x \in T : \A y \in T : x <= y
    BY <1>1, <1>2, LeastNatural
  <1>4. \E d \in 1 .. N :
            /\ TurnOrder[Around(i, d)] \in S
            /\ \A e \in 1 .. N : TurnOrder[Around(i, e)] \in S => d <= e
    BY <1>3
  <1> DEFINE d0 == CHOOSE d \in 1 .. N :
                       /\ TurnOrder[Around(i, d)] \in S
                       /\ \A e \in 1 .. N : TurnOrder[Around(i, e)] \in S => d <= e
  <1>5. d0 \in 1 .. N /\ TurnOrder[Around(i, d0)] \in S
    BY <1>4
  <1>6. NextSeat(i, S) = Around(i, d0)
    BY DEF NextSeat
  <1> HIDE DEF d0
  <1> QED BY <1>5, <1>6, AroundIsSeat
-----------------------------------------------------------------------------
(* Amounts are natural numbers *)

LEMMA PropsFinite ==
    ASSUME NEW S \in SUBSET Props
    PROVE  IsFiniteSet(S) /\ Cardinality(S) \in Nat
  BY BoardAssumption, FS_Subset, FS_CardinalityType DEF BoardAssumption

LEMMA CountsAreNat ==
    ASSUME NEW S \in SUBSET Props, NEW h
    PROVE  HousesOn(S, h) \in Nat /\ HotelsOn(S, h) \in Nat
  <1>1. IsFiniteSet(S) /\ MaxHouses \in Nat
    BY PropsFinite, AmountAssumption DEF AmountAssumption
  <1>2. IsFiniteSet(1 .. MaxHouses)
    BY <1>1, FS_Interval
  <1>3. IsFiniteSet(S \X (1 .. MaxHouses))
    BY <1>1, <1>2, FS_Product
  <1> DEFINE built == {b \in S \X (1 .. MaxHouses) : b[2] <= h[b[1]] /\ h[b[1]] <= MaxHouses}
             hotels == {q \in S : h[q] = Hotel}
  <1>4. built \in SUBSET (S \X (1 .. MaxHouses)) /\ hotels \in SUBSET S
    OBVIOUS
  <1>5. IsFiniteSet(built) /\ IsFiniteSet(hotels)
    BY <1>1, <1>3, <1>4, FS_Subset
  <1> QED BY <1>5, FS_CardinalityType DEF HousesOn, HotelsOn

LEMMA ProceedsIsNat ==
    ASSUME NEW S \in SUBSET Props, houses \in [Props -> 0 .. Hotel]
    PROVE  Proceeds(S) \in Nat
  <1>1. IsFiniteSet(S)
    BY PropsFinite
  <1> DEFINE dollars(q) == {q} \X (1 .. houses[q] * HalfPrice(q))
             f == [q \in S |-> dollars(q)]
             family == {dollars(q) : q \in S}
  <1>2. ASSUME NEW q \in S PROVE IsFiniteSet(dollars(q))
    <2>1. houses[q] \in Nat /\ HalfPrice(q) \in Nat
      BY AmountAssumption DEF AmountAssumption, HalfPrice, Hotel
    <2>2. houses[q] * HalfPrice(q) \in Nat
      BY <2>1
    <2>3. IsFiniteSet(1 .. houses[q] * HalfPrice(q))
      BY <2>2, FS_Interval
    <2>4. IsFiniteSet({q})
      BY FS_Singleton
    <2> QED BY <2>3, <2>4, FS_Product
  <1>3. f \in Surjection(S, family)
    BY DEF Surjection
  <1>4. IsFiniteSet(family)
    BY <1>1, <1>3, FS_Surjection
  <1>5. IsFiniteSet(UNION family)
    <2>1. \A T \in family : IsFiniteSet(T)
      BY <1>2
    <2> QED BY <1>4, <2>1, FS_UNION
  <1> QED BY <1>5, FS_CardinalityType DEF Proceeds

LEMMA RentIsNat ==
    ASSUME NEW q \in Props, NEW total \in Nat, owner[q] \in Players,
           houses \in [Props -> 0 .. Hotel],
           \A p \in Players : held[p] = {r \in Props : owner[r] = p}
    PROVE  RentDue(q, total) \in Nat
  <1> DEFINE kin == Cardinality({r \in held[owner[q]] : Group[r] = Group[q]})
  <1>1. kin \in Nat /\ kin >= 1
    <2>1. q \in {r \in held[owner[q]] : Group[r] = Group[q]}
      OBVIOUS
    <2>2. {r \in held[owner[q]] : Group[r] = Group[q]} \in SUBSET Props
      OBVIOUS
    <2>3. kin \in Nat /\ IsFiniteSet({r \in held[owner[q]] : Group[r] = Group[q]})
      BY <2>2, PropsFinite
    <2>4. kin # 0
      BY <2>1, <2>3, FS_EmptySet
    <2> QED BY <2>3, <2>4
  <1> HIDE DEF kin
  <1>2. Smaller(kin, 4) \in 1 .. 6
    BY <1>1 DEF Smaller
  <1>3. houses[q] + 1 \in 1 .. 6
    <2>1. houses[q] \in 0 .. MaxHouses + 1 /\ MaxHouses \in 1 .. 4
      BY AmountAssumption DEF AmountAssumption, Hotel
    <2> QED BY <2>1
  <1>4. \A k \in 1 .. 6 : RentTable[q][k] \in Nat
    BY AmountAssumption DEF AmountAssumption
  <1>5. /\ RentTable[q][Smaller(kin, 4)] \in Nat /\ RentTable[q][1] \in Nat
        /\ RentTable[q][2] \in Nat /\ RentTable[q][houses[q] + 1] \in Nat
    BY <1>2, <1>3, <1>4
  <1>6. RentTable[q][IF kin = 1 THEN 1 ELSE 2] * total \in Nat
    BY <1>5
  <1>7. RentTable[q][1] * (IF isMonopoly[q] THEN 2 ELSE 1) \in Nat
    BY <1>5
  <1>8. RentDue(q, total) \in {0, RentTable[q][Smaller(kin, 4)],
                               RentTable[q][IF kin = 1 THEN 1 ELSE 2] * total,
                               RentTable[q][1] * (IF isMonopoly[q] THEN 2 ELSE 1),
                               RentTable[q][houses[q] + 1]}
    BY DEF RentDue, kin
  <1> QED BY <1>5, <1>6, <1>7, <1>8
-----------------------------------------------------------------------------
(* The invariant, taken apart *)

PlayerTypes ==
    /\ position \in [Players -> Squares] /\ inJail \in [Players -> BOOLEAN]
    /\ jailTurns \in [Players -> Nat] /\ bankrupt \in [Players -> BOOLEAN]

BuildingTypes ==
    /\ houses \in [Props -> 0 .. Hotel]
    /\ housesAvailable \in Nat /\ hotelsAvailable \in Nat

EstateInv ==
    /\ held \in [Players -> SUBSET Props] /\ owner \in [Props -> Players \cup {None}]
    /\ mortgaged \in [Props -> BOOLEAN] /\ isMonopoly \in [Props -> BOOLEAN]
    /\ OwnershipAgrees
    /\ \A p \in Players : bankrupt[p] => held[p] = {}

Debt == [by : Players \cup {None}, to : Players \cup {None}, amount : Nat]
MoneyInv ==
    /\ cash \in [Players -> Nat] /\ debt \in Debt
    /\ DebtSound
    /\ \A p \in Players : bankrupt[p] => cash[p] = 0

Auction == [prop : Props \cup {None}, bidders : SUBSET Players,
            current : Players \cup {None}, high : Nat, leader : Players \cup {None}]
AuctionInv == auction \in Auction /\ AuctionSound

FlowInv ==
    /\ phase \in {"pre_roll", "post_roll", "out_of_turn", "auction"}
    /\ turn \in 1 .. N /\ round \in Nat /\ hasRolled \in BOOLEAN
    /\ outOfTurn \in SUBSET Players /\ doubles \in 0 .. 2 /\ extraRoll \in BOOLEAN
    /\ trades \in [Players -> Offer]
    /\ TableSound
    /\ \A p \in Players : bankrupt[p] =>
          /\ p \notin outOfTurn /\ trades[p] = NoOffer
          /\ \A s \in Players : trades[s].to # p

LEMMA Parts ==
    ASSUME EngineInv
    PROVE  PlayerTypes /\ BuildingTypes /\ EstateInv /\ MoneyInv /\ AuctionInv /\ FlowInv
  <1> USE DEF EngineInv, TypeOK
  <1>1. PlayerTypes /\ BuildingTypes
    BY DEF PlayerTypes, BuildingTypes
  <1>2. EstateInv /\ MoneyInv
    BY DEF EstateInv, MoneyInv, EliminatedIsOut, Debt
  <1>3. AuctionInv /\ FlowInv
    BY DEF AuctionInv, FlowInv, EliminatedIsOut, Auction
  <1> QED BY <1>1, <1>2, <1>3

\* Whose move it is: the active player's, that of the first who still answers,
\* or of the bidder asked; in every case a player who is in the game.
LEMMA ActorPlays ==
    ASSUME FlowInv, AuctionInv, bankrupt \in [Players -> BOOLEAN]
    PROVE  Actor \in Players /\ ~bankrupt[Actor] /\ Active \in Players /\ ~bankrupt[Active]
  <1>1. Active \in Players /\ ~bankrupt[Active]
    BY BoardAssumption DEF BoardAssumption, FlowInv, TableSound, Active
  <1>2. CASE phase = "out_of_turn"
    <2>1. N \in 1 .. N
      BY BoardAssumption DEF BoardAssumption
    <2>2. FirstOf(outOfTurn) \in outOfTurn
      BY <1>2, <2>1, NextSeatInSet DEF FlowInv, TableSound, FirstOf
    <2> QED BY <1>1, <1>2, <2>2 DEF FlowInv, Actor
  <1>3. CASE phase = "auction"
    <2>1. auction.current \in Alive
      BY <1>3 DEF AuctionInv, AuctionSound
    <2> QED BY <1>1, <1>3, <2>1 DEF Actor, Alive
  <1>4. CASE phase \notin {"out_of_turn", "auction"}
    BY <1>1, <1>4 DEF Actor
  <1> QED BY <1>1, <1>2, <1>3, <1>4

LEMMA Whole ==
    ASSUME PlayerTypes', BuildingTypes', EstateInv', MoneyInv', AuctionInv', FlowInv',
           CheckGameOver
    PROVE  EngineInv'
  <1>1. done' \in BOOLEAN
    BY DEF CheckGameOver
  <1>2. TypeOK'
    BY <1>1 DEF TypeOK, PlayerTypes, BuildingTypes, EstateInv, MoneyInv, AuctionInv, FlowInv,
                Auction, Debt
  <1>3. (\A p \in Players : bankrupt[p] => Actor # p)'
    <2>1. ASSUME NEW p \in Players, bankrupt'[p], Actor' = p PROVE FALSE
      <3>1. CASE phase' = "out_of_turn"
        <4>1. N \in 1 .. N
          BY BoardAssumption DEF BoardAssumption
        <4>2. NextSeat(N, outOfTurn') \in 1 .. N /\ TurnOrder[NextSeat(N, outOfTurn')] \in outOfTurn'
          BY <3>1, <4>1, NextSeatInSet DEF FlowInv, TableSound
        <4> QED BY <2>1, <3>1, <4>2 DEF FlowInv, Actor, FirstOf
      <3>2. CASE phase' = "auction"
        BY <2>1, <3>2 DEF AuctionInv, AuctionSound, Alive, Actor
      <3>3. CASE phase' \notin {"out_of_turn", "auction"}
        BY <2>1, <3>3 DEF FlowInv, TableSound, Actor
      <3> QED BY <3>1, <3>2, <3>3
    <2> QED BY <2>1
  <1>4. EliminatedIsOut'
    BY <1>3 DEF EliminatedIsOut, EstateInv, MoneyInv, FlowInv
  <1> QED BY <1>2, <1>4 DEF EngineInv, EstateInv, MoneyInv, AuctionInv, FlowInv
-----------------------------------------------------------------------------
(* What an action leaves alone stays sound *)

LEMMA FlowKept ==
    ASSUME FlowInv, UNCHANGED flow, UNCHANGED bankrupt
    PROVE  FlowInv'
  BY DEF FlowInv, TableSound, flow, Active

LEMMA EstateKept ==
    ASSUME EstateInv, UNCHANGED estate, UNCHANGED bankrupt
    PROVE  EstateInv'
  BY DEF EstateInv, OwnershipAgrees, estate

LEMMA BuildingsKept ==
    ASSUME BuildingTypes, UNCHANGED buildings
    PROVE  BuildingTypes'
  BY DEF BuildingTypes, buildings

LEMMA PlayersKept ==
    ASSUME PlayerTypes, UNCHANGED position, UNCHANGED jail, UNCHANGED bankrupt
    PROVE  PlayerTypes'
  BY DEF PlayerTypes, jail

LEMMA AuctionKept ==
    ASSUME AuctionInv, UNCHANGED auction, phase' # "auction"
    PROVE  AuctionInv'
  BY DEF AuctionInv, AuctionSound

\* Without a debt only the purses matter.
LEMMA MoneyFree ==
    ASSUME debt' = NoDebt, cash' \in [Players -> Nat],
           \A p \in Players : bankrupt'[p] => cash'[p] = 0
    PROVE  MoneyInv'
  <1>1. debt' \in Debt
    BY DEF NoDebt, Debt
  <1> QED BY <1>1 DEF MoneyInv, DebtSound

\* Only a player who has landed owes.
LEMMA OnlyTheLandedOwe ==
    ASSUME MoneyInv, NEW p \in Players,
           \/ PreRoll(p) \/ Unrolled(p) \/ Responding(p) \/ phase = "auction"
           \/ (Landed(p) /\ ~InDebt(p))
    PROVE  debt = NoDebt
  BY DEF MoneyInv, DebtSound, PreRoll, Unrolled, Responding, Landed, InDebt

\* Raised cash serves the debt first, and goes to a player in the game.
LEMMA RaiseStep ==
    ASSUME MoneyInv, PlayerTypes, NEW p \in Players, NEW amount \in Nat, ~bankrupt[p],
           PreRoll(p) \/ Landed(p), Raise(p, amount),
           UNCHANGED <<phase, hasRolled, turn, bankrupt>>
    PROVE  MoneyInv'
  <1>1. cash \in [Players -> Nat] /\ debt \in Debt /\ None \notin Players
    BY BoardAssumption DEF BoardAssumption, MoneyInv
  <1>2. CASE ~InDebt(p)
    <2>1. debt = NoDebt
      BY <1>2, OnlyTheLandedOwe
    <2>2. cash' = [cash EXCEPT ![p] = cash[p] + amount] /\ debt' = debt
      BY <1>2 DEF Raise
    <2>3. cash' \in [Players -> Nat]
      BY <1>1, <2>2
    <2>4. \A q \in Players : bankrupt[q] => cash'[q] = 0
      BY <1>1, <2>2 DEF MoneyInv
    <2> QED BY <2>1, <2>2, <2>3, <2>4, MoneyFree
  <1>3. CASE InDebt(p)
    <2> DEFINE purse == cash[p] + amount
               paid == Smaller(purse, debt.amount)
    <2>1. debt # NoDebt /\ debt.by = p
      BY <1>1, <1>3 DEF InDebt, NoDebt
    <2>2. /\ debt.to \in Players /\ ~bankrupt[debt.to] /\ debt.to # p /\ debt.amount > 0
          /\ phase = "post_roll" /\ hasRolled /\ p = Active
      BY <2>1 DEF MoneyInv, DebtSound, Alive
    <2>3. purse \in Nat /\ paid \in Nat /\ paid <= purse /\ paid <= debt.amount
          /\ (paid # debt.amount => paid = purse)
      BY <1>1 DEF Debt, Smaller
    <2> HIDE DEF purse, paid
    <2>4. /\ cash' = [cash EXCEPT ![p] = purse - paid, ![debt.to] = cash[debt.to] + paid]
          /\ debt' = IF paid = debt.amount THEN NoDebt
                     ELSE [debt EXCEPT !.amount = debt.amount - paid]
      BY <1>3, <2>2 DEF Raise, purse, paid
    <2>5. purse - paid \in Nat /\ cash[debt.to] + paid \in Nat
      BY <1>1, <2>2, <2>3
    <2>6. cash' \in [Players -> Nat]
      BY <1>1, <2>4, <2>5
    <2>7. \A q \in Players : bankrupt'[q] => cash'[q] = 0
      BY <1>1, <2>2, <2>4 DEF MoneyInv
    <2>8. CASE paid = debt.amount
      BY <2>4, <2>6, <2>7, <2>8, MoneyFree
    <2>9. CASE paid # debt.amount
      <3>1. /\ debt' \in Debt /\ debt'.by = p /\ debt'.to = debt.to /\ debt'.amount > 0
        BY <1>1, <2>1, <2>3, <2>4, <2>9 DEF Debt
      <3>2. cash'[p] = 0
        BY <1>1, <2>2, <2>3, <2>4, <2>9
      <3>3. DebtSound'
        BY <2>2, <3>1, <3>2 DEF DebtSound, Alive, Active
      <3> QED BY <2>6, <2>7, <3>1, <3>3 DEF MoneyInv
    <2> QED BY <2>8, <2>9
  <1> QED BY <1>2, <1>3

\* Who pays has the money.
LEMMA PayStep ==
    ASSUME MoneyInv, NEW p \in Players, NEW amount \in Nat, amount <= cash[p],
           debt = NoDebt, UNCHANGED <<debt, bankrupt>>,
           cash' = [cash EXCEPT ![p] = @ - amount]
    PROVE  MoneyInv'
  <1>1. cash \in [Players -> Nat] /\ cash[p] - amount \in Nat
    BY DEF MoneyInv
  <1>2. cash' \in [Players -> Nat]
    BY <1>1
  <1>3. \A q \in Players : bankrupt'[q] => cash'[q] = 0
    BY <1>1 DEF MoneyInv
  <1> QED BY <1>2, <1>3, MoneyFree
-----------------------------------------------------------------------------
(* Property that changes hands *)

LEMMA MonopolyType ==
    ASSUME NEW own
    PROVE  Monopolies(own) \in [Props -> BOOLEAN]
  BY DEF Monopolies

LEMMA AcquireStep ==
    ASSUME EstateInv, NEW p \in Players, ~bankrupt[p], NEW q \in Props, owner[q] = None,
           Acquire(p, q), UNCHANGED <<mortgaged, bankrupt>>
    PROVE  EstateInv'
  <1>1. None \notin Players
    BY BoardAssumption DEF BoardAssumption
  <1>2. /\ held \in [Players -> SUBSET Props] /\ owner \in [Props -> Players \cup {None}]
        /\ \A o \in Players : held[o] = {r \in Props : owner[r] = o}
    BY DEF EstateInv, OwnershipAgrees
  <1>3. /\ owner' = [owner EXCEPT ![q] = p] /\ held' = [held EXCEPT ![p] = held[p] \cup {q}]
        /\ isMonopoly' = Monopolies(owner')
    BY DEF Acquire
  <1>4. held' \in [Players -> SUBSET Props] /\ owner' \in [Props -> Players \cup {None}]
    BY <1>2, <1>3
  <1>5. ASSUME NEW o \in Players PROVE held'[o] = {r \in Props : owner'[r] = o}
    <2>1. CASE o = p
      BY <1>2, <1>3, <2>1
    <2>2. CASE o # p
      BY <1>1, <1>2, <1>3, <2>2
    <2> QED BY <2>1, <2>2
  <1>6. \A o \in Players : bankrupt'[o] => held'[o] = {}
    BY <1>2, <1>3 DEF EstateInv
  <1>7. OwnershipAgrees'
    BY <1>3, <1>5 DEF OwnershipAgrees
  <1>8. isMonopoly' \in [Props -> BOOLEAN]
    BY <1>3, MonopolyType
  <1> QED BY <1>4, <1>6, <1>7, <1>8 DEF EstateInv

LEMMA SellStep ==
    ASSUME EstateInv, NEW p \in Players, NEW q \in Props, owner[q] = p,
           owner' = [owner EXCEPT ![q] = None], held' = [held EXCEPT ![p] = @ \ {q}],
           isMonopoly' = Monopolies(owner'), UNCHANGED <<mortgaged, bankrupt>>
    PROVE  EstateInv'
  <1>1. None \notin Players
    BY BoardAssumption DEF BoardAssumption
  <1>2. /\ held \in [Players -> SUBSET Props] /\ owner \in [Props -> Players \cup {None}]
        /\ \A o \in Players : held[o] = {r \in Props : owner[r] = o}
    BY DEF EstateInv, OwnershipAgrees
  <1>3. held' \in [Players -> SUBSET Props] /\ owner' \in [Props -> Players \cup {None}]
    BY <1>2
  <1>4. ASSUME NEW o \in Players PROVE held'[o] = {r \in Props : owner'[r] = o}
    <2>1. CASE o = p
      BY <1>1, <1>2, <2>1
    <2>2. CASE o # p
      BY <1>1, <1>2, <2>2
    <2> QED BY <2>1, <2>2
  <1>5. \A o \in Players : bankrupt'[o] => held'[o] = {}
    BY <1>2 DEF EstateInv
  <1>6. OwnershipAgrees'
    BY <1>4 DEF OwnershipAgrees
  <1>7. isMonopoly' \in [Props -> BOOLEAN]
    BY MonopolyType
  <1> QED BY <1>3, <1>5, <1>6, <1>7 DEF EstateInv

LEMMA MortgageKept ==
    ASSUME EstateInv, NEW q \in Props, NEW b \in BOOLEAN,
           mortgaged' = [mortgaged EXCEPT ![q] = b],
           UNCHANGED <<owner, held, isMonopoly, bankrupt>>
    PROVE  EstateInv'
  <1>1. mortgaged' \in [Props -> BOOLEAN]
    BY DEF EstateInv
  <1> QED BY <1>1 DEF EstateInv, OwnershipAgrees
-----------------------------------------------------------------------------
(* Money, mortgages and buildings: the active player's own turn *)

LEMMA AtTable ==
    ASSUME EngineInv, NEW p \in Players, PreRoll(p) \/ Landed(p) \/ Unrolled(p)
    PROVE  phase # "auction" /\ p = Active /\ ~bankrupt[p]
  BY Parts, ActorPlays DEF PlayerTypes, PreRoll, Landed, Unrolled

LEMMA AmountsAreNat ==
    ASSUME NEW q \in Props
    PROVE  /\ Price[q] \in Nat /\ MortgageValue[q] \in Nat /\ HousePrice[q] \in Nat
           /\ HalfPrice(q) \in Nat /\ RedemptionCost(q) \in Nat
           /\ Bail \in Nat /\ GoSalary \in Nat /\ MaxHouses \in 1 .. 4
  BY AmountAssumption DEF AmountAssumption, HalfPrice, RedemptionCost

LEMMA PayBailStep ==
    ASSUME EngineInv, CheckGameOver, NEW p \in Players, PayBail(p)
    PROVE  EngineInv'
  <1> USE DEF PayBail
  <1>1. phase # "auction" /\ debt = NoDebt /\ Bail \in Nat
    BY AtTable, Parts, OnlyTheLandedOwe, AmountAssumption DEF AmountAssumption
  <1>2. MoneyInv'
    BY <1>1, Parts, PayStep
  <1>3. FlowInv' /\ EstateInv' /\ BuildingTypes'
    BY Parts, FlowKept, EstateKept, BuildingsKept
  <1>4. AuctionInv'
    BY <1>1, Parts, AuctionKept DEF flow
  <1>5. PlayerTypes'
    BY Parts DEF PlayerTypes
  <1> QED BY <1>2, <1>3, <1>4, <1>5, Whole

LEMMA BuyPropertyStep ==
    ASSUME EngineInv, CheckGameOver, NEW p \in Players, BuyProperty(p)
    PROVE  EngineInv'
  <1> USE DEF BuyProperty
  <1> DEFINE q == position[p]
  <1>1. phase # "auction" /\ ~bankrupt[p] /\ debt = NoDebt /\ q \in Props /\ owner[q] = None
        /\ Price[q] \in Nat
    BY AtTable, Parts, OnlyTheLandedOwe, AmountsAreNat DEF OnUnowned
  <1>2. MoneyInv'
    <2>1. Price[q] <= cash[p]
      BY <1>1, Parts DEF MoneyInv
    <2> QED BY <1>1, <2>1, Parts, PayStep
  <1>3. EstateInv'
    BY <1>1, Parts, AcquireStep
  <1>4. FlowInv' /\ BuildingTypes' /\ PlayerTypes'
    BY Parts, FlowKept, BuildingsKept, PlayersKept
  <1>5. AuctionInv'
    BY <1>1, Parts, AuctionKept DEF flow
  <1> QED BY <1>2, <1>3, <1>4, <1>5, Whole

LEMMA MortgageStep ==
    ASSUME EngineInv, CheckGameOver, NEW p \in Players, Mortgage(p)
    PROVE  EngineInv'
  <1>1. PICK q \in Unimproved(p) :
            /\ PreRoll(p) \/ Landed(p)
            /\ mortgaged' = [mortgaged EXCEPT ![q] = TRUE]
            /\ Raise(p, MortgageValue[q])
            /\ UNCHANGED <<owner, held, isMonopoly, position, jail, bankrupt, buildings, flow,
                           auction>>
    BY DEF Mortgage
  <1>2. phase # "auction" /\ ~bankrupt[p] /\ q \in Props /\ MortgageValue[q] \in Nat
    BY <1>1, AtTable, AmountsAreNat DEF Unimproved
  <1>3. MoneyInv'
    BY <1>1, <1>2, Parts, RaiseStep DEF flow
  <1>4. EstateInv'
    BY <1>1, <1>2, Parts, MortgageKept
  <1>5. FlowInv' /\ BuildingTypes' /\ PlayerTypes'
    BY <1>1, Parts, FlowKept, BuildingsKept, PlayersKept
  <1>6. AuctionInv'
    BY <1>1, <1>2, Parts, AuctionKept DEF flow
  <1> QED BY <1>3, <1>4, <1>5, <1>6, Whole

LEMMA UnmortgageStep ==
    ASSUME EngineInv, CheckGameOver, NEW p \in Players, Unmortgage(p)
    PROVE  EngineInv'
  <1>1. PICK q \in Redeemable(p) :
            /\ PreRoll(p)
            /\ mortgaged' = [mortgaged EXCEPT ![q] = FALSE]
            /\ cash' = [cash EXCEPT ![p] = @ - RedemptionCost(q)]
            /\ UNCHANGED <<debt, owner, held, isMonopoly, position, jail, bankrupt, buildings,
                           flow, auction>>
    BY DEF Unmortgage
  <1>2. /\ phase # "auction" /\ debt = NoDebt /\ q \in Props
        /\ RedemptionCost(q) \in Nat /\ cash[p] >= RedemptionCost(q)
    BY <1>1, AtTable, AmountsAreNat, Parts, OnlyTheLandedOwe DEF Redeemable
  <1>3. MoneyInv'
    <2>1. RedemptionCost(q) <= cash[p]
      BY <1>2, Parts DEF MoneyInv
    <2> QED BY <1>1, <1>2, <2>1, Parts, PayStep
  <1>4. EstateInv'
    BY <1>1, <1>2, Parts, MortgageKept
  <1>5. FlowInv' /\ BuildingTypes' /\ PlayerTypes'
    BY <1>1, Parts, FlowKept, BuildingsKept, PlayersKept
  <1>6. AuctionInv'
    BY <1>1, <1>2, Parts, AuctionKept DEF flow
  <1> QED BY <1>3, <1>4, <1>5, <1>6, Whole

LEMMA SellPropertyStep ==
    ASSUME EngineInv, CheckGameOver, NEW p \in Players, SellProperty(p)
    PROVE  EngineInv'
  <1>1. PICK q \in Unimproved(p) :
            /\ PreRoll(p) \/ Landed(p)
            /\ owner' = [owner EXCEPT ![q] = None]
            /\ held' = [held EXCEPT ![p] = @ \ {q}]
            /\ isMonopoly' = Monopolies(owner')
            /\ Raise(p, MortgageValue[q])
            /\ UNCHANGED <<mortgaged, position, jail, bankrupt, buildings, flow, auction>>
    BY DEF SellProperty
  <1>2. /\ phase # "auction" /\ ~bankrupt[p] /\ q \in Props /\ owner[q] = p
        /\ MortgageValue[q] \in Nat
    BY <1>1, AtTable, AmountsAreNat DEF Unimproved
  <1>3. MoneyInv'
    BY <1>1, <1>2, Parts, RaiseStep DEF flow
  <1>4. EstateInv'
    BY <1>1, <1>2, Parts, SellStep
  <1>5. FlowInv' /\ BuildingTypes' /\ PlayerTypes'
    BY <1>1, Parts, FlowKept, BuildingsKept, PlayersKept
  <1>6. AuctionInv'
    BY <1>1, <1>2, Parts, AuctionKept DEF flow
  <1> QED BY <1>3, <1>4, <1>5, <1>6, Whole

\* The buildings of one property change; the bank's stock stays a count.
LEMMA BuildingsSet ==
    ASSUME BuildingTypes, NEW q \in Props, NEW n \in 0 .. Hotel,
           houses' = [houses EXCEPT ![q] = n],
           housesAvailable' \in Nat, hotelsAvailable' \in Nat
    PROVE  BuildingTypes'
  BY DEF BuildingTypes

LEMMA BuildHouseStep ==
    ASSUME EngineInv, CheckGameOver, NEW p \in Players, BuildHouse(p)
    PROVE  EngineInv'
  <1>1. PICK q \in HouseSites(p) :
            /\ PreRoll(p)
            /\ houses' = [houses EXCEPT ![q] = houses[q] + 1]
            /\ housesAvailable' = housesAvailable - 1
            /\ cash' = [cash EXCEPT ![p] = @ - HousePrice[q]]
            /\ UNCHANGED <<hotelsAvailable, debt, position, jail, bankrupt, estate, flow, auction>>
    BY DEF BuildHouse
  <1>2. /\ phase # "auction" /\ debt = NoDebt /\ q \in Props
        /\ HousePrice[q] \in Nat /\ cash[p] >= HousePrice[q]
    BY <1>1, AtTable, AmountsAreNat, Parts, OnlyTheLandedOwe DEF HouseSites, Improvable, RealEstate
  <1>3. MoneyInv'
    <2>1. HousePrice[q] <= cash[p]
      BY <1>2, Parts DEF MoneyInv
    <2> QED BY <1>1, <1>2, <2>1, Parts, PayStep
  <1>4. BuildingTypes'
    <2>1. houses[q] + 1 \in 0 .. Hotel /\ housesAvailable' \in Nat /\ hotelsAvailable' \in Nat
      BY <1>1, <1>2, Parts, AmountsAreNat DEF BuildingTypes, Hotel, HouseSites
    <2> QED BY <1>1, <1>2, <2>1, Parts, BuildingsSet
  <1>5. FlowInv' /\ EstateInv' /\ PlayerTypes'
    BY <1>1, Parts, FlowKept, EstateKept, PlayersKept
  <1>6. AuctionInv'
    BY <1>1, <1>2, Parts, AuctionKept DEF flow
  <1> QED BY <1>3, <1>4, <1>5, <1>6, Whole

LEMMA BuildHotelStep ==
    ASSUME EngineInv, CheckGameOver, NEW p \in Players, BuildHotel(p)
    PROVE  EngineInv'
  <1>1. PICK q \in HotelSites(p) :
            /\ PreRoll(p)
            /\ houses' = [houses EXCEPT ![q] = Hotel]
            /\ hotelsAvailable' = hotelsAvailable - 1
            /\ housesAvailable' = housesAvailable + MaxHouses
            /\ cash' = [cash EXCEPT ![p] = @ - HousePrice[q]]
            /\ UNCHANGED <<debt, position, jail, bankrupt, estate, flow, auction>>
    BY DEF BuildHotel
  <1>2. /\ phase # "auction" /\ debt = NoDebt /\ q \in Props
        /\ HousePrice[q] \in Nat /\ cash[p] >= HousePrice[q]
    BY <1>1, AtTable, AmountsAreNat, Parts, OnlyTheLandedOwe DEF HotelSites, Improvable, RealEstate
  <1>3. MoneyInv'
    <2>1. HousePrice[q] <= cash[p]
      BY <1>2, Parts DEF MoneyInv
    <2> QED BY <1>1, <1>2, <2>1, Parts, PayStep
  <1>4. BuildingTypes'
    <2>1. Hotel \in 0 .. Hotel /\ housesAvailable' \in Nat /\ hotelsAvailable' \in Nat
      BY <1>1, <1>2, Parts, AmountsAreNat DEF BuildingTypes, Hotel, HotelSites
    <2> QED BY <1>1, <1>2, <2>1, Parts, BuildingsSet
  <1>5. FlowInv' /\ EstateInv' /\ PlayerTypes'
    BY <1>1, Parts, FlowKept, EstateKept, PlayersKept
  <1>6. AuctionInv'
    BY <1>1, <1>2, Parts, AuctionKept DEF flow
  <1> QED BY <1>3, <1>4, <1>5, <1>6, Whole

LEMMA SellHouseStep ==
    ASSUME EngineInv, CheckGameOver, NEW p \in Players, SellHouse(p)
    PROVE  EngineInv'
  <1>1. PICK q \in WithHouses(p) :
            /\ PreRoll(p) \/ (Landed(p) /\ InDebt(p))
            /\ houses' = [houses EXCEPT ![q] = houses[q] - 1]
            /\ housesAvailable' = housesAvailable + 1
            /\ Raise(p, HalfPrice(q))
            /\ UNCHANGED <<hotelsAvailable, position, jail, bankrupt, estate, flow, auction>>
    BY DEF SellHouse
  <1>2. /\ phase # "auction" /\ ~bankrupt[p] /\ q \in Props /\ HalfPrice(q) \in Nat
    BY <1>1, AtTable, AmountsAreNat DEF WithHouses, RealEstate
  <1>3. MoneyInv'
    BY <1>1, <1>2, Parts, RaiseStep DEF flow
  <1>4. BuildingTypes'
    <2>1. houses[q] - 1 \in 0 .. Hotel /\ housesAvailable' \in Nat /\ hotelsAvailable' \in Nat
      BY <1>1, <1>2, Parts, AmountsAreNat DEF BuildingTypes, Hotel, WithHouses
    <2> QED BY <1>1, <1>2, <2>1, Parts, BuildingsSet
  <1>5. FlowInv' /\ EstateInv' /\ PlayerTypes'
    BY <1>1, Parts, FlowKept, EstateKept, PlayersKept
  <1>6. AuctionInv'
    BY <1>1, <1>2, Parts, AuctionKept DEF flow
  <1> QED BY <1>3, <1>4, <1>5, <1>6, Whole

LEMMA SellHotelStep ==
    ASSUME EngineInv, CheckGameOver, NEW p \in Players, SellHotel(p)
    PROVE  EngineInv'
  <1>1. PICK q \in WithHotel(p) :
            /\ PreRoll(p) \/ (Landed(p) /\ InDebt(p))
            /\ houses' = [houses EXCEPT ![q] = MaxHouses]
            /\ hotelsAvailable' = hotelsAvailable + 1
            /\ housesAvailable' = housesAvailable - MaxHouses
            /\ Raise(p, HalfPrice(q))
            /\ UNCHANGED <<position, jail, bankrupt, estate, flow, auction>>
    BY DEF SellHotel
  <1>2. /\ phase # "auction" /\ ~bankrupt[p] /\ q \in Props /\ HalfPrice(q) \in Nat
    BY <1>1, AtTable, AmountsAreNat DEF WithHotel, RealEstate
  <1>3. MoneyInv'
    BY <1>1, <1>2, Parts, RaiseStep DEF flow
  <1>4. BuildingTypes'
    <2>1. MaxHouses \in 0 .. Hotel /\ housesAvailable' \in Nat /\ hotelsAvailable' \in Nat
      BY <1>1, <1>2, Parts, AmountsAreNat DEF BuildingTypes, Hotel, WithHotel
    <2> QED BY <1>1, <1>2, <2>1, Parts, BuildingsSet
  <1>5. FlowInv' /\ EstateInv' /\ PlayerTypes'
    BY <1>1, Parts, FlowKept, EstateKept, PlayersKept
  <1>6. AuctionInv'
    BY <1>1, <1>2, Parts, AuctionKept DEF flow
  <1> QED BY <1>3, <1>4, <1>5, <1>6, Whole
-----------------------------------------------------------------------------
(* The turn goes on *)

LEMMA NextPlayerStep ==
    ASSUME FlowInv, NEW broke \in [Players -> BOOLEAN], \E p \in Players : ~broke[p],
           NextPlayer(broke), bankrupt' = broke
    PROVE  FlowInv' /\ phase' = "pre_roll"
  <1> DEFINE next == NextSeat(turn, {p \in Players : ~broke[p]})
  <1>1. next \in 1 .. N /\ TurnOrder[next] \in {p \in Players : ~broke[p]}
    BY NextSeatInSet DEF FlowInv
  <1>2. /\ turn' = next /\ round' \in {round, round + 1} /\ phase' = "pre_roll"
        /\ hasRolled' = FALSE /\ outOfTurn' = {} /\ trades' = [p \in Players |-> NoOffer]
        /\ doubles' = 0 /\ extraRoll' = FALSE
    BY DEF NextPlayer
  <1> HIDE DEF next
  <1>3. NoOffer \in Offer /\ NoOffer.to = None /\ None \notin Players
    BY BoardAssumption DEF BoardAssumption, NoOffer, Offer
  <1>4. round' \in Nat
    BY <1>2 DEF FlowInv
  <1>5. TableSound'
    BY <1>1, <1>2 DEF TableSound, Active
  <1>6. trades' \in [Players -> Offer] /\ \A p, s \in Players : trades'[p] = NoOffer /\ trades'[s].to # p
    BY <1>2, <1>3
  <1>7. 0 \in 0 .. 2
    OBVIOUS
  <1>8. doubles' \in 0 .. 2 /\ extraRoll' \in BOOLEAN /\ hasRolled' \in BOOLEAN /\ turn' \in 1 .. N
    BY <1>1, <1>2, <1>7
  <1> QED BY <1>2, <1>4, <1>5, <1>6, <1>8 DEF FlowInv

LEMMA FinishStep ==
    ASSUME FlowInv, PlayerTypes, FinishLanding, UNCHANGED bankrupt
    PROVE  FlowInv' /\ phase' # "auction"
  <1>1. Active \in Players /\ ~bankrupt[Active]
    BY BoardAssumption DEF BoardAssumption, FlowInv, TableSound, Active
  <1>2. CASE RollAgain
    <2>1. /\ extraRoll' = FALSE /\ phase' = "post_roll" /\ hasRolled' = FALSE
          /\ UNCHANGED <<turn, round, outOfTurn, doubles, trades>>
      BY <1>2 DEF RollAgain
    <2> QED BY <2>1 DEF FlowInv, TableSound, Active
  <1>3. CASE StartOutOfTurn /\ Responders = {}
    <2>1. NextPlayer(bankrupt)
      BY <1>3 DEF StartOutOfTurn
    <2> QED BY <1>1, <2>1, NextPlayerStep DEF PlayerTypes
  <1>4. CASE StartOutOfTurn /\ Responders # {}
    <2>1. /\ phase' = "out_of_turn" /\ outOfTurn' = Responders
          /\ doubles' = 0 /\ extraRoll' = FALSE
          /\ UNCHANGED <<turn, round, hasRolled, trades>>
      BY <1>4 DEF StartOutOfTurn
    <2>2. outOfTurn' \in SUBSET Players /\ \A p \in outOfTurn' : ~bankrupt[p]
      BY <2>1 DEF Responders, Alive
    <2>3. 0 \in 0 .. 2
      OBVIOUS
    <2>4. doubles' \in 0 .. 2 /\ extraRoll' \in BOOLEAN /\ hasRolled' \in BOOLEAN
      BY <2>1, <2>3 DEF FlowInv
    <2>5. TableSound'
      BY <1>4, <2>1 DEF FlowInv, TableSound, Active
    <2> QED BY <2>1, <2>2, <2>4, <2>5 DEF FlowInv
  <1> QED BY <1>2, <1>3, <1>4 DEF FinishLanding

LEMMA EndPreRollStep ==
    ASSUME EngineInv, CheckGameOver, NEW p \in Players, EndPreRoll(p)
    PROVE  EngineInv'
  <1> USE DEF EndPreRoll
  <1>1. phase' = "post_roll" /\ debt = NoDebt
    BY Parts, OnlyTheLandedOwe
  <1>2. FlowInv'
    BY <1>1, Parts DEF FlowInv, TableSound, Active
  <1>3. MoneyInv'
    BY <1>1, Parts, MoneyFree DEF MoneyInv, money
  <1>4. EstateInv' /\ BuildingTypes' /\ PlayerTypes' /\ AuctionInv'
    BY <1>1, Parts, EstateKept, BuildingsKept, PlayersKept, AuctionKept
  <1> QED BY <1>2, <1>3, <1>4, Whole

LEMMA EndPostRollStep ==
    ASSUME EngineInv, CheckGameOver, NEW p \in Players, EndPostRoll(p)
    PROVE  EngineInv'
  <1> USE DEF EndPostRoll
  <1>1. debt = NoDebt
    BY Parts, OnlyTheLandedOwe
  <1>2. FlowInv' /\ phase' # "auction"
    BY Parts, FinishStep
  <1>3. MoneyInv'
    BY <1>1, Parts, MoneyFree DEF MoneyInv, money
  <1>4. EstateInv' /\ BuildingTypes' /\ PlayerTypes' /\ AuctionInv'
    BY <1>2, Parts, EstateKept, BuildingsKept, PlayersKept, AuctionKept
  <1> QED BY <1>2, <1>3, <1>4, Whole

LEMMA EndOutOfTurnStep ==
    ASSUME EngineInv, CheckGameOver, NEW p \in Players, EndOutOfTurn(p)
    PROVE  EngineInv'
  <1> USE DEF EndOutOfTurn
  <1>1. debt = NoDebt /\ phase = "out_of_turn" /\ p = FirstOf(outOfTurn)
    BY Parts, OnlyTheLandedOwe DEF Responding
  <1>2. FlowInv' /\ phase' # "auction"
    <2>1. CASE outOfTurn = {p}
      <3>1. NextPlayer(bankrupt) /\ UNCHANGED bankrupt
        BY <2>1
      <3>2. \E s \in Players : ~bankrupt[s]
        BY Parts, ActorPlays DEF PlayerTypes
      <3> QED BY <3>1, <3>2, Parts, NextPlayerStep DEF PlayerTypes
    <2>2. CASE outOfTurn # {p}
      <3>1. /\ outOfTurn' = outOfTurn \ {p}
            /\ UNCHANGED <<phase, turn, round, hasRolled, doubles, extraRoll, trades, bankrupt>>
        BY <2>2
      <3>2. outOfTurn' # {}
        BY <1>1, <2>2, <3>1, Parts DEF FlowInv, TableSound
      <3> QED BY <1>1, <3>1, <3>2, Parts DEF FlowInv, TableSound, Active
    <2> QED BY <2>1, <2>2
  <1>3. MoneyInv'
    BY <1>1, Parts, MoneyFree DEF MoneyInv, money
  <1>4. EstateInv' /\ BuildingTypes' /\ PlayerTypes' /\ AuctionInv'
    BY <1>2, Parts, EstateKept, BuildingsKept, PlayersKept, AuctionKept
  <1> QED BY <1>2, <1>3, <1>4, Whole

LEMMA EndOnUnownedStep ==
    ASSUME EngineInv, CheckGameOver, NEW p \in Players, EndOnUnowned(p)
    PROVE  EngineInv'
  <1> USE DEF EndOnUnowned
  <1>1. debt = NoDebt /\ p = Active /\ ~bankrupt[p]
    BY Parts, OnlyTheLandedOwe, AtTable
  <1>2. FlowInv'
    BY Parts DEF FlowInv, TableSound, Active
  <1>3. MoneyInv'
    BY <1>1, Parts, MoneyFree DEF MoneyInv, money
  <1>4. AuctionInv'
    <2>1. position[p] \in Props /\ owner[position[p]] = None
      BY DEF OnUnowned
    <2>2. /\ auction'.prop = position[p] /\ auction'.bidders = Alive /\ auction'.current = p
          /\ auction'.leader = None /\ auction' \in Auction
      BY <2>1 DEF Auction, NoAuction, Alive
    <2>3. p \in Alive /\ p # None /\ Alive' = Alive /\ owner' = owner
      BY <1>1, BoardAssumption DEF BoardAssumption, Alive, estate
    <2> QED BY <2>1, <2>2, <2>3 DEF AuctionInv, AuctionSound
  <1>5. EstateInv' /\ BuildingTypes' /\ PlayerTypes'
    BY Parts, EstateKept, BuildingsKept, PlayersKept
  <1> QED BY <1>2, <1>3, <1>4, <1>5, Whole
-----------------------------------------------------------------------------
(* Rolling and landing *)

LEMMA StayInJailStep ==
    ASSUME EngineInv, CheckGameOver, NEW p \in Players, StayInJail(p)
    PROVE  EngineInv'
  <1> USE DEF StayInJail
  <1>1. debt = NoDebt /\ phase # "auction"
    BY Parts, OnlyTheLandedOwe, AtTable
  <1>2. FlowInv'
    BY Parts DEF FlowInv, TableSound, Active
  <1>3. PlayerTypes'
    <2>1. jailTurns' \in [Players -> Nat]
      BY Parts DEF PlayerTypes
    <2> QED BY <2>1, Parts DEF PlayerTypes
  <1>4. MoneyInv'
    BY <1>1, Parts, MoneyFree DEF MoneyInv, money
  <1>5. EstateInv' /\ BuildingTypes' /\ AuctionInv'
    BY <1>1, Parts, EstateKept, BuildingsKept, AuctionKept
  <1> QED BY <1>2, <1>3, <1>4, <1>5, Whole

\* Wherever a roll leads, the player stands on a square.
LEMMA GoToStep ==
    ASSUME PlayerTypes, NEW p \in Players, NEW square \in Squares, NEW locked \in BOOLEAN,
           GoTo(p, square, locked), UNCHANGED bankrupt
    PROVE  PlayerTypes'
  BY DEF PlayerTypes, GoTo

LEMMA ThirdDoubleStep ==
    ASSUME EngineInv, CheckGameOver, NEW p \in Players, ThirdDouble(p)
    PROVE  EngineInv'
  <1> USE DEF ThirdDouble
  <1>1. debt = NoDebt /\ phase # "auction"
    BY Parts, OnlyTheLandedOwe, AtTable
  <1>2. FlowInv'
    <2>1. 0 \in 0 .. 2
      OBVIOUS
    <2>2. doubles' \in 0 .. 2 /\ extraRoll' \in BOOLEAN /\ hasRolled' \in BOOLEAN
      BY <2>1
    <2> QED BY <2>2, Parts DEF FlowInv, TableSound, Active
  <1>3. PlayerTypes'
    BY Parts, GoToStep, BoardAssumption DEF BoardAssumption
  <1>4. MoneyInv'
    BY <1>1, Parts, MoneyFree DEF MoneyInv, money
  <1>5. EstateInv' /\ BuildingTypes' /\ AuctionInv'
    BY <1>1, Parts, EstateKept, BuildingsKept, AuctionKept
  <1> QED BY <1>2, <1>3, <1>4, <1>5, Whole

\* The purse after the landing, where nobody else is paid.
LEMMA PurseStep ==
    ASSUME MoneyInv, NEW p \in Players, ~bankrupt[p], NEW amount \in Nat, debt = NoDebt,
           cash' = [cash EXCEPT ![p] = amount], UNCHANGED <<debt, bankrupt>>
    PROVE  MoneyInv'
  <1>1. cash' \in [Players -> Nat] /\ \A q \in Players : bankrupt'[q] => cash'[q] = 0
    BY DEF MoneyInv
  <1> QED BY <1>1, MoneyFree

\* Rent goes to a player in the game; what the cash does not cover is owed.
LEMMA RentStep ==
    ASSUME MoneyInv, EstateInv, BuildingTypes, NEW p \in Players, ~bankrupt[p], p = Active,
           phase = "post_roll", debt = NoDebt, NEW square, NEW purse \in Nat,
           NEW total \in Nat, LandOnRent(p, square, purse, total),
           hasRolled' = TRUE, UNCHANGED <<phase, turn, bankrupt>>
    PROVE  MoneyInv'
  <1> DEFINE rent == RentDue(square, total)
             paid == Smaller(rent, purse)
             o == owner[square]
  <1>1. square \in Props /\ o \in Players \ {p} /\ None \notin Players
    BY BoardAssumption DEF BoardAssumption, LandOnRent, EstateInv
  <1>2. rent \in Nat
    BY <1>1, RentIsNat DEF EstateInv, OwnershipAgrees, BuildingTypes
  <1>3. ~bankrupt[o]
    <2>1. square \in held[o]
      BY <1>1 DEF EstateInv, OwnershipAgrees
    <2> QED BY <1>1, <2>1 DEF EstateInv
  <1>4. /\ cash' = [cash EXCEPT ![p] = purse - paid, ![o] = cash[o] + paid]
        /\ debt' = IF rent = paid THEN debt ELSE [by |-> p, to |-> o, amount |-> rent - paid]
    BY <1>1 DEF LandOnRent
  <1> HIDE DEF rent, o
  <1>5. /\ paid \in Nat /\ purse - paid \in Nat /\ cash[o] + paid \in Nat
        /\ rent # paid => purse - paid = 0 /\ rent - paid \in Nat \ {0}
    BY <1>1, <1>2 DEF Smaller, MoneyInv
  <1> HIDE DEF paid
  <1>6. cash' \in [Players -> Nat]
    BY <1>1, <1>4, <1>5 DEF MoneyInv
  <1>7. \A q \in Players : bankrupt'[q] => cash'[q] = 0
    BY <1>1, <1>3, <1>4 DEF MoneyInv
  <1>8. CASE rent = paid
    BY <1>4, <1>6, <1>7, <1>8, MoneyFree
  <1>9. CASE rent # paid
    <2>1. debt' = [by |-> p, to |-> o, amount |-> rent - paid]
      BY <1>4, <1>9
    <2>2. debt' \in Debt /\ debt'.by = p /\ debt'.to = o /\ debt'.amount > 0
      BY <1>1, <1>5, <1>9, <2>1 DEF Debt
    <2>3. cash'[p] = 0
      BY <1>1, <1>4, <1>5, <1>9 DEF MoneyInv
    <2>4. DebtSound'
      BY <1>1, <1>3, <2>2, <2>3 DEF DebtSound, Alive, Active
    <2> QED BY <1>6, <1>7, <2>2, <2>4 DEF MoneyInv
  <1> QED BY <1>8, <1>9

LEMMA MoveStep ==
    ASSUME EngineInv, CheckGameOver, NEW p \in Players, NEW d1 \in Dice, NEW d2 \in Dice,
           Move(p, d1, d2)
    PROVE  EngineInv'
  <1> DEFINE double == d1 = d2 /\ ~inJail[p]
             fee == IF inJail[p] /\ d1 # d2 THEN Smaller(Bail, cash[p]) ELSE 0
             square == (position[p] + d1 + d2) % NumSquares
             salary == IF square < position[p] THEN GoSalary ELSE 0
             purse == cash[p] - fee + salary
  <1>1. /\ Unrolled(p) /\ hasRolled' = TRUE
        /\ IF inJail[p] THEN d1 = d2 \/ jailTurns[p] + 1 >= MaxJailTurns
           ELSE d1 = d2 => doubles + 1 < 3
        /\ \/ LandInJail(p, square, purse)
           \/ /\ doubles' = IF double THEN doubles + 1 ELSE 0
              /\ extraRoll' = double
              /\ \/ LandOnTax(p, square, purse)
                 \/ LandOnRent(p, square, purse, d1 + d2)
                 \/ LandFree(p, square, purse)
        /\ UNCHANGED <<phase, turn, round, outOfTurn, trades>>
        /\ UNCHANGED <<bankrupt, estate, buildings, auction>>
    BY DEF Move
  <1>2. debt = NoDebt /\ phase = "post_roll" /\ p = Active /\ ~bankrupt[p]
    BY <1>1, Parts, OnlyTheLandedOwe, AtTable DEF Unrolled
  <1>3. /\ d1 \in Nat /\ d2 \in Nat /\ d1 + d2 \in Nat /\ cash[p] \in Nat
        /\ GoSalary \in Nat /\ Bail \in Nat /\ position[p] \in Nat
    BY AmountAssumption, Parts DEF AmountAssumption, MoneyInv, PlayerTypes, Squares
  <1>4. square \in Squares
    <2>1. NumSquares \in Nat /\ NumSquares > 0 /\ position[p] + d1 + d2 \in Nat
      BY <1>3, BoardAssumption DEF BoardAssumption
    <2> QED BY <2>1 DEF Squares
  <1>5. purse \in Nat
    <2>1. fee \in Nat /\ fee <= cash[p]
      BY <1>3 DEF Smaller
    <2>2. salary \in Nat
      BY <1>3
    <2> QED BY <1>3, <2>1, <2>2
  <1>6. FlowInv'
    <2>1. doubles' \in 0 .. 2
      <3>1. doubles \in 0 .. 2
        BY Parts DEF FlowInv
      <3>2. doubles' = 0 \/ (doubles' = doubles + 1 /\ doubles + 1 < 3)
        BY <1>1 DEF LandInJail
      <3> QED BY <3>1, <3>2
    <2>2. extraRoll' \in BOOLEAN
      BY <1>1 DEF LandInJail
    <2> QED BY <1>1, <2>1, <2>2, Parts DEF FlowInv, TableSound, Active
  <1> HIDE DEF double, fee, square, salary, purse
  <1>7. PlayerTypes'
    <2>1. GoTo(p, JailSquare, TRUE) \/ GoTo(p, square, FALSE)
      BY <1>1 DEF LandInJail, LandOnTax, LandOnRent, LandFree
    <2>2. JailSquare \in Squares
      BY BoardAssumption DEF BoardAssumption
    <2> QED BY <1>1, <1>4, <2>1, <2>2, Parts, GoToStep
  <1>8. MoneyInv'
    <2>1. CASE LandInJail(p, square, purse) \/ LandFree(p, square, purse)
      BY <1>1, <1>2, <1>5, <2>1, Parts, PurseStep DEF LandInJail, LandFree
    <2>2. CASE LandOnTax(p, square, purse)
      <3>1. Tax[square] \in Nat
        BY <2>2, BoardAssumption DEF BoardAssumption, LandOnTax
      <3>2. purse - Smaller(Tax[square], purse) \in Nat
        BY <1>5, <3>1 DEF Smaller
      <3> QED BY <1>1, <1>2, <2>2, <3>2, Parts, PurseStep DEF LandOnTax
    <2>3. CASE LandOnRent(p, square, purse, d1 + d2)
      BY <1>1, <1>2, <1>3, <1>5, <2>3, Parts, RentStep
    <2> QED BY <1>1, <2>1, <2>2, <2>3
  <1>9. EstateInv' /\ BuildingTypes' /\ AuctionInv'
    BY <1>1, <1>2, Parts, EstateKept, BuildingsKept, AuctionKept
  <1> QED BY <1>6, <1>7, <1>8, <1>9, Whole
-----------------------------------------------------------------------------
(* Auctions *)

\* A bidder's move leaves bidders in the game and a leader who can pay.
LEMMA BidStep ==
    ASSUME EngineInv, NEW p \in Players, phase = "auction", p = auction.current,
           NEW now \in {PassBid(p)} \cup
                       {RaiseBid(p, inc) : inc \in {i \in BidIncrements :
                                                        auction.high + i <= cash[p]}}
    PROVE  /\ now \in Auction /\ now.prop = auction.prop /\ now.bidders \subseteq Alive
           /\ now.leader # None =>
                 now.leader \in now.bidders /\ now.high <= cash[now.leader]
  <1>1. /\ auction \in Auction /\ auction.bidders \subseteq Alive
        /\ p \in auction.bidders /\ p # auction.leader
        /\ auction.leader # None =>
              auction.leader \in auction.bidders /\ auction.high <= cash[auction.leader]
    BY Parts DEF AuctionInv, AuctionSound
  <1>2. CASE now = PassBid(p)
    <2>1. now = [auction EXCEPT !.bidders = auction.bidders \ {p}]
      BY <1>2 DEF PassBid
    <2>2. /\ now \in Auction /\ now.prop = auction.prop /\ now.leader = auction.leader
          /\ now.high = auction.high /\ now.bidders = auction.bidders \ {p}
      BY <1>1, <2>1 DEF Auction
    <2> QED BY <1>1, <2>2
  <1>3. ASSUME NEW inc \in BidIncrements, auction.high + inc <= cash[p], now = RaiseBid(p, inc)
        PROVE  /\ now \in Auction /\ now.prop = auction.prop /\ now.bidders \subseteq Alive
               /\ now.leader \in now.bidders /\ now.high <= cash[now.leader]
    <2>1. now = [auction EXCEPT !.high = auction.high + inc, !.leader = p]
      BY <1>3 DEF RaiseBid
    <2>2. auction.high + inc \in Nat
      BY <1>1, AmountAssumption DEF AmountAssumption, Auction
    <2>3. /\ now.prop = auction.prop /\ now.leader = p
          /\ now.high = auction.high + inc /\ now.bidders = auction.bidders
      BY <1>1, <2>1 DEF Auction
    <2>4. now \in Auction
      BY <1>1, <2>1, <2>2 DEF Auction
    <2> QED BY <1>1, <1>3, <2>3, <2>4
  <1> QED BY <1>2, <1>3

LEMMA AuctionGoesOnStep ==
    ASSUME EngineInv, NEW p \in Players, phase = "auction",
           NEW now \in Auction, now.prop = auction.prop, now.bidders \subseteq Alive,
           now.leader # None => now.leader \in now.bidders /\ now.high <= cash[now.leader],
           AuctionGoesOn(p, now), UNCHANGED bankrupt
    PROVE  AuctionInv'
  <1> DEFINE eligible == now.bidders \ {now.leader}
             asked == TurnOrder[NextSeat(Seat(p), eligible)]
  <1>1. /\ eligible # {} /\ auction' = [now EXCEPT !.current = asked]
        /\ UNCHANGED <<cash, owner, flow>>
    BY DEF AuctionGoesOn
  <1>2. eligible \in SUBSET Players
    BY DEF Alive
  <1>3. asked \in eligible
    BY <1>1, <1>2, SeatIsSeat, NextSeatInSet
  <1> HIDE DEF asked
  <1>4. /\ auction' \in Auction /\ auction'.prop = auction.prop /\ auction'.bidders = now.bidders
        /\ auction'.current = asked /\ auction'.leader = now.leader /\ auction'.high = now.high
    BY <1>1, <1>2, <1>3 DEF Auction
  <1>5. auction.prop \in Props /\ owner[auction.prop] = None
    BY Parts DEF AuctionInv, AuctionSound
  <1> QED BY <1>1, <1>3, <1>4, <1>5 DEF AuctionInv, AuctionSound, Alive

LEMMA FinishAuctionStep ==
    ASSUME EngineInv, phase = "auction",
           NEW now \in Auction, now.prop = auction.prop, now.bidders \subseteq Alive,
           now.leader # None => now.leader \in now.bidders /\ now.high <= cash[now.leader],
           FinishAuction(now), UNCHANGED <<debt, bankrupt, mortgaged>>
    PROVE  EstateInv' /\ MoneyInv' /\ AuctionInv' /\ FlowInv'
  <1>1. FlowInv' /\ phase' # "auction"
    BY Parts, FinishStep DEF FinishAuction
  <1>2. AuctionInv'
    <2>1. NoAuction \in Auction
      BY DEF NoAuction, Auction
    <2> QED BY <1>1, <2>1 DEF AuctionInv, AuctionSound, FinishAuction
  <1>3. debt = NoDebt
    BY Parts DEF MoneyInv, DebtSound
  <1>4. CASE now.leader = None
    <2>1. UNCHANGED <<cash, owner, held, isMonopoly>>
      BY <1>4 DEF FinishAuction
    <2> QED BY <1>1, <1>2, <1>3, <2>1, Parts, EstateKept, MoneyFree DEF estate, MoneyInv
  <1>5. CASE now.leader # None
    <2> DEFINE w == now.leader
    <2>1. /\ Acquire(w, now.prop) /\ cash' = [cash EXCEPT ![w] = @ - now.high]
          /\ w \in Players /\ ~bankrupt[w] /\ now.high \in Nat /\ now.high <= cash[w]
      BY <1>5 DEF FinishAuction, Alive, Auction
    <2>2. auction.prop \in Props /\ owner[auction.prop] = None
      BY Parts DEF AuctionInv, AuctionSound
    <2>3. EstateInv'
      BY <2>1, <2>2, Parts, AcquireStep
    <2>4. MoneyInv'
      BY <1>3, <2>1, Parts, PayStep
    <2> QED BY <1>1, <1>2, <2>3, <2>4
  <1> QED BY <1>4, <1>5

LEMMA AuctionMoveStep ==
    ASSUME EngineInv, CheckGameOver, NEW p \in Players, AuctionMove(p)
    PROVE  EngineInv'
  <1>1. /\ phase = "auction" /\ p = auction.current
        /\ UNCHANGED <<debt, position, jail, bankrupt, mortgaged, buildings>>
    BY DEF AuctionMove
  <1>2. PICK now \in {PassBid(p)} \cup
                     {RaiseBid(p, inc) : inc \in {i \in BidIncrements :
                                                      auction.high + i <= cash[p]}} :
            AuctionGoesOn(p, now) \/ FinishAuction(now)
    BY DEF AuctionMove
  <1>3. /\ now \in Auction /\ now.prop = auction.prop /\ now.bidders \subseteq Alive
        /\ now.leader # None => now.leader \in now.bidders /\ now.high <= cash[now.leader]
    BY <1>1, <1>2, BidStep
  <1>4. debt = NoDebt
    BY <1>1, Parts DEF MoneyInv, DebtSound
  <1>5. EstateInv' /\ MoneyInv' /\ AuctionInv' /\ FlowInv'
    <2>1. CASE AuctionGoesOn(p, now)
      <3>1. AuctionInv'
        BY <1>1, <1>3, <2>1, AuctionGoesOnStep
      <3>2. UNCHANGED <<cash, owner, held, isMonopoly, flow>>
        BY <2>1 DEF AuctionGoesOn
      <3>3. FlowInv' /\ EstateInv'
        BY <1>1, <3>2, Parts, FlowKept, EstateKept DEF estate
      <3>4. MoneyInv'
        BY <1>1, <1>4, <3>2, Parts, MoneyFree DEF MoneyInv
      <3> QED BY <3>1, <3>3, <3>4
    <2>2. CASE FinishAuction(now)
      BY <1>1, <1>3, <2>2, FinishAuctionStep
    <2> QED BY <1>2, <2>1, <2>2
  <1>6. PlayerTypes' /\ BuildingTypes'
    BY <1>1, Parts, PlayersKept, BuildingsKept
  <1> QED BY <1>5, <1>6, Whole
-----------------------------------------------------------------------------
(* Trades *)

LEMMA TradeCashIsNat ==
    ASSUME NEW q \in Props, NEW k \in TradeQuarters
    PROVE  TradeCash(q, k) \in Nat
  <1>1. Price[q] \in Nat /\ k \in Nat
    BY AmountAssumption DEF AmountAssumption
  <1>2. Price[q] * k \in Nat
    BY <1>1
  <1> QED BY <1>2 DEF TradeCash

LEMMA OfferType ==
    ASSUME NEW p \in Players, NEW t \in Players,
           NEW o \in BuyOffers(p, t) \cup SellOffers(p, t) \cup ExchangeOffers(p, t)
    PROVE  o \in Offer /\ o.to = t
  <1>1. NoOffer \in Offer
    BY DEF NoOffer, Offer
  <1>2. CASE o \in BuyOffers(p, t)
    <2>1. PICK q \in Tradable(t), k \in TradeQuarters :
              o = BuyOffer(t, q, k)
      BY <1>2 DEF BuyOffers
    <2>2. q \in Props /\ TradeCash(q, k) \in Nat
      BY TradeCashIsNat DEF Tradable
    <2> QED BY <2>1, <2>2 DEF BuyOffer, Offer, NoOffer
  <1>3. CASE o \in SellOffers(p, t)
    <2>1. PICK q \in Tradable(p), k \in TradeQuarters :
              o = SellOffer(t, q, k)
      BY <1>3 DEF SellOffers
    <2>2. q \in Props /\ TradeCash(q, k) \in Nat
      BY TradeCashIsNat DEF Tradable
    <2> QED BY <2>1, <2>2 DEF SellOffer, Offer, NoOffer
  <1>4. CASE o \in ExchangeOffers(p, t)
    <2>1. PICK g \in Tradable(p), w \in Tradable(t) :
              o = ExchangeOffer(t, g, w)
      BY <1>4 DEF ExchangeOffers
    <2>2. g \in Props /\ w \in Props
      BY DEF Tradable
    <2> QED BY <2>1, <2>2 DEF ExchangeOffer, Offer, NoOffer
  <1> QED BY <1>2, <1>3, <1>4

\* Who offers or answers is in the game and owes nothing.
LEMMA AtTrade ==
    ASSUME EngineInv, NEW p \in Players, PreRoll(p) \/ Responding(p)
    PROVE  phase # "auction" /\ ~bankrupt[p] /\ debt = NoDebt
  <1>1. debt = NoDebt
    BY Parts, OnlyTheLandedOwe
  <1>2. CASE PreRoll(p)
    BY <1>1, <1>2, AtTable DEF PreRoll
  <1>3. CASE Responding(p)
    BY <1>1, <1>3, Parts, ActorPlays DEF Responding, Actor, PlayerTypes
  <1> QED BY <1>2, <1>3

LEMMA MakeOfferStep ==
    ASSUME EngineInv, CheckGameOver, NEW p \in Players, MakeOffer(p)
    PROVE  EngineInv'
  <1>1. PICK t \in Targets(p) : \E o \in BuyOffers(p, t) \cup SellOffers(p, t) \cup ExchangeOffers(p, t) :
              trades' = [trades EXCEPT ![p] = o]
    BY DEF MakeOffer
  <1>2. PICK o \in BuyOffers(p, t) \cup SellOffers(p, t) \cup ExchangeOffers(p, t) :
              trades' = [trades EXCEPT ![p] = o]
    BY <1>1
  <1>3. /\ PreRoll(p) \/ Responding(p)
        /\ UNCHANGED <<phase, turn, round, hasRolled, outOfTurn, doubles, extraRoll>>
        /\ UNCHANGED <<money, position, jail, bankrupt, estate, buildings, auction>>
    BY DEF MakeOffer
  <1>4. phase # "auction" /\ ~bankrupt[p] /\ debt = NoDebt
    BY <1>3, AtTrade
  <1>5. t \in Players /\ ~bankrupt[t]
    BY DEF Targets, Alive
  <1>6. o \in Offer /\ o.to = t
    BY <1>5, OfferType
  <1>7. FlowInv'
    <2>1. trades' \in [Players -> Offer]
      BY <1>2, <1>6, Parts DEF FlowInv
    <2>2. \A b \in Players : bankrupt'[b] =>
              trades'[b] = NoOffer /\ \A s \in Players : trades'[s].to # b
      BY <1>2, <1>3, <1>4, <1>5, <1>6, Parts DEF FlowInv
    <2> QED BY <1>3, <2>1, <2>2, Parts DEF FlowInv, TableSound, Active
  <1>8. MoneyInv'
    BY <1>3, <1>4, Parts, MoneyFree DEF MoneyInv, money
  <1>9. EstateInv' /\ BuildingTypes' /\ PlayerTypes' /\ AuctionInv'
    BY <1>3, <1>4, Parts, EstateKept, BuildingsKept, PlayersKept, AuctionKept
  <1> QED BY <1>7, <1>8, <1>9, Whole

LEMMA AnswerStep ==
    ASSUME EngineInv, NEW p \in Players, Answering(p), NEW s, s = Incoming(p),
           trades' = [trades EXCEPT ![s] = NoOffer],
           UNCHANGED <<phase, turn, round, hasRolled, outOfTurn, doubles, extraRoll, bankrupt>>
    PROVE  /\ s \in Players \ {p} /\ trades[s].to = p /\ trades[s] \in Offer
           /\ ~bankrupt[s] /\ FlowInv'
  <1>1. Senders(p) \in SUBSET Players /\ Senders(p) # {}
    BY DEF Senders, Answering
  <1>2. s \in Senders(p)
    BY <1>1, SeatIsSeat, NextSeatInSet DEF Incoming
  <1>3. NoOffer \in Offer /\ NoOffer.to = None /\ None \notin Players
    BY BoardAssumption DEF BoardAssumption, NoOffer, Offer
  <1>4. /\ s \in Players \ {p} /\ trades[s].to = p /\ trades[s] \in Offer /\ ~bankrupt[s]
    BY <1>2, <1>3, Parts DEF Senders, FlowInv
  <1>5. FlowInv'
    <2>1. trades' \in [Players -> Offer]
      BY <1>3, Parts DEF FlowInv
    <2>2. \A b \in Players : bankrupt'[b] =>
              trades'[b] = NoOffer /\ \A o \in Players : trades'[o].to # b
      BY <1>3, <1>4, Parts DEF FlowInv
    <2> QED BY <2>1, <2>2, Parts DEF FlowInv, TableSound, Active
  <1> QED BY <1>4, <1>5

\* What is exchanged is paid for and changes hands in both books.
LEMMA ExchangeStep ==
    ASSUME EstateInv, MoneyInv, NEW s \in Players, NEW r \in Players, s # r,
           NEW o \in Offer, StillValid(s, r, o), Exchange(s, r, o), debt = NoDebt,
           UNCHANGED <<debt, mortgaged, bankrupt>>
    PROVE  EstateInv' /\ MoneyInv'
  <1>1. None \notin Players /\ None \notin Props
    BY BoardAssumption DEF BoardAssumption
  <1>2. /\ held \in [Players -> SUBSET Props] /\ owner \in [Props -> Players \cup {None}]
        /\ \A p \in Players : held[p] = {q \in Props : owner[q] = p}
    BY DEF EstateInv, OwnershipAgrees
  <1>3. /\ o.give \in Props \cup {None} /\ o.want \in Props \cup {None}
        /\ o.pay \in Nat /\ o.ask \in Nat
        /\ o.give # None => owner[o.give] = s
        /\ o.want # None => owner[o.want] = r
        /\ o.pay <= cash[s] /\ o.ask <= cash[r] /\ ~bankrupt[s] /\ ~bankrupt[r]
    BY DEF Offer, StillValid, MoneyInv
  <1>4. /\ cash' = [cash EXCEPT ![s] = cash[s] - o.pay + o.ask, ![r] = cash[r] + o.pay - o.ask]
        /\ owner' = [q \in Props |-> IF q = o.give THEN r
                                     ELSE IF q = o.want THEN s ELSE owner[q]]
        /\ held' = [held EXCEPT ![s] = (held[s] \ {o.give}) \cup ({o.want} \ {None}),
                                ![r] = (held[r] \ {o.want}) \cup ({o.give} \ {None})]
        /\ isMonopoly' = Monopolies(owner')
    BY DEF Exchange
  <1>5. held' \in [Players -> SUBSET Props] /\ owner' \in [Props -> Players \cup {None}]
    BY <1>2, <1>3, <1>4
  <1>6. ASSUME NEW p \in Players PROVE held'[p] = {q \in Props : owner'[q] = p}
    <2>1. CASE p = s
      <3>1. held'[p] = (held[s] \ {o.give}) \cup ({o.want} \ {None})
        BY <1>2, <1>4, <2>1
      <3>2. ASSUME NEW q PROVE q \in held'[p] <=> (q \in Props /\ owner'[q] = p)
        BY <1>1, <1>2, <1>3, <1>4, <2>1, <3>1
      <3> QED BY <3>2
    <2>2. CASE p = r
      <3>1. held'[p] = (held[r] \ {o.want}) \cup ({o.give} \ {None})
        BY <1>2, <1>4, <2>2
      <3>2. ASSUME NEW q PROVE q \in held'[p] <=> (q \in Props /\ owner'[q] = p)
        BY <1>1, <1>2, <1>3, <1>4, <2>2, <3>1
      <3> QED BY <3>2
    <2>3. CASE p \notin {s, r}
      <3>1. held'[p] = held[p]
        BY <1>2, <1>4, <2>3
      <3>2. ASSUME NEW q PROVE q \in held'[p] <=> (q \in Props /\ owner'[q] = p)
        BY <1>1, <1>2, <1>3, <1>4, <2>3, <3>1
      <3> QED BY <3>2
    <2> QED BY <2>1, <2>2, <2>3
  <1>7. \A p \in Players : bankrupt'[p] => held'[p] = {}
    BY <1>2, <1>3, <1>4 DEF EstateInv
  <1>8. OwnershipAgrees' /\ isMonopoly' \in [Props -> BOOLEAN]
    BY <1>4, <1>6, MonopolyType DEF OwnershipAgrees
  <1>9. EstateInv'
    BY <1>5, <1>7, <1>8 DEF EstateInv
  <1>10. cash[s] - o.pay + o.ask \in Nat /\ cash[r] + o.pay - o.ask \in Nat
    BY <1>3 DEF MoneyInv
  <1>11. cash' \in [Players -> Nat] /\ \A p \in Players : bankrupt'[p] => cash'[p] = 0
    BY <1>3, <1>4, <1>10 DEF MoneyInv
  <1> QED BY <1>9, <1>11, MoneyFree

LEMMA AcceptTradeStep ==
    ASSUME EngineInv, CheckGameOver, NEW p \in Players, AcceptTrade(p)
    PROVE  EngineInv'
  <1> DEFINE s == Incoming(p)
  <1>1. /\ Answering(p) /\ trades' = [trades EXCEPT ![s] = NoOffer]
        /\ IF StillValid(s, p, trades[s]) THEN Exchange(s, p, trades[s])
           ELSE UNCHANGED <<cash, owner, held, isMonopoly>>
        /\ UNCHANGED <<phase, turn, round, hasRolled, outOfTurn, doubles, extraRoll>>
        /\ UNCHANGED <<debt, position, jail, bankrupt, mortgaged, buildings, auction>>
    BY DEF AcceptTrade
  <1>2. phase # "auction" /\ debt = NoDebt
    BY <1>1, AtTrade DEF Answering
  <1> HIDE DEF s
  <1>3. s \in Players \ {p} /\ trades[s] \in Offer /\ FlowInv'
    BY <1>1, AnswerStep DEF s
  <1>4. EstateInv' /\ MoneyInv'
    <2>1. CASE StillValid(s, p, trades[s])
      BY <1>1, <1>2, <1>3, <2>1, Parts, ExchangeStep
    <2>2. CASE ~StillValid(s, p, trades[s])
      BY <1>1, <1>2, <2>2, Parts, EstateKept, MoneyFree DEF estate, MoneyInv
    <2> QED BY <2>1, <2>2
  <1>5. BuildingTypes' /\ PlayerTypes' /\ AuctionInv'
    BY <1>1, <1>2, Parts, BuildingsKept, PlayersKept, AuctionKept
  <1> QED BY <1>3, <1>4, <1>5, Whole

LEMMA DeclineTradeStep ==
    ASSUME EngineInv, CheckGameOver, NEW p \in Players, DeclineTrade(p)
    PROVE  EngineInv'
  <1>1. /\ Answering(p) /\ trades' = [trades EXCEPT ![Incoming(p)] = NoOffer]
        /\ UNCHANGED <<phase, turn, round, hasRolled, outOfTurn, doubles, extraRoll>>
        /\ UNCHANGED <<money, position, jail, bankrupt, estate, buildings, auction>>
    BY DEF DeclineTrade
  <1>2. phase # "auction" /\ debt = NoDebt
    BY <1>1, AtTrade DEF Answering
  <1>3. FlowInv'
    BY <1>1, AnswerStep
  <1>4. MoneyInv'
    BY <1>1, <1>2, Parts, MoneyFree DEF MoneyInv, money
  <1>5. EstateInv' /\ BuildingTypes' /\ PlayerTypes' /\ AuctionInv'
    BY <1>1, <1>2, Parts, EstateKept, BuildingsKept, PlayersKept, AuctionKept
  <1> QED BY <1>3, <1>4, <1>5, Whole
-----------------------------------------------------------------------------
(* Bankruptcy *)

\* The creditor is in the game, so the estate goes to the creditor.
LEMMA DeclareBankruptStep ==
    ASSUME EngineInv, CheckGameOver, NEW p \in Players, DeclareBankrupt(p)
    PROVE  EngineInv'
  <1> DEFINE c == debt.to
             lost == held[p]
             purse == cash[p] + Proceeds(held[p])
  <1>1. /\ Landed(p) /\ debt.by = p /\ None \notin Players
    BY BoardAssumption DEF BoardAssumption, DeclareBankrupt, InDebt
  <1>2. phase # "auction" /\ p = Active /\ ~bankrupt[p]
    BY <1>1, AtTable
  <1>3. c \in Players \ {p} /\ ~bankrupt[c]
    <2>1. debt # NoDebt
      BY <1>1 DEF NoDebt
    <2> QED BY <1>2, <2>1, Parts DEF MoneyInv, DebtSound, Alive
  <1>4. /\ houses' = [q \in Props |-> IF q \in lost THEN 0 ELSE houses[q]]
        /\ housesAvailable' = housesAvailable + HousesOn(lost, houses)
        /\ hotelsAvailable' = hotelsAvailable + HotelsOn(lost, houses)
        /\ bankrupt' = [bankrupt EXCEPT ![p] = TRUE]
        /\ cash' = [cash EXCEPT ![p] = 0, ![c] = cash[c] + purse]
        /\ owner' = [q \in Props |-> IF q \in lost THEN c ELSE owner[q]]
        /\ mortgaged' = [q \in Props |-> mortgaged[q] /\ ~(q \in lost /\ c = None)]
        /\ held' = [o \in Players |-> IF o = p THEN {}
                                      ELSE IF o = c THEN held[o] \cup lost ELSE held[o]]
        /\ isMonopoly' = Monopolies(owner')
        /\ debt' = NoDebt
        /\ NextPlayer(bankrupt')
        /\ UNCHANGED <<position, jail, auction>>
    BY <1>1, <1>3, Parts DEF DeclareBankrupt, MoneyInv
  <1>5. lost \in SUBSET Props
    BY Parts DEF EstateInv
  <1>6. purse \in Nat
    <2>1. Proceeds(held[p]) \in Nat
      BY <1>5, Parts, ProceedsIsNat DEF BuildingTypes
    <2> QED BY <2>1, Parts DEF MoneyInv
  <1> HIDE DEF c, lost, purse
  <1>7. bankrupt' \in [Players -> BOOLEAN] /\ ~bankrupt'[c]
    BY <1>3, <1>4, Parts DEF PlayerTypes
  <1>8. FlowInv' /\ phase' = "pre_roll"
    BY <1>3, <1>4, <1>7, Parts, NextPlayerStep
  <1>9. PlayerTypes'
    BY <1>4, <1>7, Parts DEF PlayerTypes, jail
  <1>10. BuildingTypes'
    <2>1. HousesOn(lost, houses) \in Nat /\ HotelsOn(lost, houses) \in Nat
      BY <1>5, CountsAreNat
    <2>2. housesAvailable' \in Nat /\ hotelsAvailable' \in Nat
      BY <1>4, <2>1, Parts DEF BuildingTypes
    <2>3. 0 \in 0 .. Hotel
      BY AmountAssumption DEF AmountAssumption, Hotel
    <2>4. houses' \in [Props -> 0 .. Hotel]
      BY <1>4, <2>3, Parts DEF BuildingTypes
    <2> QED BY <2>2, <2>4 DEF BuildingTypes
  <1>11. MoneyInv'
    <2>1. cash[c] + purse \in Nat
      BY <1>3, <1>6, Parts DEF MoneyInv
    <2>2. cash' \in [Players -> Nat]
      BY <1>4, <2>1, Parts DEF MoneyInv
    <2>3. \A b \in Players : bankrupt'[b] => cash'[b] = 0
      BY <1>3, <1>4, Parts DEF MoneyInv, PlayerTypes
    <2> QED BY <1>4, <2>2, <2>3, MoneyFree
  <1>12. EstateInv'
    <2>1. /\ held \in [Players -> SUBSET Props] /\ owner \in [Props -> Players \cup {None}]
          /\ \A o \in Players : held[o] = {q \in Props : owner[q] = o}
      BY Parts DEF EstateInv, OwnershipAgrees
    <2>2. held' \in [Players -> SUBSET Props] /\ owner' \in [Props -> Players \cup {None}]
      BY <1>3, <1>4, <1>5, <2>1
    <2>3. ASSUME NEW o \in Players PROVE held'[o] = {q \in Props : owner'[q] = o}
      <3>1. lost = {q \in Props : owner[q] = p}
        BY <2>1 DEF lost
      <3>2. ASSUME NEW q PROVE q \in held'[o] <=> (q \in Props /\ owner'[q] = o)
        BY <1>3, <1>4, <2>1, <3>1
      <3> QED BY <2>2, <3>2
    <2>4. \A b \in Players : bankrupt'[b] => held'[b] = {}
      BY <1>3, <1>4, Parts DEF EstateInv, PlayerTypes
    <2>5. mortgaged' \in [Props -> BOOLEAN]
      BY <1>4, Zenon
    <2>6. isMonopoly' \in [Props -> BOOLEAN] /\ isMonopoly' = Monopolies(owner')
      BY <1>4, MonopolyType
    <2>7. OwnershipAgrees'
      BY <2>3, <2>6 DEF OwnershipAgrees
    <2> QED BY <2>2, <2>4, <2>5, <2>6, <2>7 DEF EstateInv
  <1>13. AuctionInv'
    BY <1>4, <1>8, Parts, AuctionKept
  <1> QED BY <1>8, <1>9, <1>10, <1>11, <1>12, <1>13, Whole
-----------------------------------------------------------------------------
(* The invariant holds *)

LEMMA EngineInit == Init => EngineInv
  <1> SUFFICES ASSUME Init PROVE EngineInv
    OBVIOUS
  <1>1. /\ StartingCash \in Nat /\ HouseSupply \in Nat /\ HotelSupply \in Nat
        /\ MaxHouses \in 1 .. 4 /\ N \in Nat \ {0, 1} /\ NumSquares \in Nat \ {0}
        /\ None \notin Players /\ TurnOrder \in [1 .. N -> Players]
    BY BoardAssumption, AmountAssumption DEF BoardAssumption, AmountAssumption
  <1>2. /\ 0 \in Squares /\ 0 \in 0 .. Hotel /\ 1 \in 1 .. N /\ 0 \in 0 .. 2
    BY <1>1 DEF Squares, Hotel
  <1>3. NoOffer \in Offer /\ NoDebt \in Debt /\ NoAuction \in Auction /\ NoOffer.to = None
    BY DEF NoOffer, Offer, NoDebt, Debt, NoAuction, Auction
  <1>4. TypeOK
    <2>1. /\ cash \in [Players -> Nat] /\ position \in [Players -> Squares]
          /\ inJail \in [Players -> BOOLEAN] /\ jailTurns \in [Players -> Nat]
          /\ bankrupt \in [Players -> BOOLEAN] /\ held \in [Players -> SUBSET Props]
      BY <1>1, <1>2 DEF Init
    <2>2. /\ owner \in [Props -> Players \cup {None}]
          /\ mortgaged \in [Props -> BOOLEAN] /\ houses \in [Props -> 0 .. Hotel]
          /\ isMonopoly \in [Props -> BOOLEAN]
      BY <1>2 DEF Init
    <2>3. /\ phase \in {"pre_roll", "post_roll", "out_of_turn", "auction"}
          /\ turn \in 1 .. N /\ round \in Nat /\ hasRolled \in BOOLEAN
          /\ outOfTurn \in SUBSET Players /\ doubles \in 0 .. 2 /\ extraRoll \in BOOLEAN
      BY <1>2 DEF Init
    <2>4. /\ trades \in [Players -> Offer] /\ auction \in Auction /\ debt \in Debt
          /\ housesAvailable \in Nat /\ hotelsAvailable \in Nat /\ done \in BOOLEAN
      BY <1>1, <1>3 DEF Init
    <2> QED BY <2>1, <2>2, <2>3, <2>4 DEF TypeOK, Auction, Debt
  <1>5. OwnershipAgrees
    <2>1. ASSUME NEW p \in Players PROVE held[p] = {q \in Props : owner[q] = p}
      BY <1>1 DEF Init
    <2>2. isMonopoly = Monopolies(owner)
      <3>1. ASSUME NEW q \in Props
            PROVE  ~(\E p \in Players : \A r \in Props : Group[r] = Group[q] => owner[r] = p)
        BY <1>1 DEF Init
      <3> QED BY <3>1 DEF Init, Monopolies
    <2> QED BY <2>1, <2>2 DEF OwnershipAgrees
  <1>6. DebtSound /\ AuctionSound
    BY DEF Init, DebtSound, AuctionSound
  <1>7. ~bankrupt[Active] /\ \A p \in Players : ~bankrupt[p]
    BY <1>1, <1>2 DEF Init, Active
  <1>8. EliminatedIsOut /\ TableSound
    BY <1>7 DEF Init, EliminatedIsOut, TableSound
  <1> QED BY <1>4, <1>5, <1>6, <1>8 DEF EngineInv

LEMMA DecisionStep ==
    ASSUME EngineInv, CheckGameOver, NEW p \in Players, Decision(p)
    PROVE  EngineInv'
  <1>1. CASE EndPreRoll(p) \/ EndOnUnowned(p) \/ EndPostRoll(p) \/ EndOutOfTurn(p)
    BY <1>1, EndPreRollStep, EndOnUnownedStep, EndPostRollStep, EndOutOfTurnStep
  <1>2. CASE RollDice(p)
    BY <1>2, StayInJailStep, ThirdDoubleStep, MoveStep DEF RollDice
  <1>3. CASE PayBail(p) \/ BuyProperty(p)
    BY <1>3, PayBailStep, BuyPropertyStep
  <1>4. CASE Mortgage(p) \/ Unmortgage(p) \/ SellProperty(p)
    BY <1>4, MortgageStep, UnmortgageStep, SellPropertyStep
  <1>5. CASE BuildHouse(p) \/ BuildHotel(p) \/ SellHouse(p) \/ SellHotel(p)
    BY <1>5, BuildHouseStep, BuildHotelStep, SellHouseStep, SellHotelStep
  <1>6. CASE DeclareBankrupt(p)
    BY <1>6, DeclareBankruptStep
  <1>7. CASE AuctionMove(p)
    BY <1>7, AuctionMoveStep
  <1>8. CASE MakeOffer(p) \/ AcceptTrade(p) \/ DeclineTrade(p)
    BY <1>8, MakeOfferStep, AcceptTradeStep, DeclineTradeStep
  <1> QED BY <1>1, <1>2, <1>3, <1>4, <1>5, <1>6, <1>7, <1>8 DEF Decision

LEMMA EngineStutter ==
    ASSUME EngineInv, UNCHANGED vars
    PROVE  EngineInv'
  <1>1. PlayerTypes' /\ BuildingTypes' /\ EstateInv' /\ FlowInv'
    BY Parts, PlayersKept, BuildingsKept, EstateKept, FlowKept DEF vars
  <1>2. MoneyInv'
    BY Parts DEF MoneyInv, DebtSound, Alive, Active, vars, money, flow
  <1>3. AuctionInv'
    BY Parts DEF AuctionInv, AuctionSound, Alive, vars, money, flow, estate
  <1>4. TypeOK'
    BY <1>1, <1>2, <1>3 DEF EngineInv, TypeOK, PlayerTypes, BuildingTypes, EstateInv, MoneyInv,
                            AuctionInv, FlowInv, Auction, Debt, vars
  <1>5. EliminatedIsOut'
    BY DEF EngineInv, EliminatedIsOut, Actor, Active, FirstOf, vars, flow, estate, money
  <1> QED BY <1>1, <1>2, <1>3, <1>4, <1>5
          DEF EngineInv, EstateInv, MoneyInv, AuctionInv, FlowInv

\* The engine's invariant: types, the two books of ownership, debts, auctions
\* and eliminated players, together strong enough to carry each other through
\* every step of MonopolyEnv.step.
THEOREM EngineSound == Spec => []EngineInv
  <1>1. Init => EngineInv
    BY EngineInit
  <1>2. EngineInv /\ [Next]_vars => EngineInv'
    BY DecisionStep, EngineStutter DEF Next
  <1> QED BY <1>1, <1>2, PTL DEF Spec

\* In particular nobody's cash is ever negative, on any board: every payment
\* is capped, checked, or bid within the bidder's means.
THEOREM EngineTypes == Spec => []TypeOK
  <1>1. EngineInv => TypeOK
    BY DEF EngineInv
  <1> QED BY <1>1, EngineSound, PTL

\* Property.owner, Player.properties and the cached monopolies stay in step.
THEOREM BooksOfOwnership == Spec => []OwnershipAgrees
  <1>1. EngineInv => OwnershipAgrees
    BY DEF EngineInv
  <1> QED BY <1>1, EngineSound, PTL

\* A rent debt is the active player's, without cash, to a player in the game.
THEOREM DebtsAreSound == Spec => []DebtSound
  <1>1. EngineInv => DebtSound
    BY DEF EngineInv
  <1> QED BY <1>1, EngineSound, PTL

\* The leader of an auction can pay, and the one asked does not lead.
THEOREM AuctionsAreSound == Spec => []AuctionSound
  <1>1. EngineInv => AuctionSound
    BY DEF EngineInv
  <1> QED BY <1>1, EngineSound, PTL

\* A bankrupt player has nothing, is never waited for and is in no offer.
THEOREM TheEliminatedAreOut == Spec => []EliminatedIsOut
  <1>1. EngineInv => EliminatedIsOut
    BY DEF EngineInv
  <1> QED BY <1>1, EngineSound, PTL
-----------------------------------------------------------------------------
(* What the others may lose *)

Keeps(p) == cash'[p] >= cash[p] /\ held[p] \subseteq held'[p]

Consent(p) ==
    /\ cash'[p] < cash[p] =>
          \/ trades[p].to = Actor /\ cash[p] - cash'[p] <= trades[p].pay
          \/ auction.leader = p /\ cash[p] - cash'[p] = auction.high
    /\ held[p] \ held'[p] # {} =>
          trades[p].to = Actor /\ held[p] \ held'[p] = {trades[p].give}

LEMMA KeepsConsents ==
    ASSUME MoneyInv, MoneyInv', NEW p \in Players, Keeps(p)
    PROVE  Consent(p)
  <1>1. cash[p] \in Nat /\ cash'[p] \in Nat
    BY DEF MoneyInv
  <1>2. ~(cash'[p] < cash[p])
    BY <1>1 DEF Keeps
  <1>3. held[p] \ held'[p] = {}
    BY DEF Keeps
  <1> QED BY <1>2, <1>3 DEF Consent

\* Only the one whose move it is moves.
LEMMA TheActorMoves ==
    ASSUME NEW p, Decision(p)
    PROVE  p = Actor
  <1>1. PreRoll(p) \/ Landed(p) \/ Unrolled(p) \/ Responding(p)
           \/ (phase = "auction" /\ p = auction.current)
    BY DEF Decision, EndPreRoll, EndOnUnowned, EndPostRoll, EndOutOfTurn, RollDice, StayInJail,
           ThirdDouble, Move, PayBail, BuyProperty, Mortgage, Unmortgage, SellProperty,
           BuildHouse, BuildHotel, SellHouse, SellHotel, DeclareBankrupt, AuctionMove,
           MakeOffer, AcceptTrade, DeclineTrade, Answering
  <1> QED BY <1>1 DEF PreRoll, Landed, Unrolled, Responding, Actor

LEMMA RaiseKeeps ==
    ASSUME EngineInv, NEW p \in Players, PreRoll(p) \/ Landed(p), NEW amount \in Nat,
           Raise(p, amount), NEW q \in Players \ {p}
    PROVE  cash'[q] >= cash[q]
  <1>1. cash \in [Players -> Nat] /\ debt \in Debt /\ cash[q] \in Nat /\ None \notin Players
    BY Parts, BoardAssumption DEF MoneyInv, BoardAssumption
  <1>2. CASE ~InDebt(p)
    BY <1>1, <1>2 DEF Raise
  <1>3. CASE InDebt(p)
    <2>1. debt # NoDebt
      BY <1>1, <1>3 DEF InDebt, NoDebt
    <2>2. debt.to \in Players \ {p}
      BY <1>3, <2>1, Parts DEF MoneyInv, DebtSound, Alive, InDebt
    <2> DEFINE paid == Smaller(cash[p] + amount, debt.amount)
    <2>3. paid \in Nat
      BY <1>1 DEF Smaller, Debt
    <2> HIDE DEF paid
    <2>4. \E purse : cash' = [cash EXCEPT ![p] = purse, ![debt.to] = cash[debt.to] + paid]
      BY <1>1, <1>3, <2>2 DEF Raise, paid
    <2>5. CASE q = debt.to
      BY <1>1, <2>2, <2>3, <2>4, <2>5
    <2>6. CASE q # debt.to
      BY <1>1, <2>2, <2>4, <2>6
    <2> QED BY <2>5, <2>6
  <1> QED BY <1>2, <1>3

LEMMA MoveKeeps ==
    ASSUME EngineInv, NEW p \in Players, NEW d1 \in Dice, NEW d2 \in Dice, Move(p, d1, d2),
           NEW q \in Players \ {p}
    PROVE  Keeps(q)
  <1>1. cash \in [Players -> Nat] /\ cash[q] \in Nat
    BY Parts DEF MoneyInv
  <1>2. held' = held
    BY DEF Move, estate
  <1> DEFINE fee == IF inJail[p] /\ d1 # d2 THEN Smaller(Bail, cash[p]) ELSE 0
             square == (position[p] + d1 + d2) % NumSquares
             salary == IF square < position[p] THEN GoSalary ELSE 0
             purse == cash[p] - fee + salary
  <1>3. /\ LandInJail(p, square, purse) \/ LandOnTax(p, square, purse)
           \/ LandOnRent(p, square, purse, d1 + d2) \/ LandFree(p, square, purse)
    BY DEF Move
  <1>4. purse \in Nat
    <2>1. cash[p] \in Nat /\ Bail \in Nat /\ GoSalary \in Nat
      BY AmountAssumption, Parts DEF AmountAssumption, MoneyInv
    <2>2. fee \in Nat /\ fee <= cash[p]
      BY <2>1 DEF Smaller
    <2>3. salary \in Nat
      BY <2>1
    <2> QED BY <2>1, <2>2, <2>3
  <1> HIDE DEF square, purse, fee, salary
  <1>5. CASE ~LandOnRent(p, square, purse, d1 + d2)
    <2>1. \E x : cash' = [cash EXCEPT ![p] = x]
      BY <1>3, <1>5 DEF LandInJail, LandOnTax, LandFree
    <2>2. cash'[q] = cash[q]
      BY <1>1, <2>1
    <2> QED BY <1>1, <1>2, <2>2 DEF Keeps
  <1>6. CASE LandOnRent(p, square, purse, d1 + d2)
    <2> DEFINE paid == Smaller(RentDue(square, d1 + d2), purse)
               o == owner[square]
    <2>1. square \in Props /\ o \in Players \ {p}
      BY <1>6, Parts DEF LandOnRent, EstateInv
    <2>2. d1 + d2 \in Nat
      BY AmountAssumption DEF AmountAssumption
    <2>3. RentDue(square, d1 + d2) \in Nat
      BY <2>1, <2>2, Parts, RentIsNat DEF EstateInv, OwnershipAgrees, BuildingTypes
    <2>4. paid \in Nat
      BY <1>4, <2>3 DEF Smaller
    <2>5. cash' = [cash EXCEPT ![p] = purse - paid, ![o] = cash[o] + paid]
      BY <1>1, <1>6, <2>1 DEF LandOnRent
    <2> HIDE DEF paid, o
    <2>6. cash'[q] >= cash[q]
      BY <1>1, <2>1, <2>4, <2>5
    <2> QED BY <1>2, <2>6 DEF Keeps
  <1> QED BY <1>5, <1>6

\* Every move but the end of an auction and an accepted offer leaves the
\* others what they have.
LEMMA OthersKeep ==
    ASSUME EngineInv, NEW p \in Players, Decision(p), ~AuctionMove(p), ~AcceptTrade(p),
           NEW q \in Players \ {p}
    PROVE  Keeps(q)
  <1>1. /\ cash \in [Players -> Nat] /\ cash[q] \in Nat /\ held \in [Players -> SUBSET Props]
    BY Parts DEF MoneyInv, EstateInv
  <1>2. CASE EndPreRoll(p) \/ EndOnUnowned(p) \/ EndPostRoll(p) \/ EndOutOfTurn(p)
             \/ StayInJail(p) \/ ThirdDouble(p) \/ MakeOffer(p) \/ DeclineTrade(p)
    <2>1. UNCHANGED <<cash, held>>
      BY <1>2 DEF EndPreRoll, EndOnUnowned, EndPostRoll, EndOutOfTurn, StayInJail, ThirdDouble,
                  MakeOffer, DeclineTrade, money, estate
    <2> QED BY <1>1, <2>1 DEF Keeps
  <1>3. CASE PayBail(p) \/ Unmortgage(p) \/ BuildHouse(p) \/ BuildHotel(p)
    <2>1. held' = held /\ \E x : cash' = [cash EXCEPT ![p] = x]
      BY <1>3 DEF PayBail, Unmortgage, BuildHouse, BuildHotel, estate
    <2> QED BY <1>1, <2>1 DEF Keeps
  <1>4. CASE BuyProperty(p)
    <2>1. \E x, y : cash' = [cash EXCEPT ![p] = x] /\ held' = [held EXCEPT ![p] = y]
      BY <1>4 DEF BuyProperty, Acquire
    <2> QED BY <1>1, <2>1 DEF Keeps
  <1>5. CASE Mortgage(p) \/ SellHouse(p) \/ SellHotel(p)
    <2>1. held' = held /\ (PreRoll(p) \/ Landed(p))
      BY <1>5 DEF Mortgage, SellHouse, SellHotel, estate
    <2>2. \E r \in Props : Raise(p, MortgageValue[r]) \/ Raise(p, HalfPrice(r))
      BY <1>5 DEF Mortgage, SellHouse, SellHotel, Unimproved, WithHouses, WithHotel, RealEstate
    <2>3. cash'[q] >= cash[q]
      BY <2>1, <2>2, AmountsAreNat, RaiseKeeps
    <2> QED BY <2>1, <2>3 DEF Keeps
  <1>6. CASE SellProperty(p)
    <2>1. PICK r \in Unimproved(p) :
              /\ PreRoll(p) \/ Landed(p)
              /\ held' = [held EXCEPT ![p] = held[p] \ {r}]
              /\ Raise(p, MortgageValue[r])
      BY <1>6 DEF SellProperty
    <2>2. r \in Props
      BY DEF Unimproved
    <2>3. cash'[q] >= cash[q]
      BY <2>1, <2>2, AmountsAreNat, RaiseKeeps
    <2> QED BY <1>1, <2>1, <2>3 DEF Keeps
  <1>7. CASE DeclareBankrupt(p)
    <2>1. debt # NoDebt /\ debt.by = p /\ p = Active
      BY <1>7, AtTable, BoardAssumption DEF BoardAssumption, DeclareBankrupt, InDebt, NoDebt
    <2>2. debt.to \in Players \ {p} /\ ~bankrupt[debt.to] /\ None \notin Players
      BY <2>1, Parts, BoardAssumption DEF BoardAssumption, MoneyInv, DebtSound, Alive
    <2>3. /\ cash' = [cash EXCEPT ![p] = 0,
                          ![debt.to] = cash[debt.to] + (cash[p] + Proceeds(held[p]))]
          /\ held' = [o \in Players |-> IF o = p THEN {}
                                        ELSE IF o = debt.to THEN held[o] \cup held[p] ELSE held[o]]
      BY <1>1, <1>7, <2>2 DEF DeclareBankrupt
    <2>4. cash[p] + Proceeds(held[p]) \in Nat
      BY <1>1, Parts, ProceedsIsNat DEF BuildingTypes
    <2>5. cash'[q] >= cash[q]
      BY <1>1, <2>2, <2>3, <2>4
    <2> QED BY <1>1, <2>3, <2>5 DEF Keeps
  <1>8. CASE \E d1, d2 \in Dice : Move(p, d1, d2)
    BY <1>8, MoveKeeps
  <1> QED BY <1>2, <1>3, <1>4, <1>5, <1>6, <1>7, <1>8 DEF Decision, RollDice

LEMMA AuctionConsent ==
    ASSUME EngineInv, MoneyInv', NEW p \in Players, AuctionMove(p), p = Actor,
           NEW q \in Players \ {p}
    PROVE  Consent(q)
  <1>1. /\ cash \in [Players -> Nat] /\ held \in [Players -> SUBSET Props] /\ auction \in Auction
    BY Parts DEF MoneyInv, EstateInv, AuctionInv
  <1>2. PICK now \in {PassBid(p)} \cup
                     {RaiseBid(p, inc) : inc \in {i \in BidIncrements :
                                                      auction.high + i <= cash[p]}} :
            AuctionGoesOn(p, now) \/ FinishAuction(now)
    BY DEF AuctionMove
  <1>3. now.leader = p \/ (now.leader = auction.leader /\ now.high = auction.high)
    <2>1. CASE now = PassBid(p)
      BY <1>1, <2>1 DEF PassBid, Auction
    <2>2. CASE \E inc \in BidIncrements : now = RaiseBid(p, inc)
      BY <1>1, <2>2 DEF RaiseBid, Auction
    <2> QED BY <1>2, <2>1, <2>2
  <1>4. CASE UNCHANGED <<cash, held>>
    <2>1. Keeps(q)
      BY <1>1, <1>4 DEF Keeps
    <2> QED BY <2>1, Parts, KeepsConsents
  <1>5. CASE Acquire(now.leader, now.prop) /\ cash' = [cash EXCEPT ![now.leader] = @ - now.high]
    <2>1. held[q] \subseteq held'[q]
      BY <1>1, <1>5 DEF Acquire
    <2>2. CASE q = now.leader
      <3>1. q = auction.leader /\ cash'[q] = cash[q] - auction.high
        BY <1>1, <1>3, <1>5, <2>2
      <3>2. cash[q] - cash'[q] = auction.high
        BY <1>1, <3>1 DEF Auction
      <3> QED BY <2>1, <3>1, <3>2 DEF Consent
    <2>3. CASE q # now.leader
      <3>1. Keeps(q)
        BY <1>1, <1>5, <2>1, <2>3 DEF Keeps
      <3> QED BY <3>1, Parts, KeepsConsents
    <2> QED BY <2>2, <2>3
  <1> QED BY <1>2, <1>4, <1>5 DEF AuctionGoesOn, FinishAuction

LEMMA TradeConsent ==
    ASSUME EngineInv, MoneyInv', NEW p \in Players, AcceptTrade(p), p = Actor,
           NEW q \in Players \ {p}
    PROVE  Consent(q)
  <1> DEFINE s == Incoming(p)
  <1>1. /\ cash \in [Players -> Nat] /\ held \in [Players -> SUBSET Props] /\ None \notin Props
        /\ \A o \in Players : held[o] = {r \in Props : owner[r] = o}
    BY Parts, BoardAssumption DEF BoardAssumption, MoneyInv, EstateInv, OwnershipAgrees
  <1>2. /\ Answering(p) /\ trades' = [trades EXCEPT ![s] = NoOffer]
        /\ IF StillValid(s, p, trades[s]) THEN Exchange(s, p, trades[s])
           ELSE UNCHANGED <<cash, owner, held, isMonopoly>>
        /\ UNCHANGED <<phase, turn, round, hasRolled, outOfTurn, doubles, extraRoll, bankrupt>>
    BY DEF AcceptTrade
  <1> HIDE DEF s
  <1>3. s \in Players \ {p} /\ trades[s].to = p /\ trades[s] \in Offer
    BY <1>2, AnswerStep DEF s
  <1> DEFINE o == trades[s]
  <1>4. CASE ~StillValid(s, p, o)
    <2>1. Keeps(q)
      BY <1>1, <1>2, <1>4 DEF Keeps
    <2> QED BY <2>1, Parts, KeepsConsents
  <1>5. CASE StillValid(s, p, o) /\ q # s
    <2>1. cash'[q] = cash[q] /\ held'[q] = held[q]
      BY <1>1, <1>2, <1>3, <1>5 DEF Exchange
    <2>2. Keeps(q)
      BY <1>1, <2>1 DEF Keeps
    <2> QED BY <2>2, Parts, KeepsConsents
  <1>6. CASE StillValid(s, p, o) /\ q = s
    <2>1. /\ o.give \in Props \cup {None} /\ o.pay \in Nat /\ o.ask \in Nat
          /\ o.give # None => o.give \in held[s]
          /\ o.want # None => o.want \in held[p]
      BY <1>3, <1>6 DEF Offer, StillValid
    <2>2. /\ cash'[q] = cash[q] - o.pay + o.ask
          /\ held'[q] = (held[q] \ {o.give}) \cup ({o.want} \ {None})
      BY <1>1, <1>2, <1>3, <1>6 DEF Exchange
    <2>3. cash[q] - cash'[q] <= o.pay
      BY <1>1, <2>1, <2>2
    <2>4. held[q] \ held'[q] # {} => held[q] \ held'[q] = {o.give}
      <3>1. held[q] \ held'[q] \subseteq {o.give}
        BY <2>2
      <3> QED BY <3>1
    <2> QED BY <1>3, <1>6, <2>3, <2>4 DEF Consent
  <1> QED BY <1>4, <1>5, <1>6

\* Whatever the other policies do, a player loses money or property only by an
\* accepted offer or a winning bid of their own, or on their own move.
THEOREM ConsentOnly == Spec => OnlyByConsent
  <1>1. ASSUME EngineInv, EngineInv', [Next]_vars
        PROVE  [\A q \in Players \ {Actor} : Consent(q)]_vars
    <2>1. CASE UNCHANGED vars
      BY <2>1
    <2>2. CASE Next
      <3>1. PICK p \in Players : Decision(p)
        BY <2>2 DEF Next
      <3>2. p = Actor
        BY <3>1, TheActorMoves
      <3>3. MoneyInv'
        BY <1>1 DEF EngineInv, TypeOK, EliminatedIsOut, MoneyInv, Debt
      <3>4. ASSUME NEW q \in Players \ {p} PROVE Consent(q)
        <4>1. CASE AuctionMove(p)
          BY <1>1, <3>2, <3>3, <4>1, AuctionConsent
        <4>2. CASE AcceptTrade(p)
          BY <1>1, <3>2, <3>3, <4>2, TradeConsent
        <4>3. CASE ~AuctionMove(p) /\ ~AcceptTrade(p)
          BY <1>1, <3>1, <3>3, <4>3, OthersKeep, KeepsConsents, Parts
        <4> QED BY <4>1, <4>2, <4>3
      <3> QED BY <3>2, <3>4
    <2> QED BY <1>1, <2>1, <2>2
  <1>2. EngineInv /\ EngineInv' /\ [Next]_vars =>
          [\A p \in Players \ {Actor} :
              /\ cash'[p] < cash[p] =>
                    \/ trades[p].to = Actor /\ cash[p] - cash'[p] <= trades[p].pay
                    \/ auction.leader = p /\ cash[p] - cash'[p] = auction.high
              /\ held[p] \ held'[p] # {} =>
                    trades[p].to = Actor /\ held[p] \ held'[p] = {trades[p].give}]_vars
    BY <1>1 DEF Consent
  <1> QED BY <1>2, EngineSound, PTL DEF Spec, OnlyByConsent
-----------------------------------------------------------------------------
(* Houses and hotels *)

HousesAt(q, h) == IF h[q] = Hotel THEN 0 ELSE h[q]
HotelsAt(q, h) == IF h[q] = Hotel THEN 1 ELSE 0

LEMMA BuiltFinite ==
    ASSUME NEW S \in SUBSET Props, NEW h
    PROVE  /\ IsFiniteSet({b \in S \X (1 .. MaxHouses) :
                               b[2] <= h[b[1]] /\ h[b[1]] <= MaxHouses})
           /\ IsFiniteSet({q \in S : h[q] = Hotel})
  <1>1. IsFiniteSet(S) /\ MaxHouses \in Nat
    BY PropsFinite, AmountAssumption DEF AmountAssumption
  <1>2. IsFiniteSet(1 .. MaxHouses)
    BY <1>1, FS_Interval
  <1>3. IsFiniteSet(S \X (1 .. MaxHouses))
    BY <1>1, <1>2, FS_Product
  <1> DEFINE built == {b \in S \X (1 .. MaxHouses) : b[2] <= h[b[1]] /\ h[b[1]] <= MaxHouses}
             hotels == {q \in S : h[q] = Hotel}
  <1>4. built \in SUBSET (S \X (1 .. MaxHouses)) /\ hotels \in SUBSET S
    OBVIOUS
  <1> QED BY <1>1, <1>3, <1>4, FS_Subset

\* Disjoint sets of properties have their buildings apart.
LEMMA CountsAdd ==
    ASSUME NEW S \in SUBSET Props, NEW T \in SUBSET Props, S \cap T = {}, NEW h
    PROVE  /\ HousesOn(S \cup T, h) = HousesOn(S, h) + HousesOn(T, h)
           /\ HotelsOn(S \cup T, h) = HotelsOn(S, h) + HotelsOn(T, h)
  <1> DEFINE built(U) == {b \in U \X (1 .. MaxHouses) :
                              b[2] <= h[b[1]] /\ h[b[1]] <= MaxHouses}
             hotels(U) == {q \in U : h[q] = Hotel}
  <1>1. /\ IsFiniteSet(built(S)) /\ IsFiniteSet(built(T))
        /\ IsFiniteSet(hotels(S)) /\ IsFiniteSet(hotels(T))
    BY BuiltFinite
  <1>2. built(S \cup T) = built(S) \cup built(T) /\ built(S) \cap built(T) = {}
    OBVIOUS
  <1>3. hotels(S \cup T) = hotels(S) \cup hotels(T) /\ hotels(S) \cap hotels(T) = {}
    OBVIOUS
  <1>4. /\ HousesOn(S \cup T, h) = Cardinality(built(S \cup T))
        /\ HousesOn(S, h) = Cardinality(built(S)) /\ HousesOn(T, h) = Cardinality(built(T))
        /\ HotelsOn(S \cup T, h) = Cardinality(hotels(S \cup T))
        /\ HotelsOn(S, h) = Cardinality(hotels(S)) /\ HotelsOn(T, h) = Cardinality(hotels(T))
    BY DEF HousesOn, HotelsOn
  <1> HIDE DEF built, hotels
  <1>5. Cardinality({}) = 0
    BY FS_EmptySet
  <1>6. Cardinality(built(S) \cup built(T)) = Cardinality(built(S)) + Cardinality(built(T))
    <2>1. Cardinality(built(S) \cup built(T)) =
             Cardinality(built(S)) + Cardinality(built(T)) - Cardinality(built(S) \cap built(T))
      BY <1>1, FS_Union
    <2>2. Cardinality(built(S)) \in Nat /\ Cardinality(built(T)) \in Nat
      BY <1>1, FS_CardinalityType
    <2>3. Cardinality(built(S) \cap built(T)) = 0
      BY <1>2, <1>5
    <2> QED BY <2>1, <2>2, <2>3
  <1>7. Cardinality(hotels(S) \cup hotels(T)) = Cardinality(hotels(S)) + Cardinality(hotels(T))
    <2>1. Cardinality(hotels(S) \cup hotels(T)) =
             Cardinality(hotels(S)) + Cardinality(hotels(T)) - Cardinality(hotels(S) \cap hotels(T))
      BY <1>1, FS_Union
    <2>2. Cardinality(hotels(S)) \in Nat /\ Cardinality(hotels(T)) \in Nat
      BY <1>1, FS_CardinalityType
    <2>3. Cardinality(hotels(S) \cap hotels(T)) = 0
      BY <1>3, <1>5
    <2> QED BY <2>1, <2>2, <2>3
  <1> QED BY <1>2, <1>3, <1>4, <1>6, <1>7

LEMMA CountsAgree ==
    ASSUME NEW S \in SUBSET Props, NEW h, NEW g, \A q \in S : h[q] = g[q]
    PROVE  HousesOn(S, h) = HousesOn(S, g) /\ HotelsOn(S, h) = HotelsOn(S, g)
  <1>1. {b \in S \X (1 .. MaxHouses) : b[2] <= h[b[1]] /\ h[b[1]] <= MaxHouses}
          = {b \in S \X (1 .. MaxHouses) : b[2] <= g[b[1]] /\ g[b[1]] <= MaxHouses}
    OBVIOUS
  <1>2. {q \in S : h[q] = Hotel} = {q \in S : g[q] = Hotel}
    OBVIOUS
  <1> QED BY <1>1, <1>2 DEF HousesOn, HotelsOn

LEMMA CountAtOne ==
    ASSUME NEW q \in Props, NEW h \in [Props -> 0 .. Hotel]
    PROVE  HousesOn({q}, h) = HousesAt(q, h) /\ HotelsOn({q}, h) = HotelsAt(q, h)
  <1>1. MaxHouses \in Nat /\ Hotel = MaxHouses + 1 /\ h[q] \in 0 .. Hotel
    BY AmountAssumption DEF AmountAssumption, Hotel
  <1>2. IsFiniteSet({q}) /\ Cardinality({q}) = 1 /\ Cardinality({}) = 0
    BY FS_Singleton, FS_EmptySet
  <1> DEFINE built == {b \in {q} \X (1 .. MaxHouses) :
                           b[2] <= h[b[1]] /\ h[b[1]] <= MaxHouses}
  <1>3. CASE h[q] = Hotel
    <2>1. built = {}
      BY <1>1, <1>3
    <2>2. {r \in {q} : h[r] = Hotel} = {q}
      BY <1>3
    <2> QED BY <1>2, <1>3, <2>1, <2>2 DEF HousesOn, HotelsOn, HousesAt, HotelsAt
  <1>4. CASE h[q] # Hotel
    <2>1. h[q] \in 0 .. MaxHouses
      BY <1>1, <1>4
    <2>2. built = {q} \X (1 .. h[q])
      BY <1>1, <2>1
    <2>3. IsFiniteSet(1 .. h[q]) /\ Cardinality(1 .. h[q]) = h[q]
      BY <2>1, FS_Interval
    <2>4. Cardinality({q} \X (1 .. h[q])) = h[q]
      <3>1. Cardinality({q} \X (1 .. h[q])) = Cardinality({q}) * Cardinality(1 .. h[q])
        BY <1>2, <2>3, FS_Product
      <3>2. 1 * h[q] = h[q]
        BY <2>1
      <3> QED BY <1>2, <2>3, <3>1, <3>2
    <2>5. {r \in {q} : h[r] = Hotel} = {}
      BY <1>4
    <2> QED BY <1>2, <1>4, <2>2, <2>4, <2>5 DEF HousesOn, HotelsOn, HousesAt, HotelsAt
  <1> QED BY <1>3, <1>4

\* Building or selling on one property changes the count by what stands there.
LEMMA OneSite ==
    ASSUME NEW h \in [Props -> 0 .. Hotel], NEW g \in [Props -> 0 .. Hotel], NEW q \in Props,
           \A r \in Props \ {q} : g[r] = h[r]
    PROVE  /\ HousesOn(Props, g) + HousesAt(q, h) = HousesOn(Props, h) + HousesAt(q, g)
           /\ HotelsOn(Props, g) + HotelsAt(q, h) = HotelsOn(Props, h) + HotelsAt(q, g)
  <1> DEFINE rest == Props \ {q}
  <1>1. Props = {q} \cup rest /\ {q} \cap rest = {} /\ {q} \in SUBSET Props /\ rest \in SUBSET Props
    OBVIOUS
  <1> HIDE DEF rest
  <1>2. \A r \in rest : h[r] = g[r]
    BY DEF rest
  <1>3. HousesOn(rest, h) = HousesOn(rest, g) /\ HotelsOn(rest, h) = HotelsOn(rest, g)
    BY <1>1, <1>2, CountsAgree
  <1>4. /\ HousesOn({q} \cup rest, h) = HousesOn({q}, h) + HousesOn(rest, h)
        /\ HotelsOn({q} \cup rest, h) = HotelsOn({q}, h) + HotelsOn(rest, h)
        /\ HousesOn({q} \cup rest, g) = HousesOn({q}, g) + HousesOn(rest, g)
        /\ HotelsOn({q} \cup rest, g) = HotelsOn({q}, g) + HotelsOn(rest, g)
    BY <1>1, CountsAdd
  <1>5. /\ HousesOn({q}, h) = HousesAt(q, h) /\ HotelsOn({q}, h) = HotelsAt(q, h)
        /\ HousesOn({q}, g) = HousesAt(q, g) /\ HotelsOn({q}, g) = HotelsAt(q, g)
    BY CountAtOne
  <1>6. HousesOn(rest, h) \in Nat /\ HotelsOn(rest, h) \in Nat
    BY <1>1, CountsAreNat
  <1>7. /\ HousesAt(q, h) \in Nat /\ HousesAt(q, g) \in Nat
        /\ HotelsAt(q, h) \in Nat /\ HotelsAt(q, g) \in Nat
    BY DEF HousesAt, HotelsAt
  <1> QED BY <1>1, <1>3, <1>4, <1>5, <1>6, <1>7

\* What is bought comes from the bank and what is sold goes back to it.
LEMMA SupplyStep ==
    ASSUME EngineInv, EngineInv', SupplyConserved, NEW p \in Players, Decision(p)
    PROVE  SupplyConserved'
  <1>1. /\ houses \in [Props -> 0 .. Hotel] /\ houses' \in [Props -> 0 .. Hotel]
        /\ housesAvailable \in Nat /\ hotelsAvailable \in Nat
        /\ MaxHouses \in 1 .. 4 /\ Hotel = MaxHouses + 1
    BY AmountAssumption DEF AmountAssumption, EngineInv, TypeOK, Hotel
  <1>2. /\ HousesOn(Props, houses) \in Nat /\ HotelsOn(Props, houses) \in Nat
        /\ HousesOn(Props, houses') \in Nat /\ HotelsOn(Props, houses') \in Nat
    BY CountsAreNat
  <1>3. CASE UNCHANGED buildings
    BY <1>3 DEF SupplyConserved, buildings
  <1>4. ASSUME NEW q \in Props, \A r \in Props \ {q} : houses'[r] = houses[r],
               housesAvailable' + HousesAt(q, houses') = housesAvailable + HousesAt(q, houses),
               hotelsAvailable' + HotelsAt(q, houses') = hotelsAvailable + HotelsAt(q, houses),
               housesAvailable' \in Nat, hotelsAvailable' \in Nat
        PROVE  SupplyConserved'
    <2>1. /\ HousesOn(Props, houses') + HousesAt(q, houses)
               = HousesOn(Props, houses) + HousesAt(q, houses')
          /\ HotelsOn(Props, houses') + HotelsAt(q, houses)
               = HotelsOn(Props, houses) + HotelsAt(q, houses')
      BY <1>1, <1>4, OneSite
    <2>2. /\ HousesAt(q, houses) \in Nat /\ HousesAt(q, houses') \in Nat
          /\ HotelsAt(q, houses) \in Nat /\ HotelsAt(q, houses') \in Nat
      BY <1>1, <1>4 DEF HousesAt, HotelsAt
    <2> QED BY <1>1, <1>2, <1>4, <2>1, <2>2 DEF SupplyConserved
  <1>5. housesAvailable' \in Nat /\ hotelsAvailable' \in Nat
    BY DEF EngineInv, TypeOK
  <1>6. CASE BuildHouse(p)
    <2>1. PICK q \in HouseSites(p) :
              /\ houses' = [houses EXCEPT ![q] = houses[q] + 1]
              /\ housesAvailable' = housesAvailable - 1 /\ hotelsAvailable' = hotelsAvailable
      BY <1>6 DEF BuildHouse
    <2>2. q \in Props /\ houses[q] < MaxHouses
      BY DEF HouseSites, Improvable, RealEstate
    <2>3. houses'[q] = houses[q] + 1 /\ \A r \in Props \ {q} : houses'[r] = houses[r]
      BY <1>1, <2>1, <2>2
    <2> QED BY <1>1, <1>4, <1>5, <2>1, <2>2, <2>3 DEF HousesAt, HotelsAt
  <1>7. CASE BuildHotel(p)
    <2>1. PICK q \in HotelSites(p) :
              /\ houses' = [houses EXCEPT ![q] = Hotel]
              /\ housesAvailable' = housesAvailable + MaxHouses
              /\ hotelsAvailable' = hotelsAvailable - 1
      BY <1>7 DEF BuildHotel
    <2>2. q \in Props /\ houses[q] = MaxHouses
      BY DEF HotelSites, Improvable, RealEstate
    <2>3. houses'[q] = Hotel /\ \A r \in Props \ {q} : houses'[r] = houses[r]
      BY <1>1, <2>1, <2>2
    <2> QED BY <1>1, <1>4, <1>5, <2>1, <2>2, <2>3 DEF HousesAt, HotelsAt
  <1>8. CASE SellHouse(p)
    <2>1. PICK q \in WithHouses(p) :
              /\ houses' = [houses EXCEPT ![q] = houses[q] - 1]
              /\ housesAvailable' = housesAvailable + 1 /\ hotelsAvailable' = hotelsAvailable
      BY <1>8 DEF SellHouse
    <2>2. q \in Props /\ houses[q] \in 1 .. MaxHouses
      BY DEF WithHouses, RealEstate
    <2>3. houses'[q] = houses[q] - 1 /\ \A r \in Props \ {q} : houses'[r] = houses[r]
      BY <1>1, <2>1, <2>2
    <2> QED BY <1>1, <1>4, <1>5, <2>1, <2>2, <2>3 DEF HousesAt, HotelsAt
  <1>9. CASE SellHotel(p)
    <2>1. PICK q \in WithHotel(p) :
              /\ houses' = [houses EXCEPT ![q] = MaxHouses]
              /\ housesAvailable' = housesAvailable - MaxHouses
              /\ hotelsAvailable' = hotelsAvailable + 1
      BY <1>9 DEF SellHotel
    <2>2. q \in Props /\ houses[q] = Hotel
      BY DEF WithHotel, RealEstate
    <2>3. houses'[q] = MaxHouses /\ \A r \in Props \ {q} : houses'[r] = houses[r]
      BY <1>1, <2>1, <2>2
    <2> QED BY <1>1, <1>4, <1>5, <2>1, <2>2, <2>3 DEF HousesAt, HotelsAt
  <1>10. CASE DeclareBankrupt(p)
    <2> DEFINE lost == held[p]
               rest == Props \ lost
    <2>1. /\ houses' = [q \in Props |-> IF q \in lost THEN 0 ELSE houses[q]]
          /\ housesAvailable' = housesAvailable + HousesOn(lost, houses)
          /\ hotelsAvailable' = hotelsAvailable + HotelsOn(lost, houses)
      BY <1>10 DEF DeclareBankrupt
    <2>2. lost \in SUBSET Props
      BY DEF EngineInv, TypeOK
    <2>3. Props = lost \cup rest /\ lost \cap rest = {} /\ rest \in SUBSET Props
      BY <2>2
    <2>4. (\A q \in rest : houses'[q] = houses[q]) /\ (\A q \in lost : houses'[q] = 0)
      BY <2>1, <2>2
    <2> HIDE DEF lost, rest
    <2>5. HousesOn(rest, houses') = HousesOn(rest, houses) /\ HotelsOn(rest, houses') = HotelsOn(rest, houses)
      BY <2>3, <2>4, CountsAgree
    <2>6. HousesOn(lost, houses') = 0 /\ HotelsOn(lost, houses') = 0
      <3>1. {b \in lost \X (1 .. MaxHouses) : b[2] <= houses'[b[1]] /\ houses'[b[1]] <= MaxHouses} = {}
        BY <2>4
      <3>2. {q \in lost : houses'[q] = Hotel} = {}
        BY <1>1, <2>4
      <3> QED BY <3>1, <3>2, FS_EmptySet DEF HousesOn, HotelsOn
    <2>7. /\ HousesOn(lost \cup rest, houses) = HousesOn(lost, houses) + HousesOn(rest, houses)
          /\ HotelsOn(lost \cup rest, houses) = HotelsOn(lost, houses) + HotelsOn(rest, houses)
          /\ HousesOn(lost \cup rest, houses') = HousesOn(lost, houses') + HousesOn(rest, houses')
          /\ HotelsOn(lost \cup rest, houses') = HotelsOn(lost, houses') + HotelsOn(rest, houses')
      BY <2>2, <2>3, CountsAdd
    <2>8. /\ HousesOn(lost, houses) \in Nat /\ HousesOn(rest, houses) \in Nat
          /\ HotelsOn(lost, houses) \in Nat /\ HotelsOn(rest, houses) \in Nat
      BY <2>2, <2>3, CountsAreNat
    <2> QED BY <1>1, <2>1, <2>3, <2>5, <2>6, <2>7, <2>8 DEF SupplyConserved
  <1>11. CASE ~(BuildHouse(p) \/ BuildHotel(p) \/ SellHouse(p) \/ SellHotel(p) \/ DeclareBankrupt(p))
    <2>1. UNCHANGED buildings
      BY <1>11 DEF Decision, EndPreRoll, EndOnUnowned, EndPostRoll, EndOutOfTurn, RollDice,
             StayInJail, ThirdDouble, Move, PayBail, BuyProperty, Mortgage, Unmortgage,
             SellProperty, AuctionMove, MakeOffer, AcceptTrade, DeclineTrade
    <2> QED BY <1>3, <2>1
  <1> QED BY <1>6, <1>7, <1>8, <1>9, <1>10, <1>11

\* No house and no hotel is ever made or lost, on any board with any supply.
THEOREM BuildingsConserved == Spec => []SupplyConserved
  <1>1. Init => SupplyConserved
    <2> SUFFICES ASSUME Init PROVE SupplyConserved
      OBVIOUS
    <2>1. {b \in Props \X (1 .. MaxHouses) : b[2] <= houses[b[1]] /\ houses[b[1]] <= MaxHouses} = {}
      BY DEF Init
    <2>2. {q \in Props : houses[q] = Hotel} = {}
      BY AmountAssumption DEF AmountAssumption, Init, Hotel
    <2>3. HousesOn(Props, houses) = 0 /\ HotelsOn(Props, houses) = 0
      BY <2>1, <2>2, FS_EmptySet DEF HousesOn, HotelsOn
    <2> QED BY <2>3, AmountAssumption DEF AmountAssumption, Init, SupplyConserved
  <1>2. EngineInv /\ EngineInv' /\ SupplyConserved /\ [Next]_vars => SupplyConserved'
    <2> SUFFICES ASSUME EngineInv, EngineInv', SupplyConserved, [Next]_vars PROVE SupplyConserved'
      OBVIOUS
    <2>1. CASE UNCHANGED vars
      BY <2>1 DEF vars, buildings, SupplyConserved
    <2>2. CASE Next
      BY <2>2, SupplyStep DEF Next
    <2> QED BY <2>1, <2>2
  <1> QED BY <1>1, <1>2, EngineSound, PTL DEF Spec
=============================================================================
