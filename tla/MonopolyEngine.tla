--------------------------- MODULE MonopolyEngine ---------------------------
(* The rules engine of the AI Monopoly worker: MonopolyEnv with its players, *)
(* properties, turn phases, auctions, trade offers and rent debts.  A step   *)
(* is one call of MonopolyEnv.step with any action of get_allowed_actions:   *)
(* whatever the agents and the fixed bots choose is a behaviour of Spec.     *)
(* The board, its prices and its supplies are parameters.                    *)
EXTENDS Integers, Sequences, FiniteSets

CONSTANTS
    Players, TurnOrder,   \* the seats, and the order reset() shuffled them into
    None,                 \* no player, no property
    NumSquares,           \* 40: squares 0 (GO) .. NumSquares - 1
    Props, Group,         \* the purchasable squares and their colour groups
    Price, MortgageValue, HousePrice, RentTable,
    JailSquare, GoToJail, Tax,    \* Tax: tax square -> amount
    Dice, GoSalary, Bail, MaxJailTurns,
    MaxHouses, HouseSupply, HotelSupply,
    StartingCash, TradeQuarters,  \* 3, 4 and 5 quarters of the price
    BidIncrements, MaxRounds

N == Len(TurnOrder)
Hotel == MaxHouses + 1
Squares == 0 .. NumSquares - 1

\* The shape of constants.py: a board of the engine's kind, any size.
ASSUME BoardAssumption ==
    /\ IsFiniteSet(Players) /\ None \notin Players /\ None \notin Props
    /\ N \in Nat \ {0, 1}
    /\ TurnOrder \in [1 .. N -> Players]
    /\ \A p \in Players : \E i \in 1 .. N : TurnOrder[i] = p
    /\ \A i, j \in 1 .. N : TurnOrder[i] = TurnOrder[j] => i = j
    /\ NumSquares \in Nat \ {0}
    /\ Props \subseteq Squares /\ IsFiniteSet(Props)
    /\ JailSquare \in Squares \ Props /\ GoToJail \in Squares \ Props
    /\ DOMAIN Tax \subseteq Squares \ Props
    /\ \A s \in DOMAIN Tax : Tax[s] \in Nat

\* Amounts of money and counts are natural numbers; a bid raises the price.
ASSUME AmountAssumption ==
    /\ Price \in [Props -> Nat] /\ MortgageValue \in [Props -> Nat]
    /\ HousePrice \in [Props -> Nat]
    /\ \A q \in Props : \A k \in 1 .. 6 : RentTable[q][k] \in Nat
    /\ Dice \subseteq Nat /\ TradeQuarters \subseteq Nat
    /\ BidIncrements \subseteq Nat \ {0}
    /\ GoSalary \in Nat /\ Bail \in Nat /\ MaxJailTurns \in Nat \ {0}
    /\ MaxHouses \in 1 .. 4 /\ HouseSupply \in Nat /\ HotelSupply \in Nat
    /\ StartingCash \in Nat /\ MaxRounds \in Nat \ {0}

VARIABLES
    cash, position, inJail, jailTurns, bankrupt, held,      \* per player
    owner, mortgaged, houses, isMonopoly,                   \* per property
    phase, turn, round, hasRolled, doubles, extraRoll,
    outOfTurn,      \* out_of_turn_pids, which keeps turn order and is only shortened
    trades,         \* pending_trades: the one offer a player may have out
    auction, debt, housesAvailable, hotelsAvailable, done

money == <<cash, debt>>
jail == <<inJail, jailTurns>>
estate == <<owner, held, mortgaged, isMonopoly>>
buildings == <<houses, housesAvailable, hotelsAvailable>>
flow == <<phase, turn, round, hasRolled, outOfTurn, doubles, extraRoll, trades>>
vars == <<money, position, jail, bankrupt, estate, buildings, flow, auction, done>>

Smaller(a, b) == IF a <= b THEN a ELSE b
Active == TurnOrder[turn]
Alive == {p \in Players : ~bankrupt[p]}
NoDebt == [by |-> None, to |-> None, amount |-> 0]
NoAuction == [prop |-> None, bidders |-> {}, current |-> None,
              high |-> 0, leader |-> None]
NoOffer == [to |-> None, give |-> None, want |-> None, pay |-> 0, ask |-> 0]
Offer == [to : Players \cup {None}, give : Props \cup {None},
          want : Props \cup {None}, pay : Nat, ask : Nat]

\* The first seat after seat i, around the table, whose player is in S.
Seat(p) == CHOOSE i \in 1 .. N : TurnOrder[i] = p
Around(i, d) == ((i + d - 1) % N) + 1
NextSeat(i, S) ==
    Around(i, CHOOSE d \in 1 .. N :
                 /\ TurnOrder[Around(i, d)] \in S
                 /\ \A e \in 1 .. N : TurnOrder[Around(i, e)] \in S => d <= e)

\* Of the players who still answer this turn, the first in turn order.
FirstOf(S) == TurnOrder[NextSeat(N, S)]
Actor == IF phase = "out_of_turn" THEN FirstOf(outOfTurn)
         ELSE IF phase = "auction" THEN auction.current ELSE Active

\* A colour group is a monopoly when one player owns all of it.
Monopolies(own) ==
    [q \in Props |-> \E p \in Players : \A r \in Props :
                         Group[r] = Group[q] => own[r] = p]

\* Houses standing on, and improvement value of, a set of properties; the
\* sums are written as the sizes of sets of single houses and single dollars.
HousesOn(S, h) ==
    Cardinality({b \in S \X (1 .. MaxHouses) :
                     b[2] <= h[b[1]] /\ h[b[1]] <= MaxHouses})
HotelsOn(S, h) == Cardinality({q \in S : h[q] = Hotel})
HalfPrice(q) == HousePrice[q] \div 2
Proceeds(S) == Cardinality(UNION {{q} \X (1 .. houses[q] * HalfPrice(q)) : q \in S})
-----------------------------------------------------------------------------
Init ==
    /\ cash = [p \in Players |-> StartingCash]
    /\ position = [p \in Players |-> 0]
    /\ inJail = [p \in Players |-> FALSE]
    /\ jailTurns = [p \in Players |-> 0]
    /\ bankrupt = [p \in Players |-> FALSE]
    /\ held = [p \in Players |-> {}]
    /\ owner = [q \in Props |-> None]
    /\ mortgaged = [q \in Props |-> FALSE]
    /\ houses = [q \in Props |-> 0]
    /\ isMonopoly = [q \in Props |-> FALSE]
    /\ phase = "pre_roll" /\ turn = 1 /\ round = 0 /\ hasRolled = FALSE
    /\ outOfTurn = {} /\ doubles = 0 /\ extraRoll = FALSE
    /\ trades = [p \in Players |-> NoOffer]
    /\ auction = NoAuction /\ debt = NoDebt
    /\ housesAvailable = HouseSupply /\ hotelsAvailable = HotelSupply
    /\ done = FALSE
-----------------------------------------------------------------------------
(* What get_allowed_actions offers, per kind of action. *)

InDebt(p) == debt.by = p
PreRoll(p) == phase = "pre_roll" /\ p = Active
Landed(p) == phase = "post_roll" /\ p = Active /\ hasRolled
Unrolled(p) == phase = "post_roll" /\ p = Active /\ ~hasRolled
Responding(p) == phase = "out_of_turn" /\ p = FirstOf(outOfTurn)

Unimproved(p) == {q \in Props : owner[q] = p /\ ~mortgaged[q] /\ houses[q] = 0}

\* Mutant: redeeming costs what the mortgage paid.
RedemptionCost_NoInterest(q) == MortgageValue[q]

RedemptionCost(q) == (MortgageValue[q] * 11) \div 10
Redeemable(p) ==
    {q \in Props : owner[q] = p /\ mortgaged[q] /\ cash[p] >= RedemptionCost(q)}
RealEstate == {q \in Props : Group[q] \notin {"railroad", "utility"}}
IsLeastDeveloped(q) ==
    \A r \in Props : Group[r] = Group[q] => houses[q] <= houses[r]
Improvable(p) ==
    {q \in RealEstate : /\ owner[q] = p /\ isMonopoly[q] /\ ~mortgaged[q]
                        /\ IsLeastDeveloped(q) /\ cash[p] >= HousePrice[q]}
HouseSites(p) == {q \in Improvable(p) : houses[q] < MaxHouses /\ housesAvailable > 0}
HotelSites(p) == {q \in Improvable(p) : houses[q] = MaxHouses /\ hotelsAvailable > 0}
WithHouses(p) == {q \in RealEstate : owner[q] = p /\ houses[q] \in 1 .. MaxHouses}
WithHotel(p) ==
    {q \in RealEstate : /\ owner[q] = p /\ houses[q] = Hotel
                        /\ housesAvailable >= MaxHouses}
\* The rescue menu of a debtor: only moves that raise cash.
Rescue(p) == Unimproved(p) \cup WithHouses(p) \cup WithHotel(p)

TradeCash(q, k) == (Price[q] * k) \div 4
Tradable(p) == {q \in Props : owner[q] = p /\ houses[q] = 0}
Targets(p) ==
    IF phase = "out_of_turn" THEN (outOfTurn \ {p}) \cap Alive
    ELSE Alive \ {p}
\* What pid asks t for, offers t, or offers in exchange for t's property.
BuyOffer(t, q, k) == [NoOffer EXCEPT !.to = t, !.want = q, !.pay = TradeCash(q, k)]
SellOffer(t, q, k) == [NoOffer EXCEPT !.to = t, !.give = q, !.ask = TradeCash(q, k)]
ExchangeOffer(t, g, w) == [NoOffer EXCEPT !.to = t, !.give = g, !.want = w]
BuyOffers(p, t) ==
    {o \in {BuyOffer(t, q, k) : q \in Tradable(t), k \in TradeQuarters} :
        cash[p] >= o.pay}
SellOffers(p, t) ==
    {o \in {SellOffer(t, q, k) : q \in Tradable(p), k \in TradeQuarters} :
        cash[t] >= o.ask}
ExchangeOffers(p, t) ==
    {ExchangeOffer(t, g, w) : g \in Tradable(p), w \in Tradable(t)}
-----------------------------------------------------------------------------
(* Turn and phase advancement. *)


\* Mutant: the offers of the turn stay open.
NextPlayer_KeepsOffers(broke) ==
    LET next == NextSeat(turn, {p \in Players : ~broke[p]})
    IN  /\ turn' = next
        /\ round' = IF next <= turn THEN round + 1 ELSE round
        /\ phase' = "pre_roll" /\ hasRolled' = FALSE /\ outOfTurn' = {}
        /\ trades' = trades
        /\ doubles' = 0 /\ extraRoll' = FALSE

NextPlayer(broke) ==
    LET next == NextSeat(turn, {p \in Players : ~broke[p]})
    IN  /\ turn' = next
        /\ round' = IF next <= turn THEN round + 1 ELSE round
        /\ phase' = "pre_roll" /\ hasRolled' = FALSE /\ outOfTurn' = {}
        /\ trades' = [p \in Players |-> NoOffer]
        /\ doubles' = 0 /\ extraRoll' = FALSE

Responders == Alive \ {Active}

StartOutOfTurn ==
    IF Responders = {} THEN NextPlayer(bankrupt)
    ELSE /\ phase' = "out_of_turn" /\ outOfTurn' = Responders
         /\ doubles' = 0 /\ extraRoll' = FALSE
         /\ UNCHANGED <<turn, round, hasRolled, trades>>

RollAgain ==
    /\ extraRoll' = FALSE /\ phase' = "post_roll" /\ hasRolled' = FALSE
    /\ UNCHANGED <<turn, round, outOfTurn, doubles, trades>>

FinishLanding ==
    IF extraRoll /\ ~inJail[Active] THEN RollAgain ELSE StartOutOfTurn

EndPreRoll(p) ==
    /\ PreRoll(p)
    /\ phase' = "post_roll" /\ hasRolled' = FALSE
    /\ UNCHANGED <<turn, round, outOfTurn, doubles, extraRoll, trades>>
    /\ UNCHANGED <<money, position, jail, bankrupt, estate, buildings, auction>>

OnUnowned(p) == position[p] \in Props /\ owner[position[p]] = None

\* Leaving an unowned property unbought puts it up for auction.
EndOnUnowned(p) ==
    /\ Landed(p) /\ ~InDebt(p) /\ OnUnowned(p)
    /\ phase' = "auction"
    /\ auction' = [NoAuction EXCEPT !.prop = position[p], !.bidders = Alive,
                                    !.current = p]
    /\ UNCHANGED <<turn, round, hasRolled, outOfTurn, doubles, extraRoll, trades>>
    /\ UNCHANGED <<money, position, jail, bankrupt, estate, buildings>>


\* Mutant: a debtor may end the turn.
EndPostRoll_Owing(p) ==
    /\ Landed(p) /\ ~OnUnowned(p)
    /\ FinishLanding
    /\ UNCHANGED <<money, position, jail, bankrupt, estate, buildings, auction>>

EndPostRoll(p) ==
    /\ Landed(p) /\ ~InDebt(p) /\ ~OnUnowned(p)
    /\ FinishLanding
    /\ UNCHANGED <<money, position, jail, bankrupt, estate, buildings, auction>>

EndOutOfTurn(p) ==
    /\ Responding(p)
    /\ IF outOfTurn = {p} THEN NextPlayer(bankrupt)
       ELSE /\ outOfTurn' = outOfTurn \ {p}
            /\ UNCHANGED <<phase, turn, round, hasRolled, doubles, extraRoll, trades>>
    /\ UNCHANGED <<money, position, jail, bankrupt, estate, buildings, auction>>
-----------------------------------------------------------------------------
(* Rolling and landing. *)

RentDue(q, total) ==
    LET o == owner[q]
        kin == Cardinality({r \in held[o] : Group[r] = Group[q]})
    IN  CASE mortgaged[q] -> 0
          [] Group[q] = "railroad" -> RentTable[q][Smaller(kin, 4)]
          [] Group[q] = "utility" ->
               RentTable[q][IF kin = 1 THEN 1 ELSE 2] * total
          [] houses[q] = 0 /\ q \in RealEstate ->
               RentTable[q][1] * (IF isMonopoly[q] THEN 2 ELSE 1)
          [] OTHER -> RentTable[q][houses[q] + 1]

GoTo(p, square, locked) ==
    /\ position' = [position EXCEPT ![p] = square]
    /\ inJail' = [inJail EXCEPT ![p] = locked]
    /\ jailTurns' = [jailTurns EXCEPT ![p] = 0]

StayInJail(p) ==
    /\ Unrolled(p) /\ inJail[p] /\ jailTurns[p] + 1 < MaxJailTurns
    /\ \E d1, d2 \in Dice : d1 # d2
    /\ hasRolled' = TRUE
    /\ jailTurns' = [jailTurns EXCEPT ![p] = @ + 1]
    /\ UNCHANGED <<phase, turn, round, outOfTurn, doubles, extraRoll, trades>>
    /\ UNCHANGED <<money, position, inJail, bankrupt, estate, buildings, auction>>

ThirdDouble(p) ==
    /\ Unrolled(p) /\ ~inJail[p] /\ doubles + 1 >= 3
    /\ GoTo(p, JailSquare, TRUE)
    /\ hasRolled' = TRUE /\ doubles' = 0 /\ extraRoll' = FALSE
    /\ UNCHANGED <<phase, turn, round, outOfTurn, trades>>
    /\ UNCHANGED <<money, bankrupt, estate, buildings, auction>>

LandInJail(p, square, purse) ==
    /\ square = GoToJail
    /\ GoTo(p, JailSquare, TRUE)
    /\ doubles' = 0 /\ extraRoll' = FALSE
    /\ cash' = [cash EXCEPT ![p] = purse]
    /\ UNCHANGED debt


\* Mutant: the tax is taken in full.
LandOnTax_Uncapped(p, square, purse) ==
    /\ square \in DOMAIN Tax
    /\ GoTo(p, square, FALSE)
    /\ cash' = [cash EXCEPT ![p] = purse - Tax[square]]
    /\ UNCHANGED debt

LandOnTax(p, square, purse) ==
    /\ square \in DOMAIN Tax
    /\ GoTo(p, square, FALSE)
    /\ cash' = [cash EXCEPT ![p] = purse - Smaller(Tax[square], purse)]
    /\ UNCHANGED debt

\* Rent is paid as far as the cash goes; the rest becomes a debt to the owner.
LandOnRent(p, square, purse, total) ==
    /\ square \in Props /\ owner[square] \notin {None, p}
    /\ GoTo(p, square, FALSE)
    /\ LET rent == RentDue(square, total)
           paid == Smaller(rent, purse)
           o == owner[square]
       IN  /\ cash' = [cash EXCEPT ![p] = purse - paid, ![o] = @ + paid]
           /\ debt' = IF rent = paid THEN debt
                      ELSE [by |-> p, to |-> o, amount |-> rent - paid]

LandFree(p, square, purse) ==
    /\ square # GoToJail /\ square \notin DOMAIN Tax
    /\ square \in Props => owner[square] \in {None, p}
    /\ GoTo(p, square, FALSE)
    /\ cash' = [cash EXCEPT ![p] = purse]
    /\ UNCHANGED debt

\* A player who leaves jail by waiting pays the bail as far as the cash goes.
Move(p, d1, d2) ==
    LET double == d1 = d2 /\ ~inJail[p]
        fee == IF inJail[p] /\ d1 # d2 THEN Smaller(Bail, cash[p]) ELSE 0
        square == (position[p] + d1 + d2) % NumSquares
        salary == IF square < position[p] THEN GoSalary ELSE 0
        purse == cash[p] - fee + salary
    IN  /\ Unrolled(p)
        /\ IF inJail[p] THEN d1 = d2 \/ jailTurns[p] + 1 >= MaxJailTurns
           ELSE d1 = d2 => doubles + 1 < 3
        /\ hasRolled' = TRUE
        /\ \/ LandInJail(p, square, purse)
           \/ /\ doubles' = IF double THEN doubles + 1 ELSE 0
              /\ extraRoll' = double
              /\ \/ LandOnTax(p, square, purse)
                 \/ LandOnRent(p, square, purse, d1 + d2)
                 \/ LandFree(p, square, purse)
        /\ UNCHANGED <<phase, turn, round, outOfTurn, trades>>
        /\ UNCHANGED <<bankrupt, estate, buildings, auction>>

RollDice(p) == StayInJail(p) \/ ThirdDouble(p) \/ \E d1, d2 \in Dice : Move(p, d1, d2)

PayBail(p) ==
    /\ PreRoll(p) \/ Unrolled(p)
    /\ inJail[p] /\ cash[p] >= Bail
    /\ cash' = [cash EXCEPT ![p] = @ - Bail]
    /\ inJail' = [inJail EXCEPT ![p] = FALSE]
    /\ jailTurns' = [jailTurns EXCEPT ![p] = 0]
    /\ UNCHANGED <<debt, position, bankrupt, estate, buildings, flow, auction>>
-----------------------------------------------------------------------------
(* Money, mortgages and buildings. *)

\* Cash raised by a debtor goes to the creditor first (_settle_debt).
Raise(p, amount) ==
    LET purse == cash[p] + amount
        paid == Smaller(purse, debt.amount)
    IN  IF ~InDebt(p) THEN cash' = [cash EXCEPT ![p] = purse] /\ UNCHANGED debt
        ELSE /\ cash' = [cash EXCEPT ![p] = purse - paid, ![debt.to] = @ + paid]
             /\ debt' = IF paid = debt.amount THEN NoDebt
                        ELSE [debt EXCEPT !.amount = @ - paid]

Acquire(p, q) ==
    /\ owner' = [owner EXCEPT ![q] = p]
    /\ held' = [held EXCEPT ![p] = @ \cup {q}]
    /\ isMonopoly' = Monopolies(owner')

BuyProperty(p) ==
    /\ Landed(p) /\ ~InDebt(p) /\ OnUnowned(p) /\ cash[p] >= Price[position[p]]
    /\ Acquire(p, position[p])
    /\ cash' = [cash EXCEPT ![p] = @ - Price[position[p]]]
    /\ UNCHANGED <<debt, mortgaged, position, jail, bankrupt, buildings, flow, auction>>

Mortgage(p) == \E q \in Unimproved(p) :
    /\ PreRoll(p) \/ Landed(p)
    /\ mortgaged' = [mortgaged EXCEPT ![q] = TRUE]
    /\ Raise(p, MortgageValue[q])
    /\ UNCHANGED <<owner, held, isMonopoly, position, jail, bankrupt, buildings, flow, auction>>

Unmortgage(p) == \E q \in Redeemable(p) :
    /\ PreRoll(p)
    /\ mortgaged' = [mortgaged EXCEPT ![q] = FALSE]
    /\ cash' = [cash EXCEPT ![p] = @ - RedemptionCost(q)]
    /\ UNCHANGED <<debt, owner, held, isMonopoly, position, jail, bankrupt, buildings, flow, auction>>

SellProperty(p) == \E q \in Unimproved(p) :
    /\ PreRoll(p) \/ Landed(p)
    /\ owner' = [owner EXCEPT ![q] = None]
    /\ held' = [held EXCEPT ![p] = @ \ {q}]
    /\ isMonopoly' = Monopolies(owner')
    /\ Raise(p, MortgageValue[q])
    /\ UNCHANGED <<mortgaged, position, jail, bankrupt, buildings, flow, auction>>

BuildHouse(p) == \E q \in HouseSites(p) :
    /\ PreRoll(p)
    /\ houses' = [houses EXCEPT ![q] = @ + 1]
    /\ housesAvailable' = housesAvailable - 1
    /\ cash' = [cash EXCEPT ![p] = @ - HousePrice[q]]
    /\ UNCHANGED <<hotelsAvailable, debt, position, jail, bankrupt, estate, flow, auction>>

BuildHotel(p) == \E q \in HotelSites(p) :
    /\ PreRoll(p)
    /\ houses' = [houses EXCEPT ![q] = Hotel]
    /\ hotelsAvailable' = hotelsAvailable - 1
    /\ housesAvailable' = housesAvailable + MaxHouses
    /\ cash' = [cash EXCEPT ![p] = @ - HousePrice[q]]
    /\ UNCHANGED <<debt, position, jail, bankrupt, estate, flow, auction>>

SellHouse(p) == \E q \in WithHouses(p) :
    /\ PreRoll(p) \/ (Landed(p) /\ InDebt(p))
    /\ houses' = [houses EXCEPT ![q] = @ - 1]
    /\ housesAvailable' = housesAvailable + 1
    /\ Raise(p, HalfPrice(q))
    /\ UNCHANGED <<hotelsAvailable, position, jail, bankrupt, estate, flow, auction>>


\* Mutant: the four houses are not taken from the bank.
SellHotel_FreeHouses(p) == \E q \in WithHotel(p) :
    /\ PreRoll(p) \/ (Landed(p) /\ InDebt(p))
    /\ houses' = [houses EXCEPT ![q] = MaxHouses]
    /\ hotelsAvailable' = hotelsAvailable + 1
    /\ Raise(p, HalfPrice(q))
    /\ UNCHANGED <<housesAvailable, position, jail, bankrupt, estate, flow, auction>>

SellHotel(p) == \E q \in WithHotel(p) :
    /\ PreRoll(p) \/ (Landed(p) /\ InDebt(p))
    /\ houses' = [houses EXCEPT ![q] = MaxHouses]
    /\ hotelsAvailable' = hotelsAvailable + 1
    /\ housesAvailable' = housesAvailable - MaxHouses
    /\ Raise(p, HalfPrice(q))
    /\ UNCHANGED <<position, jail, bankrupt, estate, flow, auction>>

\* The improvements are sold, the debt is settled from all the cash, and what
\* is left goes with the properties to the creditor, or back to the bank.
DeclareBankrupt(p) ==
    LET purse == cash[p] + Proceeds(held[p])
        paid == Smaller(purse, debt.amount)
        heir == IF bankrupt[debt.to] THEN None ELSE debt.to
        lost == held[p]
    IN  /\ Landed(p) /\ InDebt(p) /\ Rescue(p) = {}
        /\ houses' = [q \in Props |-> IF q \in lost THEN 0 ELSE houses[q]]
        /\ housesAvailable' = housesAvailable + HousesOn(lost, houses)
        /\ hotelsAvailable' = hotelsAvailable + HotelsOn(lost, houses)
        /\ bankrupt' = [bankrupt EXCEPT ![p] = TRUE]
        /\ cash' = [cash EXCEPT ![p] = 0,
                        ![debt.to] = @ + (IF heir = None THEN paid ELSE purse)]
        /\ owner' = [q \in Props |-> IF q \in lost THEN heir ELSE owner[q]]
        /\ mortgaged' = [q \in Props |-> mortgaged[q] /\ ~(q \in lost /\ heir = None)]
        /\ held' = [o \in Players |-> IF o = p THEN {}
                                      ELSE IF o = heir THEN held[o] \cup lost ELSE held[o]]
        /\ isMonopoly' = Monopolies(owner')
        /\ debt' = NoDebt
        /\ NextPlayer(bankrupt')
        /\ UNCHANGED <<position, jail, auction>>
-----------------------------------------------------------------------------
(* Auctions. *)

\* After pid's move: the next eligible bidder, or the end of the auction.
AuctionGoesOn(p, now) ==
    LET eligible == now.bidders \ {now.leader} IN
    /\ eligible # {}
    /\ auction' = [now EXCEPT !.current = TurnOrder[NextSeat(Seat(p), eligible)]]
    /\ UNCHANGED <<cash, owner, held, isMonopoly, flow>>

FinishAuction(now) ==
    /\ now.bidders \ {now.leader} = {}
    /\ IF now.leader = None THEN UNCHANGED <<cash, owner, held, isMonopoly>>
       ELSE /\ Acquire(now.leader, now.prop)
            /\ cash' = [cash EXCEPT ![now.leader] = @ - now.high]
    /\ auction' = NoAuction
    /\ FinishLanding

PassBid(p) == [auction EXCEPT !.bidders = @ \ {p}]
RaiseBid(p, inc) == [auction EXCEPT !.high = @ + inc, !.leader = p]


\* Mutant: the increment, not the bid, is compared with the cash.
AuctionMove_Unchecked(p) ==
    /\ phase = "auction" /\ p = auction.current
    /\ \E now \in {PassBid(p)} \cup
                  {RaiseBid(p, inc) : inc \in {i \in BidIncrements : i <= cash[p]}} :
          AuctionGoesOn(p, now) \/ FinishAuction(now)
    /\ UNCHANGED <<debt, position, jail, bankrupt, mortgaged, buildings>>

AuctionMove(p) ==
    /\ phase = "auction" /\ p = auction.current
    /\ \E now \in {PassBid(p)} \cup
                  {RaiseBid(p, inc) : inc \in {i \in BidIncrements :
                                                   auction.high + i <= cash[p]}} :
          AuctionGoesOn(p, now) \/ FinishAuction(now)
    /\ UNCHANGED <<debt, position, jail, bankrupt, mortgaged, buildings>>
-----------------------------------------------------------------------------
(* Trades. *)


\* Mutant: a pending offer may be replaced by another.
MakeOffer_Again(p) ==
    /\ PreRoll(p) \/ Responding(p)
    /\ \E t \in Targets(p) :
          \E o \in BuyOffers(p, t) \cup SellOffers(p, t) \cup ExchangeOffers(p, t) :
              trades' = [trades EXCEPT ![p] = o]
    /\ UNCHANGED <<phase, turn, round, hasRolled, outOfTurn, doubles, extraRoll>>
    /\ UNCHANGED <<money, position, jail, bankrupt, estate, buildings, auction>>

MakeOffer(p) ==
    /\ PreRoll(p) \/ Responding(p)
    /\ trades[p] = NoOffer
    /\ \E t \in Targets(p) :
          \E o \in BuyOffers(p, t) \cup SellOffers(p, t) \cup ExchangeOffers(p, t) :
              trades' = [trades EXCEPT ![p] = o]
    /\ UNCHANGED <<phase, turn, round, hasRolled, outOfTurn, doubles, extraRoll>>
    /\ UNCHANGED <<money, position, jail, bankrupt, estate, buildings, auction>>


\* Mutant: any open offer may be answered.
Senders_Any(p) == {s \in Players \ {p} : trades[s] # NoOffer}

Senders(p) == {s \in Players \ {p} : trades[s].to = p}
Incoming(p) == TurnOrder[NextSeat(Seat(p), Senders(p))]

\* An offer may be stale when it is accepted: everything is checked again.
StillValid(s, r, o) ==
    /\ ~bankrupt[s] /\ ~bankrupt[r]
    /\ cash[s] >= o.pay /\ cash[r] >= o.ask
    /\ o.give # None => owner[o.give] = s /\ houses[o.give] = 0 /\ o.give \in held[s]
    /\ o.want # None => owner[o.want] = r /\ houses[o.want] = 0 /\ o.want \in held[r]


\* Mutant: the property stays in the sender's list.
Exchange_KeepsListing(s, r, o) ==
    /\ cash' = [cash EXCEPT ![s] = @ - o.pay + o.ask, ![r] = @ + o.pay - o.ask]
    /\ owner' = [q \in Props |-> IF q = o.give THEN r
                                 ELSE IF q = o.want THEN s ELSE owner[q]]
    /\ held' = [held EXCEPT ![s] = @ \cup ({o.want} \ {None}),
                            ![r] = (@ \ {o.want}) \cup ({o.give} \ {None})]
    /\ isMonopoly' = Monopolies(owner')

Exchange(s, r, o) ==
    /\ cash' = [cash EXCEPT ![s] = @ - o.pay + o.ask, ![r] = @ + o.pay - o.ask]
    /\ owner' = [q \in Props |-> IF q = o.give THEN r
                                 ELSE IF q = o.want THEN s ELSE owner[q]]
    /\ held' = [held EXCEPT ![s] = (@ \ {o.give}) \cup ({o.want} \ {None}),
                            ![r] = (@ \ {o.want}) \cup ({o.give} \ {None})]
    /\ isMonopoly' = Monopolies(owner')

Answering(p) == (PreRoll(p) \/ Responding(p)) /\ Senders(p) # {}

AcceptTrade(p) ==
    /\ Answering(p)
    /\ LET s == Incoming(p) IN
       /\ trades' = [trades EXCEPT ![s] = NoOffer]
       /\ IF StillValid(s, p, trades[s]) THEN Exchange(s, p, trades[s])
          ELSE UNCHANGED <<cash, owner, held, isMonopoly>>
    /\ UNCHANGED <<phase, turn, round, hasRolled, outOfTurn, doubles, extraRoll>>
    /\ UNCHANGED <<debt, position, jail, bankrupt, mortgaged, buildings, auction>>

DeclineTrade(p) ==
    /\ Answering(p)
    /\ trades' = [trades EXCEPT ![Incoming(p)] = NoOffer]
    /\ UNCHANGED <<phase, turn, round, hasRolled, outOfTurn, doubles, extraRoll>>
    /\ UNCHANGED <<money, position, jail, bankrupt, estate, buildings, auction>>
-----------------------------------------------------------------------------
Decision(p) ==
    \/ EndPreRoll(p) \/ EndOnUnowned(p) \/ EndPostRoll(p) \/ EndOutOfTurn(p)
    \/ RollDice(p) \/ PayBail(p) \/ BuyProperty(p)
    \/ Mortgage(p) \/ Unmortgage(p) \/ SellProperty(p)
    \/ BuildHouse(p) \/ BuildHotel(p) \/ SellHouse(p) \/ SellHotel(p)
    \/ DeclareBankrupt(p) \/ AuctionMove(p)
    \/ MakeOffer(p) \/ AcceptTrade(p) \/ DeclineTrade(p)

\* _check_game_over, at the end of every step.
CheckGameOver ==
    done' = (Cardinality({p \in Players : ~bankrupt'[p]}) <= 1 \/ round' >= MaxRounds)

Next == ~done /\ (\E p \in Players : Decision(p)) /\ CheckGameOver

Spec == Init /\ [][Next]_vars
\* The runner asks for actions until the game is done; it never chooses.
FairSpec == Spec /\ WF_vars(Next)
-----------------------------------------------------------------------------
(* Properties. *)

\* Types.  In particular no one's cash is ever negative.
TypeOK ==
    /\ cash \in [Players -> Nat] /\ position \in [Players -> Squares]
    /\ inJail \in [Players -> BOOLEAN] /\ jailTurns \in [Players -> Nat]
    /\ bankrupt \in [Players -> BOOLEAN] /\ held \in [Players -> SUBSET Props]
    /\ owner \in [Props -> Players \cup {None}]
    /\ mortgaged \in [Props -> BOOLEAN] /\ houses \in [Props -> 0 .. Hotel]
    /\ isMonopoly \in [Props -> BOOLEAN]
    /\ phase \in {"pre_roll", "post_roll", "out_of_turn", "auction"}
    /\ turn \in 1 .. N /\ round \in Nat /\ hasRolled \in BOOLEAN
    /\ outOfTurn \in SUBSET Players /\ doubles \in 0 .. 2 /\ extraRoll \in BOOLEAN
    /\ trades \in [Players -> Offer]
    /\ auction \in [prop : Props \cup {None}, bidders : SUBSET Players,
                    current : Players \cup {None}, high : Nat,
                    leader : Players \cup {None}]
    /\ debt \in [by : Players \cup {None}, to : Players \cup {None}, amount : Nat]
    /\ housesAvailable \in Nat /\ hotelsAvailable \in Nat /\ done \in BOOLEAN

\* The engine records ownership twice, in Property.owner and in
\* Player.properties, and caches who has a monopoly (double rent, building):
\* purchases, auctions, trades, sales and bankruptcies keep the three in step.
OwnershipAgrees ==
    /\ \A p \in Players : held[p] = {q \in Props : owner[q] = p}
    /\ isMonopoly = Monopolies(owner)

\* Houses and hotels on the board and in the bank add up to the supply,
\* through building, downgrading a hotel to houses and bankruptcies.
SupplyConserved ==
    /\ housesAvailable + HousesOn(Props, houses) = HouseSupply
    /\ hotelsAvailable + HotelsOn(Props, houses) = HotelSupply

\* A debt is the active player's, after the roll, to another player who is
\* still in the game, and the debtor has no cash left.
DebtSound ==
    debt # NoDebt =>
        /\ phase = "post_roll" /\ hasRolled /\ debt.by = Active
        /\ debt.to \in Alive \ {Active} /\ debt.amount > 0
        /\ cash[debt.by] = 0

\* During an auction the property is the bank's, the one asked is a bidder who
\* does not lead, and the leader can pay the bid: it is charged unchecked.
AuctionSound ==
    phase = "auction" =>
        /\ auction.prop \in Props /\ owner[auction.prop] = None
        /\ auction.bidders \subseteq Alive
        /\ auction.current \in auction.bidders \ {auction.leader}
        /\ auction.leader # None =>
              auction.leader \in auction.bidders /\ auction.high <= cash[auction.leader]

\* A bankrupt player is out of the game: has nothing, is never waited for, and
\* is no party to an offer.
EliminatedIsOut ==
    \A p \in Players : bankrupt[p] =>
        /\ cash[p] = 0 /\ held[p] = {}
        /\ Actor # p
        /\ p \notin outOfTurn
        /\ trades[p] = NoOffer /\ \A s \in Players : trades[s].to # p

\* The player whose turn it is plays, and a turn that waits waits for someone.
TableSound ==
    /\ ~bankrupt[Active]
    /\ phase = "out_of_turn" => outOfTurn # {}

EngineInv ==
    /\ TypeOK /\ OwnershipAgrees /\ DebtSound /\ AuctionSound
    /\ EliminatedIsOut /\ TableSound

\* Nobody loses money or property by another's move, except by an offer of
\* their own that is accepted or by a bid of their own that wins.
OnlyByConsent ==
    [][\A p \in Players \ {Actor} :
          /\ cash'[p] < cash[p] =>
                \/ trades[p].to = Actor /\ cash[p] - cash'[p] <= trades[p].pay
                \/ auction.leader = p /\ cash[p] - cash'[p] = auction.high
          /\ held[p] \ held'[p] # {} =>
                trades[p].to = Actor /\ held[p] \ held'[p] = {trades[p].give}]_vars

\* Whatever the policies choose, the game ends: no menu can be walked in a
\* circle (mortgage and redeem, build and sell, offer and decline).
GameEnds == <>done

=============================================================================
