\* Three players, one round: trades, auctions, debts, and play after a bankruptcy.
SPECIFICATION Spec
CONSTANTS
    a = a
    b = b
    c = c
    None = None
    Players = {a, b, c}
    TurnOrder <- ThreeSeats
    NumSquares = 4
    Props <- Streets
    Group <- TwoGroups
    Price <- StreetPrice
    MortgageValue <- StreetMortgage
    HousePrice <- StreetHouse
    RentTable <- HighRent
    JailSquare = 3
    GoToJail = 3
    Tax <- NoTax
    Dice = {1, 2}
    GoSalary = 0
    Bail = 10
    MaxJailTurns = 2
    MaxHouses = 1
    HouseSupply = 1
    HotelSupply = 1
    StartingCash = 130
    TradeQuarters = {4}
    BidIncrements = {120}
    MaxRounds = 1
\* The game is over.
CHECK_DEADLOCK FALSE
INVARIANTS
    OwnershipAgrees
    DebtSound
    AuctionSound
    EliminatedIsOut
PROPERTIES
    OnlyByConsent
    EveryMoveDescends
