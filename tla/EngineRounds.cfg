\* Two players, two rounds: building, jail, taxes and salaries, to the end.
SPECIFICATION FairSpec
CONSTANTS
    a = a
    b = b
    c = c
    None = None
    Players = {a, b}
    TurnOrder <- TwoSeats
    NumSquares = 4
    Props <- Streets
    Group <- TwoGroups
    Price <- StreetPrice
    MortgageValue <- StreetMortgage
    HousePrice <- StreetHouse
    RentTable <- LowRent
    JailSquare = 3
    GoToJail = 3
    Tax <- CornerTax
    Dice = {1, 2}
    GoSalary = 10
    Bail = 10
    MaxJailTurns = 2
    MaxHouses = 1
    HouseSupply = 1
    HotelSupply = 1
    StartingCash = 130
    TradeQuarters = {}
    BidIncrements = {120}
    MaxRounds = 2
\* The game is over.
CHECK_DEADLOCK FALSE
INVARIANTS
    TypeOK
    SupplyConserved
PROPERTIES
    GameEnds
