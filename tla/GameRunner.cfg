\* Two teams, games of up to four moves, uploads of two.
SPECIFICATION FairSpec
CONSTANTS
    None = None
    Seats <- TwoTeams
    Submitted <- TwoTeams
    ActionCeiling = 4
    BatchSize = 2
    DecisionLimit = 1
    PlayLimit = 2
    Worths <- HigherSeatRicher
INVARIANTS
    TypeOK
    RefusedOnlyAtTheLimit
    
    ThirdStrikeEnds
PROPERTIES
    AttemptEnds
\* The attempt is over.
CHECK_DEADLOCK FALSE
