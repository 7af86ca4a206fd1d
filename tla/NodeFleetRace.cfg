\* The three lanes of a node.
SPECIFICATION FairSpec
CONSTANTS
    Lane <- ThreeLanes
    Permits <- LanePermits
CHECK_DEADLOCK FALSE
PROPERTIES
    RaceIsCaught
