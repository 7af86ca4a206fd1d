\* The three lanes of a node.  A node that was terminated stops.
SPECIFICATION FairSpec
CONSTANTS
    Lane <- ThreeLanes
    Permits <- LanePermits
CHECK_DEADLOCK FALSE
INVARIANTS
    TypeOK
    WorkShielded
PROPERTIES
    WorkDrained
    DrainCompletes
