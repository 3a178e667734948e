CONSTANTS
    M = 4
    P = 2
    N = 8
    Value <- MCValue
    ByPriority = TRUE
SPECIFICATION FairSpec
INVARIANT TypeOK
INVARIANT SegmentsDisjoint
INVARIANT ScansInRange
INVARIANT OrderedElsewhere
INVARIANT RoomLeft
INVARIANT PrintsSorted
PROPERTY Ends
CHECK_DEADLOCK FALSE
