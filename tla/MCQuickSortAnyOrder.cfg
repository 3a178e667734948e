CONSTANTS
    M = 4
    P = 2
    N = 8
    Value <- MCValue
    ByPriority = FALSE
SPECIFICATION Spec
INVARIANT PrintsSorted
CHECK_DEADLOCK FALSE
