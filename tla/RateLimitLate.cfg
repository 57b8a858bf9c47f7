SPECIFICATION Spec
CONSTANTS
    r1 = r1
    r2 = r2
    r3 = r3
    r4 = r4
    Requests <- FourRequests
    Limit = 2
    TicksPerSecond = 2
    SecondsPerMinute = 2
    LastMinute = 1
SYMMETRY RequestSymmetry
INVARIANTS
    AtMostLimitPerMinute
CHECK_DEADLOCK FALSE
