CONSTANTS
    Node = {1, 2, 3}
    NULL = NULL
    Interval <- Intervals
    TimeMod = 8
    StartTimes = {0}
    MaxTicks = 4
    DebugBuilds = {TRUE}
    CharIsSigned = FALSE
    CarefulClient = TRUE

SPECIFICATION Spec

INVARIANTS
    SortedByWakeup
