CONSTANTS
    Node = {1, 2, 3}
    NULL = NULL
    Interval <- Intervals
    TimeMod = 8
    StartTimes = {0}
    MaxTicks = 4
    DebugBuilds = {FALSE}
    CharIsSigned = TRUE
    CarefulClient = FALSE

SPECIFICATION Spec

INVARIANTS
    ListHoldsRegistered
