CONSTANTS
    Node = {1, 2, 3}
    NULL = NULL
    Interval <- Intervals
    TimeMod = 6
    StartTimes = {0, 4}
    MaxTicks = 3
    DebugBuilds = {TRUE, FALSE}
    CharIsSigned = TRUE
    CarefulClient = TRUE

SPECIFICATION Spec

INVARIANTS
    TypeOK
    ListHoldsRegistered
    SortedByWakeup
    PassServesEveryDueTask

PROPERTIES
    PassEnds
