CONSTANTS
    Svc = {1, 2, 3}
    NoService = NoService
    Dependencies <- ChainAndCircle
    Timeout = 1
    MaxCalls = 3
    LastTick = 4

SPECIFICATION Spec

\* The program may stop making calls.
CHECK_DEADLOCK FALSE

INVARIANTS
    TypeOK
    DependencyFirst
    OutcomeIsAnnounced

PROPERTIES
    AwaitEnds
