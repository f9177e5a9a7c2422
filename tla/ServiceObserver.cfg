CONSTANTS
    Svc = {1, 2, 3}
    NoService = NoService
    Dependencies <- ChainAndCircle
    Timeout = 1
    MaxCalls = 4
    LastTick = 4

SPECIFICATION Spec

CHECK_DEADLOCK FALSE

INVARIANTS
    EveryChangeIsAnnounced
