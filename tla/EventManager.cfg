CONSTANTS
    Event = {e1, e2}
    Callback = {c1, c2}
    NULL = NULL
    Capacity = 3
    MaxDepth = 2

SPECIFICATION Spec

INVARIANTS
    TypeOK
    ChainsApart
    PendingLiesAhead
    WalkKeepsToItsEvent

PROPERTIES
    ImplementsSubscriptions

SYMMETRY Symmetry
