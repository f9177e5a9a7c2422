\* Three slots and three values: the write index wraps with the buffer empty,
\* part full and full, and three unread elements can be told apart.
CONSTANTS
    Size = 3
    Value = {v1, v2, v3}
    NoValue = NoValue
    NoSlot = NoSlot

SPECIFICATION Spec

INVARIANTS
    TypeOK
    FilledSlotIsFree
    HeldElementIntact

PROPERTIES
    ReadIndexMovesWithReads
    ImplementsFifo
