SPECIFICATION Spec
CONSTANTS
    Items = {a, b}
    Capacity <- MCCapacity
    MaxPush = 5
    NoItem = NoItem
    Word = 256
INVARIANTS
    RingInvariant
    NoSlotRace
    CursorDistanceBounded
PROPERTIES
    ImplementsFifo
    EveryItemDelivered
