SPECIFICATION Spec
CONSTANTS
    Items = {a, b}
    Capacity <- MCCapacity
    MaxPush = 3
    NoItem = NoItem
    Word = 256
INVARIANT
    SizeWithinCapacity
