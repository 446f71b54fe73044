SPECIFICATION Spec
CONSTANTS
    i1 = i1
    i2 = i2
    x = x
    Instruments = {i1, i2}
    Strangers = {x}
    Prices <- MCPrices
    Quantities <- MCQuantities
    History <- MCHistory
    CheckSequence = TRUE
    Slots = {s1, s2}
    Null = Null
    NoMessage = NoMessage
    MaxMessages = 1
PROPERTIES
    StopEndsRun
CHECK_DEADLOCK FALSE
