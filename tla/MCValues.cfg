SPECIFICATION Spec
CONSTANTS
    Places = 2
    Width = 12
    Minus = Minus
    Dot = Dot
    Texts <- MCTexts
    Operands = {1, 3, 1024, 2047}
    Cells = 3
    Exchanges = {1, 2}
    Characters = {0, 1, 2}
    MaxLength = 3
    Bits = 13
    Nanoseconds = 72
    InstantsPerTick = 2
    InstantsPerNano = 3
    Zeros = {8060, 8150}
    Begins = {0, 1, 2}
    Sleeps = {197, 210, 240}
    Delays = {0, 3, 60}
    Passes = {7, 50}
    MaxNow = 450
    Objects = {o1, o2, o3}
    Handles = {h1, h2}
    Null = Null
    num_cores = 4
    WsUrls = {"ws://k"}
    WssUrls = {"wss://b"}
    IntWidth = 20
    SizeWidth = 24
    Documents <- MCDocuments
    Missing = Missing
    Malformed = Malformed
    Paths = {"a.toml", "b.toml"}
    NoPath = ""
    MaxLoads = 3
INVARIANTS
    ParsedExactly
    PrintedReadsBack
    ChecksDecide
    SameKey
    MeasuredWithinTenth
    OwnedOnce
    LastWordCounts
    ValidUnlessRejected
CHECK_DEADLOCK FALSE
