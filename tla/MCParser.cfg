SPECIFICATION Spec
CONSTANTS
    i1 = i1
    Absent = Absent
    Malformed = Malformed
    NoArray = NoArray
    UNKNOWN = UNKNOWN
    EmptySymbol = EmptySymbol
    Timestamps = {0, 1}
    MAX_LEVELS = 1
    MAX_UPDATES = 2
    RawSlots = {r1, r2}
    Slots = {n1, n2, n3, n4}
    PoolSizes = {2, 4}
    RawQueueCapacity = 2
    QueueCapacity = 2
    Null = Null
    Documents <- MCDocuments
    Feeds <- MCFeeds
    Invalid = Invalid
    NoMessage = NoMessage
INVARIANTS
    ObjectsAccounted
    PoolSuffices
PROPERTIES
    ImplementsLossyFeed
    RawMessagesReturned
CHECK_DEADLOCK FALSE
