SPECIFICATION Spec
CONSTANTS
    Objects = {o1, o2, o3, o4, o5}
    Threads = {t1, t2}
    Requests <- MCRequests
    MaxCacheSize = 5
    MaxBatchSize = 2
    DefaultShrink = 4
    MaxCount = 2
    Word = 256
SYMMETRY PoolSymmetry
INVARIANTS
    OneOwner
    CacheBounded
    DepletionJustified
    ExitReturnsAll
CHECK_DEADLOCK FALSE
