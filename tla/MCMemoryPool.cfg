SPECIFICATION Spec
CONSTANTS
    BlockCount = 3
    Threads = {t1, t2}
    Allocators = {t1, t2}
    BatchAllocators = {t1, t2}
    BatchesAlone = TRUE
    MaxBatch = 2
    MaxCalls = 5
SYMMETRY ThreadSymmetry
INVARIANTS
    FreeListIntact
    CountFollows
    PointersValid
PROPERTIES
    ImplementsPool
CHECK_DEADLOCK FALSE
