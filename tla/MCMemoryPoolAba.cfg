SPECIFICATION Spec
CONSTANTS
    BlockCount = 3
    Threads = {t1, t2}
    Allocators = {t1, t2}
    BatchAllocators = {t1, t2}
    BatchesAlone = FALSE
    MaxBatch = 2
    MaxCalls = 8
SYMMETRY ThreadSymmetry
INVARIANTS
    FreeListIntact
CHECK_DEADLOCK FALSE
