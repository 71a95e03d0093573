SPECIFICATION Spec
CONSTANTS
    HeapSize = 37
    HEADER = 4
    MIN_BLOCK_SIZE = 2
    ALIGN = 2
    WORD = 64
    Requests = {1, 3, 4, 7, 12, 19}
    NULL = NULL
    Preempted = FALSE
CHECK_DEADLOCK FALSE
INVARIANTS TilesHeap InUseIsOwned Coalesced
PROPERTY ImplementsAllocator
