SPECIFICATION Spec
CONSTANTS
    HeapSize = 31
    HEADER = 4
    MIN_BLOCK_SIZE = 2
    ALIGN = 2
    WORD = 64
    Requests = {1, 5, 8}
    NULL = NULL
    Preempted = TRUE
CHECK_DEADLOCK FALSE
INVARIANT WipesOnlyItsOwn
