SPECIFICATION Spec
CONSTANTS
    PAGE = 64
    Pages = 16
    MAX_ORDER = 3
    Requests = {200, 256}
CHECK_DEADLOCK FALSE
PROPERTY ImplementsAllocator
