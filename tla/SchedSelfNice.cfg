SPECIFICATION Spec
CONSTANTS
    Procs = {p1, p2, p3}
    Idle = idle
    NULL = NULL
    MAX_PRIOS = 2
    TIME_SLICE_TICKS = 2
    AGING_THRESHOLD = 2
    DEFAULT_PRIO = 1
    SelfNice = TRUE
INVARIANT SchedulerAlive
