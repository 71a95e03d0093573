SPECIFICATION FairSpec
CONSTANTS
    Procs = {p1, p2, p3}
    Idle = idle
    NULL = NULL
    MAX_PRIOS = 2
    TIME_SLICE_TICKS = 2
    AGING_THRESHOLD = 2
    DEFAULT_PRIO = 1
    SelfNice = FALSE
INVARIANTS TypeOK QueuesHoldReady RunningIsCurrent CpuIsCurrent AgingIsTemporary SchedulerAlive
PROPERTIES IdleOnlyIfNothingReady ImplementsProcStates NoStarvation
