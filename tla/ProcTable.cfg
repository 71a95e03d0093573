SPECIFICATION Spec
CONSTANTS
    MAX_PROCS = 4
    PidBound = 5
    Situations = {{}, {"nested_fg", "unblock_waiter", "malloc_fails"}}
INVARIANTS ChildrenExact PidsIdentify ZombiesReturn CurrentIsUsed
    WaitersHaveChildren WaitHasResult ForegroundAlive
PROPERTY ImplementsProcStates
