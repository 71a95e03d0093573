SPECIFICATION Spec
CONSTANTS
    MAX_PROCS = 4
    PidBound = 5
    Situations = {{"exit_preempted"}}
INVARIANT WaitersHaveChildren
