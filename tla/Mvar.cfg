SPECIFICATION MvarSpec
CONSTANTS
    Slots = {1, 2, 3, 4}
    Sems = {"empty", "full", "other"}
    Names = {"empty", "full", "other"}
    None = None
    HANDLE_MAX = 6
    CountBound = 3
    ProcBound = 3
    PidBound = 4
    QueueBound = 0
    Situations = {{"crowd"}, {"crowd", "kill"}, {"no_memory"}}
    Launches <- MCLaunches
    OtherHandles = 1
CHECK_DEADLOCK FALSE
PROPERTIES ImplementsOnePlace EveryoneServed
