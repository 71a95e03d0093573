SPECIFICATION Spec
CONSTANTS
    Slots = {p1, p2, p3}
    Sems = {s1, s2}
    Names = {n1}
    None = None
    HANDLE_MAX = 3
    CountBound = 1
    ProcBound = 2
    PidBound = 4
    QueueBound = 2
    Situations = {{"crowd", "no_memory"}, {"crowd", "kill", "parent_dies"}, {"crowd", "shared_handle"},
                  {"unblock"}}
SYMMETRY Symmetry
VIEW View
CHECK_DEADLOCK FALSE
INVARIANTS UnitsConserved NoLostWakeup RefcountExact WaitersReachable HandlesHaveOwners
