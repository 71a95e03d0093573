SPECIFICATION Spec
CONSTANTS
    Slots = {p1, p2, p3}
    Pipes = {q1}
    Files = {f1, f2}
    FD_MAX = 2
    Names = {n1}
    Bytes = {a, b}
    PIPE_CAP = 2
    Chunk = 2
    QueueBound = 1
    None = None
    Situations = {{"long_calls"}, {"crowd", "kill"}, {"crowd", "both_ends"},
                  {"kill", "parent_dies", "unblock", "no_memory"}}
SYMMETRY Symmetry
CHECK_DEADLOCK FALSE
INVARIANTS EndsExact SomebodyToWaitFor NoLostWakeup
PROPERTY ImplementsChannel
