SPECIFICATION ShellSpec
CONSTANTS
    Slots = {sh, p1, p2}
    Sh = sh
    Pipes = {q1, q2}
    Files = {tin, tout, f1, f2, f3, f4}
    TtyIn = tin
    TtyOut = tout
    FD_MAX = 6
    Names = {n1, n2, n3}
    Bytes = {a}
    PIPE_CAP = 4
    Chunk = 1
    QueueBound = 1
    None = None
    Situations = {{"crowd"}, {"crowd", "kill"}, {"crowd", "no_memory"}, {"crowd", "long"}}
    BackgroundBound = 0
    LeakBound = 2
    Lines <- MCLines
CHECK_DEADLOCK FALSE
INVARIANTS FilesRestored PipesReleased ArgsHaveOwners
PROPERTY PromptReturns
