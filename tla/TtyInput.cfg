SPECIFICATION Spec
CONSTANTS
    Slots = {p1, p2, p3}
    None = None
    TTY_BUFFER_CAP = 2
    Chunk = 2
    QueueBound = 2
    Situations = {{}, {"kill", "unblock", "takeover", "no_memory"}}
INVARIANTS TypeOK NoLostWakeup
PROPERTIES ServedInTurn KeysReachReaders
