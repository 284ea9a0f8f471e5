SPECIFICATION FairSpec
CONSTANTS
    Tasks = {t1, t2, t3}
    SlotIds = {s1, s2}
    Closers = {c1}
    MaxWorkers = 1
    MaxPending = 2
    None = None
CHECK_DEADLOCK FALSE
PROPERTIES
    ImplementsExecutor
    EveryTaskSettles
    CloseCompletes
