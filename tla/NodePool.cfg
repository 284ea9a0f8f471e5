SPECIFICATION Spec
CONSTANTS
    Tasks = {t1, t2, t3, t4}
    SlotIds = {s1, s2, s3}
    Closers = {c1, c2}
    MaxWorkers = 2
    MaxPending = 3
    None = None
SYMMETRY Symmetry
CHECK_DEADLOCK FALSE
INVARIANTS
    TaskAccounting
    PoolBound
    NoAbandonedWork
    RepliesMatch
    WorkConserving
    CloseIsFinal
PROPERTIES
    FirstReasonStands
