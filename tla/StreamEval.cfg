SPECIFICATION MCSpec
CONSTANTS
    a = a  b = b  Nil = Nil
    Exprs = {a, b}
    FastExprs = {a}
    Initial <- MCInitial
    Mutators = {m1, m2}
    Readers = {r1, r2, r3}
    Operations = {"add", "replace", "remove", "reset"}
    Schemas = {"", "S"}
    IndexLists <- MCIndexLists
    Indices = {1}
    MaxSchemas = 2
    MaxStarted = 4
    Keys <- CacheKeys
    Plans <- Plan
SYMMETRY Symmetry
CHECK_DEADLOCK FALSE
INVARIANTS
    SnapshotMatchesRing
    NoForeignResult
    RemovedIsUndefined
    PlansFollowExpressions
PROPERTIES
    UpdatesAreAtomic
    ImplementsFIFO
