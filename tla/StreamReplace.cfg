SPECIFICATION Spec
CONSTANTS
    a = a  b = b  Nil = Nil
    Exprs = {a, b}
    FastExprs = {a, b}
    Initial <- MCInitialOne
    Mutators = {m1, m2}
    Readers = {r1, r2}
    Operations = {"replace"}
    Schemas = {"S"}
    IndexLists <- MCIndexListsOne
    Indices = {1}
    MaxSchemas = 2
    MaxStarted = 4
    Keys <- CacheKeys
    Plans <- Plan
CHECK_DEADLOCK FALSE
INVARIANTS
    SubsequentCallsRebuildPlans
