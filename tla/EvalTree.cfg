SPECIFICATION Spec
CONSTANTS
    Nodes <- TreeNodes
    Root = 0
    Parent <- TreeParent
    Position <- TreePosition
    Kind <- TreeKind
    Stack = 4
CHECK_DEADLOCK FALSE
INVARIANTS
    NestingBounded
    BalancedOnSuccess
    AbortKeepsItsCode
PROPERTIES
    AbortEndsWork
    Settles
