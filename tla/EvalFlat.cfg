SPECIFICATION Spec
CONSTANTS
    Nodes <- FlatNodes
    Root = 0
    Parent <- FlatParent
    Position <- FlatPosition
    Kind <- FlatKind
    Stack = 3
CHECK_DEADLOCK FALSE
INVARIANTS
    StackErrorMeansNesting
