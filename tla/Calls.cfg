SPECIFICATION Spec
CONSTANTS
    f = f
    g = g
    map = map
    eval = eval
    undefined = undefined
    Undefined = undefined
    Root = "top"
    Nodes <- ProgramNodes
    Kind <- ProgramKind
    Kids <- ProgramKids
    Pairs <- GroupedMain
    Callee <- ProgramCallee
    Lambdas <- ProgramLambdas
    Body <- ProgramBody
    Builtins <- ProgramBuiltins
    Callbacks <- ProgramCallbacks
    Evals <- ProgramEvals
    Tree <- ProgramTree
    MaxDepth = 3
    MaxIter = 2
    MaxEval = 2
    MaxApply = 2
INVARIANTS
    CountersAreNesting
    TailCallsTakeNoStack
PROPERTIES
    SentinelReachesTrampoline
    CancellationSurfaces
    EveryEvaluationEnds
