SPECIFICATION ExecutorSpec
CONSTANTS
    None = None
    Calls = {c1, c2, c3}
    Texts = {x, y, z, bad}
    BadTexts = {bad}
    MaxCompiled = 2
    Cases <- AllCases
    Bindings <- NoBindings
    Modifiers = {"@m"}
    Specials = {"x y"}
    Position <- Numerals
    Collation <- Codepoints
    Symbols <- SignatureTexts
SYMMETRY Symmetry
CHECK_DEADLOCK FALSE
INVARIANTS
    CacheConsistent
    OwnExpression
    OneMeaning
    EnginesAgree
    TuplesAgree
    ParentIsContext
PROPERTIES
    CompilationsConverge
    ExpiryEndsCall
    ImplementsFIFO
