SPECIFICATION SelectionSpec
CONSTANTS
    Cases <- GroupedCases
    Bindings <- NoBindings
    Modifiers = {"@m"}
    Specials = {"x y"}
    Position <- Numerals
    Collation <- Codepoints
    Symbols <- SignatureTexts
INVARIANTS
    GroupingIsNotSelected
CHECK_DEADLOCK FALSE
