SPECIFICATION LanguageSpec
CONSTANTS
    Scales <- SomeScales
    MaxIndexDigits = 6
    IntegerCalls <- NoCalls
    DateCalls <- NoCalls
    Now <- ThisMorning
    NumberCalls <- NoCalls
    Texts <- Quotients
INVARIANTS
    SlashDividesAfterValue
