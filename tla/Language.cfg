SPECIFICATION LanguageSpec
CONSTANTS
    Scales <- SomeScales
    MaxIndexDigits = 6
    IntegerCalls <- SomeIntegerCalls
    DateCalls <- SomeDateCalls
    Now <- ThisMorning
    NumberCalls <- SomeNumberCalls
    Texts <- SomeTexts
INVARIANTS
    IntegersReadBack
    DatesReadBack
    NumbersSayTheirValue
    TextsAreTheirTrees
    PassKeepsEverything
