-------------------------- MODULE IntegerFunctions --------------------------
(***************************************************************************)
(* $formatInteger is called, and the text it has written is handed to      *)
(* $parseInteger with the same picture.                                    *)
(***************************************************************************)
EXTENDS IntegerPicture, LibraryCalls

CONSTANTS IntegerCalls  \* <<number, picture>>

\* A picture is of one kind; a decimal one has no hyphen, which would be read
\* as a sign.
ASSUME IntegerCallsAssumption ==
  IntegerCalls \subseteq
    Int \X [kind : {"words", "roman", "letter", "decimal"}, ordinal : BOOLEAN,
            decimal : Seq([c : {"digit", "#", "sep"}, v : STRING])]

FormatInteger ==
  \E c \in IntegerCalls : Begin("formatInteger", c, formatIntegerWithPicture(c[1], c[2]))
ParseInteger ==
  Continue("formatInteger", "parseInteger", parseIntegerWithPicture(result, call.args[2]))

IntegersNext == FormatInteger \/ ParseInteger \/ Return \/ AnotherThan({"formatInteger", "parseInteger"})
IntegersSpec == LanguageInit /\ [][IntegersNext]_languageVars

-----------------------------------------------------------------------------
\* $parseInteger reads back what $formatInteger has written with the same
\* picture.  Words lose the sign, a Roman or alphabetic numeral has none, and
\* a decimal picture of optional digits only is written with but not read.
IntegersReadBack ==
  call.op = "parseInteger" =>
    LET n == call.args[1]
        p == call.args[2]
    IN result = CASE p.kind = "words" -> ReadAs(AbsValue(n))
                  [] p.kind \in {"roman", "letter"} /\ n < 0 -> Malformed("D3137")
                  [] p.kind = "decimal" /\ Families(p.decimal) = {} -> Malformed("D3130")
                  [] OTHER -> ReadAs(n)
=============================================================================
