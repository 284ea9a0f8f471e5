--------------------------- MODULE NumberFunctions ---------------------------
(***************************************************************************)
(* $formatNumber is called, and its text is read as a reader of decimal    *)
(* numbers would read it.                                                  *)
(***************************************************************************)
EXTENDS NumberPicture, LibraryCalls

CONSTANTS NumberCalls  \* <<number, picture>>

\* A character of a picture is not the digit it stands for.
ASSUME NumberCallsAssumption == NumberCalls \subseteq Spellings \X Seq(STRING \ {"digit"})

FormatNumber ==
  \E c \in NumberCalls : Begin("formatNumber", c, formatNumberPicture(c[1], c[2]))
\* A loop that never ends goes round.
Loop == "endless" \in DOMAIN result /\ UNCHANGED languageVars

NumbersNext == FormatNumber \/ Loop \/ Return \/ AnotherThan({"formatNumber"})
NumbersSpec == LanguageInit /\ [][NumbersNext]_languageVars

-----------------------------------------------------------------------------
\* What a reader makes of a formatted number, character by character.
ReadChar(said, c) ==
  CASE c[1] = "digit" -> [said EXCEPT ![said.at] = Append(@, c[2])]
    [] c[1] = "." -> [said EXCEPT !.at = "frac"]
    [] c[1] = "e" -> [said EXCEPT !.at = "exp"]
    [] c[1] = "-" /\ said.at = "exp" /\ said.exp = <<>> -> [said EXCEPT !.minus = TRUE]
    [] OTHER -> said
Unread == [int |-> <<>>, frac |-> <<>>, exp |-> <<>>, minus |-> FALSE, at |-> "int"]
Reading(text) == FoldLeft(ReadChar, Unread, text)
Exponent(said) == IF said.minus THEN -NumberOf(said.exp) ELSE NumberOf(said.exp)

\* Without a digit for the integer, the mantissa 0.99 that is rounded to 1.0
\* is written as .0: the digit that was carried is dropped.
LostCarry(n, sp) ==
  /\ sp.expMandatory > 0 /\ sp.intMandatory + sp.intOptional = 0
  /\ NumberOf(Fixed(Mantissa(n, 0).value, Places(sp))) = NumberOf(<<1>> \o Zeros(Places(sp)))

\* The number that is read, in units of its last place, and whether it has as
\* many digits as the picture asks for.
ValueRead(said, places) == NumberOf(said.int \o said.frac \o Zeros(places - Len(said.frac)))
FitsPicture(said, sp) ==
  /\ Len(said.frac) \in sp.fracMandatory .. Places(sp)
  /\ sp.fracOptional > 0 /\ Len(said.frac) > sp.fracMandatory => Last(said.frac) # 0
  /\ Len(said.int) >= sp.intMandatory
\* v times 10^-places is nearest to n without its sign, scaled down by the
\* exponent, and v is even when n is half way between two of them.
Nearest(v, places, exponent, n, scale) ==
  LET Half(k) == [Decimals(k) EXCEPT !.exp = exponent - places]
      twice == [Decimals(2 * NumberOf(n.head)) EXCEPT !.fraction = n.fraction, !.exp = n.exp + scale]
      low == CompareText(Half(2 * v - 1), twice)
      high == CompareText(twice, Half(2 * v + 1))
  IN low <= 0 /\ high <= 0 /\ (low = 0 \/ high = 0 => v % 2 = 0)

\* The text of a number is that number times the scale of its picture,
\* rounded once to the places of the picture, half to even, and has no digit
\* more and none less than the picture allows.
NumbersSayTheirValue ==
  call.op = "formatNumber" /\ "text" \in DOMAIN result =>
    LET n == call.args[1]
        pics == splitOnPatternSep(call.args[2])
        sp == parseSubPicture(IF parts(n).negative THEN Last(pics) ELSE Head(pics))
        said == Reading(result.text)
        places == Places(sp)
    IN /\ FitsPicture(said, sp)
       /\ LostCarry(n, sp) \/ Nearest(ValueRead(said, places), places, Exponent(said), n, sp.scale)
=============================================================================
