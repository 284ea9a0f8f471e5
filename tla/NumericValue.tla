----------------------------- MODULE NumericValue -----------------------------
(***************************************************************************)
(* The assigned decimal of a JSON number (internal/numeric): comparison,   *)
(* display, conversion to an index, and rounding for a picture.            *)
(*                                                                         *)
(* A spelling is [negative, head, fraction, exp]: the digits of the token, *)
(* how many of them are after the point, and its exponent. A decimal is    *)
(* what all spellings of a value share, [negative, coefficient, adjusted]: *)
(* its digits without zeros at either end and the power of ten of the      *)
(* first.                                                                  *)
(***************************************************************************)
EXTENDS DecimalNumerals, Integers, Sequences, SequencesExt, FiniteSetsExt

Spelling(negative, head, fraction, exp) ==
  [negative |-> negative, head |-> head, fraction |-> fraction, exp |-> exp]
Spellings == [negative : BOOLEAN, head : Seq(0 .. 9), fraction : Nat, exp : Int]
Zeros(n) == [i \in 1 .. Max({0, n}) |-> 0]
TrimLeft(digits) ==
  LET k == CHOOSE k \in 0 .. Len(digits) : /\ \A i \in 1 .. k : digits[i] = 0
                                           /\ k < Len(digits) => digits[k + 1] # 0
  IN SubSeq(digits, k + 1, Len(digits))
TrimRight(digits) == Reverse(TrimLeft(Reverse(digits)))

parts(s) ==
  LET head == TrimLeft(s.head)
  IN IF head = <<>> THEN [negative |-> FALSE, coefficient |-> <<0>>, adjusted |-> 0]
     ELSE [negative |-> s.negative, coefficient |-> TrimRight(head),
           adjusted |-> s.exp + Len(head) - s.fraction - 1]
Zero(s) == parts(s).coefficient = <<0>>

\* The first digit that differs decides; what a shorter one lacks is zero.
CompareDigits(c, d) ==
  LET At(digits, i) == IF i <= Len(digits) THEN digits[i] ELSE 0
      differ == {i \in 1 .. Max({Len(c), Len(d)}) : At(c, i) # At(d, i)}
  IN IF differ = {} THEN 0 ELSE IF At(c, Min(differ)) < At(d, Min(differ)) THEN -1 ELSE 1
CompareText(a, b) ==
  LET x == parts(a)
      y == parts(b)
      order == CASE Zero(a) -> -1
                 [] ~Zero(a) /\ Zero(b) -> 1
                 [] ~Zero(a) /\ ~Zero(b) /\ x.adjusted # y.adjusted -> IF x.adjusted < y.adjusted THEN -1 ELSE 1
                 [] OTHER -> CompareDigits(x.coefficient, y.coefficient)
  IN CASE Zero(a) /\ Zero(b) -> 0
       [] ~(Zero(a) /\ Zero(b)) /\ x.negative # y.negative -> IF x.negative THEN -1 ELSE 1
       [] OTHER -> IF x.negative THEN -order ELSE order

IsInteger(s) == Zero(s) \/ parts(s).adjusted >= Len(parts(s).coefficient) - 1

\* Without an exponent from 10^-6 up to 10^21.
Format(s) ==
  LET p == parts(s)
      c == p.coefficient
      point == p.adjusted + 1
  IN CASE Zero(s) -> Spelling(FALSE, <<0>>, 0, 0)
       [] ~Zero(s) /\ p.adjusted \in -6 .. 20 /\ point <= 0 ->
            Spelling(p.negative, Zeros(1 - point) \o c, Len(c) - point, 0)
       [] ~Zero(s) /\ p.adjusted \in -6 .. 20 /\ point > 0 ->
            Spelling(p.negative, c \o Zeros(point - Len(c)), Max({0, Len(c) - point}), 0)
       [] OTHER -> Spelling(p.negative, c, Len(c) - 1, p.adjusted)

-----------------------------------------------------------------------------
(* Explicit control conversions, on the integers of MaxIndexDigits digits  *)
(* in the place of the 64-bit ones.                                        *)

CONSTANT MaxIndexDigits
ASSUME MaxIndexDigitsAssumption == MaxIndexDigits \in Nat \ {0}
MaxIndex == 10 ^ MaxIndexDigits - 1
NotAnIndex == [ok |-> FALSE]
AnIndex(i) == [ok |-> TRUE, i |-> i]

TruncInt64(s) ==
  LET p == parts(s)
      point == p.adjusted + 1
      i == NumberOf(SubSeq(p.coefficient \o Zeros(point - Len(p.coefficient)), 1, point))
  IN CASE Zero(s) \/ p.adjusted < 0 -> AnIndex(0)
       [] ~Zero(s) /\ p.adjusted >= MaxIndexDigits -> NotAnIndex
       [] OTHER -> AnIndex(IF p.negative THEN -i ELSE i)
Decimals(i) == Spelling(i < 0, DecimalDigits[IF i < 0 THEN -i ELSE i], 0, 0)
FloorInt64(s) ==
  LET t == TruncInt64(s)
  IN IF ~t.ok \/ CompareText(s, Decimals(t.i)) >= 0 THEN t
     ELSE IF t.i = -MaxIndex THEN NotAnIndex ELSE AnIndex(t.i - 1)
\* A numeric predicate counts from the end when it is negative.
Index(s, length) ==
  LET f == FloorInt64(s)
      i == IF f.i < 0 THEN f.i + length ELSE f.i
  IN IF f.ok /\ i \in 0 .. length - 1 THEN AnIndex(i) ELSE NotAnIndex
ClippedTrunc(s, lower, upper) ==
  CASE CompareText(s, Decimals(lower)) <= 0 -> lower
    [] CompareText(s, Decimals(lower)) > 0 /\ CompareText(s, Decimals(upper)) >= 0 -> upper
    [] OTHER -> TruncInt64(s).i
\* How many times count < limit holds; -1 is no limit.
IterationLimit(s) ==
  LET t == TruncInt64(s)
  IN IF ~t.ok \/ t.i >= MaxIndex - 1 THEN -1
     ELSE IF CompareText(s, Decimals(t.i)) > 0 THEN t.i + 1 ELSE t.i

-----------------------------------------------------------------------------
(* Rounding for a picture, of the value without its sign                   *)

\* Mutant: a half is always rounded away from zero.
RoundsUp_Half(last, rest) == CompareDigits(rest, <<5>>) >= 0
RoundsUp(last, rest) ==
  LET half == CompareDigits(rest, <<5>>) IN half > 0 \/ (half = 0 /\ last % 2 = 1)
\* Half to even at this many places: the digits, that many after the point.
Fixed(s, places) ==
  LET p == parts(s)
      keep == p.adjusted + 1 + places
      all == Zeros(-keep) \o p.coefficient \o Zeros(keep - Len(p.coefficient))
      kept == SubSeq(all, 1, Max({0, keep}))
      rest == SubSeq(all, Len(kept) + 1, Len(all))
      last == IF kept = <<>> THEN 0 ELSE Last(kept)
      n == NumberOf(kept) + (IF RoundsUp(last, rest) THEN 1 ELSE 0)
      digits == Decimals(n).head
  IN IF Zero(s) THEN Zeros(places + 1) ELSE Zeros(places + 1 - Len(digits)) \o digits
\* The exponent is chosen before the mantissa is rounded.
Mantissa(s, leading) ==
  LET p == parts(s)
      exponent == p.adjusted + 1 - leading
  IN IF Zero(s) THEN [value |-> s, exp |-> 0]
     ELSE [value |-> Spelling(FALSE, p.coefficient, 0, leading - Len(p.coefficient)), exp |-> exponent]
=============================================================================
