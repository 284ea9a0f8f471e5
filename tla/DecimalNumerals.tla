--------------------------- MODULE DecimalNumerals ---------------------------
(* The digits of a natural number, and the number of a row of digits.        *)
EXTENDS Naturals, Sequences, SequencesExt

DecimalDigits[n \in Nat] == IF n < 10 THEN <<n>> ELSE Append(DecimalDigits[n \div 10], n % 10)
NumberOf(digits) == FoldLeft(LAMBDA a, d : 10 * a + d, 0, digits)
=============================================================================
