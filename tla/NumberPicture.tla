----------------------------- MODULE NumberPicture -----------------------------
(***************************************************************************)
(* $formatNumber of the Go library (functions/string_format_number.go).    *)
(*                                                                         *)
(* A picture is a sequence of the characters it is made of, by their       *)
(* role: "0" a mandatory digit, "#" an optional one, "," "." "e" "%" "m"   *)
(* (per mille) ";" and anything else. The options that rename the roles    *)
(* and the digit family are left out. A result is a sequence of <<c, d>>:  *)
(* a character of the picture, or a digit when c is "digit".               *)
(***************************************************************************)
EXTENDS NumericValue, FiniteSets

PictureError(code) == [error |-> code]
isActiveChar(c) == c \in {"0", "#", ",", ".", "e"}
PlaceChars == {"0", "#"}
Positions(text, chars) == {i \in DOMAIN text : text[i] \in chars}
HowMany(text, chars) == Cardinality(Positions(text, chars))
Chars(text) == [i \in DOMAIN text |-> <<text[i], 0>>]

splitOnPatternSep(picture) ==
  FoldLeft(LAMBDA pics, c : IF c = ";" THEN Append(pics, <<>>) ELSE [pics EXCEPT ![Len(pics)] = Append(@, c)],
           << <<>> >>, picture)

\* 0, or the power of ten that % and per mille stand for.
ScaleOf(picture) == CASE HowMany(picture, {"%"}) > 0 -> 2
                      [] HowMany(picture, {"m"}) > 0 -> 3
                      [] OTHER -> 0
\* Right of the digit in which a grouping separator stands, from the right
\* for the integer and from the left for the fraction.
IntGroups(int) ==
  LET at == SetToSortSeq(Positions(int, {","}), >)
  IN [k \in DOMAIN at |-> HowMany(SubSeq(int, at[k], Len(int)), PlaceChars)]
FracGroups(frac) ==
  {HowMany(SubSeq(frac, 1, i), PlaceChars) : i \in Positions(frac, {","})}

\* The first thing wrong with the integer part, from the left.
IntError(int, hasDecimal) ==
  LET Wrong(i) ==
        CASE int[i] = "#" /\ \E j \in 1 .. i - 1 : int[j] = "0" -> "D3090"
          [] int[i] = "," /\ i > 1 /\ int[i - 1] = "," -> "D3089"
          [] int[i] = "," /\ ~(i > 1 /\ int[i - 1] = ",") /\ i = Len(int) ->
               IF hasDecimal THEN "D3087" ELSE "D3088"
          [] OTHER -> "ok"
      wrong == {i \in DOMAIN int : Wrong(i) # "ok"}
  IN IF wrong = {} THEN "ok" ELSE Wrong(Min(wrong))

parseSubPicture(picture) ==
  LET actives == {i \in DOMAIN picture : isActiveChar(picture[i])}
      active == SubSeq(picture, Min(actives), Max(actives))
      decimals == Positions(active, {"."})
      exponents == Positions(active, {"e"})
      dec == IF decimals = {} THEN Len(active) + 1 ELSE Min(decimals)
      exp == IF exponents = {} THEN Len(active) + 1 ELSE Min(exponents)
      int == SubSeq(active, 1, Min({dec, exp}) - 1)
      frac == SubSeq(active, dec + 1, exp - 1)
      intError == IntError(int, decimals # {})
  IN IF actives = {} THEN PictureError("D3086")
     ELSE IF \E i \in DOMAIN active : ~isActiveChar(active[i]) /\ active[i] \notin {"%", "m"}
     THEN PictureError("D3086")
     ELSE IF HowMany(picture, {"%"}) > 1 THEN PictureError("D3082")
     ELSE IF HowMany(picture, {"m"}) > 1 THEN PictureError("D3083")
     ELSE IF HowMany(picture, {"%"}) > 0 /\ HowMany(picture, {"m"}) > 0 THEN PictureError("D3084")
     ELSE IF Cardinality(decimals) > 1 THEN PictureError("D3081")
     ELSE IF exponents # {} /\ ScaleOf(picture) # 0 THEN PictureError("D3092")
     ELSE IF \E i \in Positions(active, {","}) : i > exp THEN PictureError("D3093")
     ELSE IF decimals # {} /\ exponents # {} /\ exp < dec THEN PictureError("D3085")
     ELSE IF intError # "ok" THEN PictureError(intError)
     ELSE IF HowMany(int \o frac, PlaceChars) = 0 /\ (decimals # {} \/ exponents # {})
     THEN PictureError("D3085")
     ELSE IF \E i, j \in DOMAIN frac : i < j /\ frac[i] = "#" /\ frac[j] = "0" THEN PictureError("D3091")
     ELSE [prefix |-> Chars(SubSeq(picture, 1, Min(actives) - 1)),
           suffix |-> Chars(SubSeq(picture, Max(actives) + 1, Len(picture))),
           intMandatory |-> HowMany(int, {"0"}), intOptional |-> HowMany(int, {"#"}),
           fracMandatory |-> HowMany(frac, {"0"}), fracOptional |-> HowMany(frac, {"#"}),
           expMandatory |-> HowMany(SubSeq(active, exp + 1, Len(active)), PlaceChars),
           scale |-> ScaleOf(picture), hasDecimal |-> decimals # {},
           intGroups |-> IntGroups(int), fracGroups |-> FracGroups(frac)]

-----------------------------------------------------------------------------
DigitChars(digits) == [i \in DOMAIN digits |-> <<"digit", digits[i]>>]
Comma == << <<",", 0>> >>
Point == << <<".", 0>> >>
PadLeft(digits, least) == Zeros(least - Len(digits)) \o digits

\* Equal distances go on to the left, in steps of the first, others stand where
\* the picture has them. With no digit to the right of the only separator, as
\* in 0,%.0, the steps are of 0 and the loop never ends.
Repeats(groups) == \A k \in 2 .. Len(groups) : groups[k] - groups[k - 1] = groups[1]
Endless(groups) == groups # <<>> /\ Repeats(groups) /\ groups[1] = 0
computeIntGroupPositions(groups, length) ==
  IF Repeats(groups) THEN {pos \in 1 .. length - 1 : pos % groups[1] = 0} ELSE {groups[k] : k \in DOMAIN groups}
applyIntGrouping(digits, groups) ==
  LET at == IF groups = <<>> THEN {} ELSE computeIntGroupPositions(groups, Len(digits))
  IN FlattenSeq([i \in DOMAIN digits |->
       (IF Len(digits) - i + 1 \in at THEN Comma ELSE <<>>) \o DigitChars(<<digits[i]>>)])
applyFracGrouping(digits, at) ==
  FlattenSeq([i \in DOMAIN digits |->
    DigitChars(<<digits[i]>>) \o (IF i \in at /\ i < Len(digits) THEN Comma ELSE <<>>)])

\* Zeros at the end go down to the mandatory digits, if any digit is optional.
TrimFraction(digits, sp) ==
  LET trimmed == TrimRight(digits)
  IN CASE sp.fracOptional = 0 -> digits
       [] sp.fracOptional > 0 /\ Len(trimmed) < sp.fracMandatory -> SubSeq(digits, 1, sp.fracMandatory)
       [] OTHER -> trimmed

formatFixed(n, sp) ==
  LET places == sp.fracMandatory + sp.fracOptional
      all == Fixed(n, places)
      int == PadLeft(SubSeq(all, 1, Len(all) - places), Max({1, sp.intMandatory}))
      frac == TrimFraction(SubSeq(all, Len(all) - places + 1, Len(all)), sp)
  IN applyIntGrouping(int, sp.intGroups)
       \o (IF frac # <<>> \/ sp.hasDecimal THEN Point ELSE <<>>)
       \o applyFracGrouping(frac, sp.fracGroups)

\* The optional digits of a picture with an exponent and without any other
\* are places of the fraction.
Places(sp) ==
  LET places == sp.fracMandatory + sp.fracOptional
  IN IF sp.expMandatory > 0 /\ sp.intMandatory + places = 0 THEN sp.intOptional ELSE places
formatWithExponent(n, sp) ==
  LET places == Places(sp)
      mantissa == Mantissa(n, sp.intMandatory)
      all == Fixed(mantissa.value, places)
      int == PadLeft(SubSeq(all, 1, Len(all) - places), sp.intMandatory)
      frac == TrimFraction(SubSeq(all, Len(all) - places + 1, Len(all)), sp)
      exp == Decimals(mantissa.exp)
  IN (IF sp.intMandatory + sp.intOptional > 0 THEN DigitChars(int) ELSE <<>>)
       \o (IF frac # <<>> \/ (sp.hasDecimal /\ sp.intMandatory + sp.intOptional > 0) THEN Point ELSE <<>>)
       \o DigitChars(frac) \o << <<"e", 0>> >>
       \o (IF exp.negative THEN << <<"-", 0>> >> ELSE <<>>)
       \o DigitChars(PadLeft(exp.head, sp.expMandatory))

\* The second of two pictures is for negative numbers, else a dash is.
formatNumberPicture(n, picture) ==
  LET pics == splitOnPatternSep(picture)
      subs == [k \in DOMAIN pics |-> parseSubPicture(pics[k])]
      wrong == {k \in DOMAIN subs : "error" \in DOMAIN subs[k]}
      negative == parts(n).negative
      dash == IF negative /\ Len(subs) = 1 THEN << <<"-", 0>> >> ELSE <<>>
      sp == IF negative THEN subs[Len(subs)] ELSE subs[1]
      scaled == [n EXCEPT !.negative = FALSE, !.exp = @ + sp.scale]
  IN IF Len(pics) > 2 THEN PictureError("D3080")
     ELSE IF wrong # {} THEN subs[Min(wrong)]
     ELSE IF sp.expMandatory = 0 /\ Endless(sp.intGroups) THEN [endless |-> TRUE]
     ELSE [text |-> dash \o sp.prefix
                      \o (IF sp.expMandatory > 0 THEN formatWithExponent(scaled, sp) ELSE formatFixed(scaled, sp))
                      \o sp.suffix]
=============================================================================
