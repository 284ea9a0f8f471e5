--------------------------- MODULE IntegerPicture ---------------------------
(***************************************************************************)
(* $formatInteger and $parseInteger of the Go library                      *)
(* (functions/string_format_integer.go) on the same picture.               *)
(*                                                                         *)
(* A text is the sequence of what its reader tells apart: the words of a   *)
(* number without the blanks, hyphens and commas the reader drops, with    *)
(* "th" after the last word of an ordinal, the letters of a Roman or       *)
(* alphabetic numeral, and for a decimal picture records [c, v]: a digit   *)
(* with its family, a sign, or anything else. Letter case, which the       *)
(* reader ignores, is left out.                                            *)
(***************************************************************************)
EXTENDS DecimalNumerals, Integers, Sequences, FiniteSets, SequencesExt

CONSTANTS Scales  \* <<name, value>> from the largest: trillion .. thousand

Malformed(code) == [error |-> code]
Written(n, text) == [negative |-> n < 0, text |-> text]
ReadAs(n) == [number |-> n]
Minus == [c |-> "-"]
Total(numbers) == FoldLeft(LAMBDA a, x : a + x, 0, numbers)

-----------------------------------------------------------------------------
(* Words                                                                   *)

Ones == <<"one", "two", "three", "four", "five", "six", "seven", "eight", "nine",
          "ten", "eleven", "twelve", "thirteen", "fourteen", "fifteen", "sixteen",
          "seventeen", "eighteen", "nineteen">>
Tens == <<"ten", "twenty", "thirty", "forty", "fifty", "sixty", "seventy", "eighty", "ninety">>

NumberWords ==
  {Ones[i] : i \in DOMAIN Ones} \union {Tens[i] : i \in DOMAIN Tens} \union {"zero", "hundred", "and", "th"}

\* A thousand is the least; no two scales are alike.
ASSUME ScalesAssumption ==
  /\ Scales \in Seq(STRING \X Nat)
  /\ Scales # <<>> /\ Scales[Len(Scales)][2] = 1000
  /\ \A i \in DOMAIN Scales : Scales[i][1] \notin NumberWords
  /\ \A i, j \in DOMAIN Scales :
       i < j => Scales[i][2] > Scales[j][2] /\ Scales[i][1] # Scales[j][1]

BelowHundred(n) ==
  CASE n = 0 -> <<>>
    [] n \in 1 .. 19 -> <<Ones[n]>>
    [] OTHER -> <<Tens[n \div 10]>> \o (IF n % 10 = 0 THEN <<>> ELSE <<Ones[n % 10]>>)
intToWords(n) ==
  LET rest == BelowHundred(n % 100)
  IN CASE n = 0 -> <<"zero">>
       [] n \in 1 .. 99 -> rest
       [] OTHER -> <<Ones[n \div 100], "hundred">>
                     \o (IF rest = <<>> THEN <<>> ELSE <<"and">> \o rest)

\* The largest scale that fits, how many of it, and the rest; how many may
\* itself be more than the largest scale.
Fitting(n) == CHOOSE i \in DOMAIN Scales : /\ n >= Scales[i][2]
                                           /\ \A j \in 1 .. i - 1 : n < Scales[j][2]
bigIntToWords[n \in Nat] ==
  IF n < 1000 THEN intToWords(n)
  ELSE LET scale == Scales[Fitting(n)]
           r == n % scale[2]
       IN bigIntToWords[n \div scale[2]] \o <<scale[1]>>
            \o (CASE r = 0 -> <<>>
                  [] r \in 1 .. 99 -> <<"and">> \o bigIntToWords[r]
                  [] OTHER -> bigIntToWords[r])

\* An ordinal differs in its last word, which the reader turns back.
applyOrdinalWord(words) == Append(words, "th")
deOrdinalise(words) == IF words # <<>> /\ Last(words) = "th" THEN Front(words) ELSE words

Magnitude(word) ==
  CASE word = "zero" -> 0
    [] word = "hundred" -> 100
    [] \E i \in DOMAIN Ones : Ones[i] = word -> CHOOSE i \in DOMAIN Ones : Ones[i] = word
    [] \E i \in 2 .. 9 : Tens[i] = word -> 10 * (CHOOSE i \in 2 .. 9 : Tens[i] = word)
    [] OTHER -> Scales[CHOOSE i \in DOMAIN Scales : Scales[i][1] = word][2]

\* Mutant: a magnitude multiplies only what was said since the last one.
Absorbed_None(segments, v) == [left |-> segments, sum |-> 0]
Values(segments) == [i \in DOMAIN segments |-> segments[i].value]
\* The segments whose magnitude v absorbs, and those it does not.
Absorbed(segments, v) ==
  LET k == CHOOSE k \in 0 .. Len(segments) :
             /\ \A j \in k + 1 .. Len(segments) : segments[j].scale <= v
             /\ k > 0 => segments[k].scale > v
  IN [left |-> SubSeq(segments, 1, k),
      sum |-> Total(Values(SubSeq(segments, k + 1, Len(segments))))]

ReadWord(state, word) ==
  LET v == Magnitude(word)
      taken == Absorbed(state.segments, v)
  IN CASE word = "and" -> state
       [] word # "and" /\ v < 100 -> [state EXCEPT !.current = @ + v]
       [] word # "and" /\ v = 100 -> [state EXCEPT !.current = @ * 100]
       [] OTHER -> [current |-> 0,
                    segments |-> Append(taken.left,
                      [value |-> (state.current + taken.sum) * v, scale |-> v])]
wordsToBigInt(words) ==
  LET end == FoldLeft(ReadWord, [current |-> 0, segments |-> <<>>], deOrdinalise(words))
  IN end.current + Total(Values(end.segments))

-----------------------------------------------------------------------------
(* Roman and alphabetic numerals                                           *)

Romans == << <<1000, <<"M">> >>, <<900, <<"C", "M">> >>, <<500, <<"D">> >>,
             <<400, <<"C", "D">> >>, <<100, <<"C">> >>, <<90, <<"X", "C">> >>,
             <<50, <<"L">> >>, <<40, <<"X", "L">> >>, <<10, <<"X">> >>,
             <<9, <<"I", "X">> >>, <<5, <<"V">> >>, <<4, <<"I", "V">> >>, <<1, <<"I">> >> >>
\* The largest entry that fits, again and again.
toRoman[n \in Nat] ==
  IF n = 0 THEN <<>>
  ELSE LET entry == Romans[CHOOSE i \in DOMAIN Romans : /\ n >= Romans[i][1]
                                                        /\ \A j \in 1 .. i - 1 : n < Romans[j][1]]
       IN entry[2] \o toRoman[n - entry[1]]

RomanLetters == {Romans[i][2][1] : i \in DOMAIN Romans}
RomanValue(letter) == Romans[CHOOSE i \in DOMAIN Romans : Romans[i][2] = <<letter>>][1]
\* A letter before a greater one counts against it.
Counts(text, i) ==
  LET v == RomanValue(text[i])
  IN IF i < Len(text) /\ RomanValue(text[i + 1]) > v THEN -v ELSE v
fromRoman(text) == Total([i \in DOMAIN text |-> Counts(text, i)])

bigIntToAlphabetic[n \in Nat] ==
  IF n = 0 THEN <<>> ELSE Append(bigIntToAlphabetic[(n - 1) \div 26], ((n - 1) % 26) + 1)
FromAlphabetic(text) == FoldLeft(LAMBDA a, c : a * 26 + c, 0, text)

-----------------------------------------------------------------------------
(* Decimal pictures: sequences of "#", digits of a family and separators   *)

IsDigit(c) == c.c = "digit"
IsPlace(c) == c.c \in {"digit", "#"}
Families(picture) == {picture[i].v : i \in {j \in DOMAIN picture : IsDigit(picture[j])}}
\* Digit positions to the right of i; what is to the right of all is ignored.
PosR(picture, i) == Cardinality({j \in i + 1 .. Len(picture) : IsPlace(picture[j])})
Separators(picture) ==
  {i \in DOMAIN picture : ~IsPlace(picture[i]) /\ PosR(picture, i) > 0}
Least(S) == CHOOSE p \in S : \A q \in S : p <= q

\* One separator at equal distances goes on to the left.
Regular(picture, interval) ==
  \A i \in Separators(picture) :
    LET pos == PosR(picture, i)
    IN /\ \A j \in Separators(picture) :
            picture[j] = picture[i] /\ (PosR(picture, j) = pos => j = i)
       /\ \/ pos = interval
          \/ \E j \in Separators(picture) :
               /\ PosR(picture, j) = pos - interval
               /\ \A k \in Separators(picture) : PosR(picture, k) \notin pos - interval + 1 .. pos - 1

\* What is written before the last pos digits; of two separators side by side
\* the left one is.
Mark(picture, pos) ==
  LET seps == Separators(picture)
      own == {i \in seps : PosR(picture, i) = pos}
      interval == Least({PosR(picture, i) : i \in seps})
  IN CASE own # {} -> <<picture[Least(own)]>>
       [] own = {} /\ seps # {} /\ Regular(picture, interval) /\ pos % interval = 0 ->
            <<picture[CHOOSE i \in seps : PosR(picture, i) = interval]>>
       [] OTHER -> <<>>
applyIntegerGrouping(digits, picture) ==
  FlattenSeq([i \in DOMAIN digits |->
    IF i = 1 THEN <<digits[i]>> ELSE Append(Mark(picture, Len(digits) - i + 1), digits[i])])

formatIntegerDecimal(n, picture) ==
  LET mandatory == Cardinality({i \in DOMAIN picture : IsDigit(picture[i])})
      plain == DecimalDigits[n]
      padded == [i \in 1 .. (IF mandatory > Len(plain) THEN mandatory - Len(plain) ELSE 0) |-> 0]
                  \o plain
      family == IF Families(picture) = {} THEN "0" ELSE CHOOSE f \in Families(picture) : TRUE
      digits == [i \in DOMAIN padded |-> [c |-> "digit", v |-> family, d |-> padded[i]]]
  IN IF \E f, g \in Families(picture) : f # g THEN Malformed("D3131")
     ELSE [digits |-> applyIntegerGrouping(digits, picture)]

ordinalSuffix(n) ==
  LET last == IF n % 100 \in 11 .. 13 THEN "th"
              ELSE CASE n % 10 = 1 -> "st" [] n % 10 = 2 -> "nd" [] n % 10 = 3 -> "rd"
                     [] OTHER -> "th"
  IN <<[c |-> "letters", v |-> last]>>

\* Digits and hyphens are read, whatever is between them is not; ascii digits
\* are read beside those of the picture's family.
IsRead(c, picture) == c = Minus \/ (IsDigit(c) /\ c.v \in Families(picture) \union {"0"})
ReadDigits(text, picture) ==
  FoldLeft(LAMBDA a, c : IF c # Minus /\ IsRead(c, picture) THEN 10 * a + c.d ELSE a, 0, text)
ParseDecimal(text, picture) ==
  LET read == {i \in DOMAIN text : IsRead(text[i], picture)}
      signs == {i \in read : text[i] = Minus}
      value == ReadDigits(text, picture)
  IN CASE Families(picture) = {} -> Malformed("D3130")
       [] Families(picture) # {} /\ (read = signs \/ \E i \in signs, j \in read : j < i) -> Malformed("D3137")
       [] OTHER -> ReadAs(IF signs = {} THEN value ELSE -value)

-----------------------------------------------------------------------------
(* The two functions; a picture is [kind, decimal, ordinal]                *)

AbsValue(n) == IF n < 0 THEN -n ELSE n

formatIntegerWithPicture(n, picture) ==
  LET m == AbsValue(n)
      words == bigIntToWords[m]
      decimal == formatIntegerDecimal(m, picture.decimal)
  IN CASE picture.kind = "words" ->
            Written(n, IF picture.ordinal THEN applyOrdinalWord(words) ELSE words)
       [] picture.kind = "roman" -> Written(n, toRoman[m])
       [] picture.kind = "letter" -> Written(n, bigIntToAlphabetic[m])
       [] picture.kind = "decimal" /\ ~\E i \in DOMAIN picture.decimal : IsPlace(picture.decimal[i]) ->
            Malformed("D3130")
       [] OTHER -> IF "error" \in DOMAIN decimal THEN decimal
                   ELSE Written(n, decimal.digits \o (IF picture.ordinal THEN ordinalSuffix(m) ELSE <<>>))

\* Among words the hyphen is a blank, so the sign of a number is not read;
\* it is no Roman or alphabetic numeral.
parseIntegerWithPicture(written, picture) ==
  CASE picture.kind = "words" -> ReadAs(wordsToBigInt(written.text))
    [] picture.kind \in {"roman", "letter"} /\ written.negative -> Malformed("D3137")
    [] picture.kind = "roman" /\ ~written.negative -> ReadAs(fromRoman(written.text))
    [] picture.kind = "letter" /\ ~written.negative -> ReadAs(FromAlphabetic(written.text))
    [] OTHER -> ParseDecimal(IF written.negative THEN <<Minus>> \o written.text ELSE written.text,
                             picture.decimal)
=============================================================================
