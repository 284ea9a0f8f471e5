----------------------------- MODULE DatePicture -----------------------------
(***************************************************************************)
(* $fromMillis and $toMillis of the Go library on the same picture         *)
(* (functions/datetime_*.go).                                              *)
(*                                                                         *)
(* A picture is a sequence of parts [c, as, n, utc]: a component, how it   *)
(* is presented ("digits" of at least n, "cut" to n, a "name", its first n *)
(* letters "abbr", the same in lower case "lower", ...), and for a zone    *)
(* whether Z stands for UTC; a literal has c = "literal" and its text in   *)
(* "as". A text is a sequence of tokens <<kind, n>>: a digit, a letter, a  *)
(* word, what stands between two words, a name, a literal. A literal is a  *)
(* mark or letters; letters never follow a numeral in letters, which would *)
(* read on. Padding, letter case and digit families are left out, as are X *)
(* and x, which only the raw library reads.                                *)
(*                                                                         *)
(* An instant [day, sec, ms] counts days from 1970-01-01 in UTC.           *)
(***************************************************************************)
EXTENDS IntegerPicture, FiniteSets, FiniteSetsExt

Undefined == [undefined |-> TRUE]
At(t) == [instant |-> t]
Part(c, as, n) == [c |-> c, as |-> as, n |-> n, utc |-> FALSE]
Literal(text) == Part("literal", text, 0)

-----------------------------------------------------------------------------
(* The calendar                                                            *)

LastDay == 100000000  \* of the supported range, on either side of 1970
Leap(y) == y % 4 = 0 /\ (y % 100 # 0 \/ y % 400 = 0)
DaysIn(y, m) == IF m = 2 THEN IF Leap(y) THEN 29 ELSE 28
                ELSE IF m \in {4, 6, 9, 11} THEN 30 ELSE 31
YearLength(y) == IF Leap(y) THEN 366 ELSE 365
FirstDay(y) == 365 * (y - 1970) + ((y - 1) \div 4 - 492) - ((y - 1) \div 100 - 19)
                 + ((y - 1) \div 400 - 4)
DayNumber(y, m, d) == FirstDay(y) + d - 1 + FoldLeft(LAMBDA a, k : a + DaysIn(y, k), 0,
                                                     [k \in 1 .. m - 1 |-> k])
\* Four years are at most 1461 days: near is at most a few years off.
YearOf(day) ==
  LET near == 1970 + (day \div 1461) * 4
  IN CHOOSE y \in near - 8 .. near + 12 : FirstDay(y) <= day /\ day < FirstDay(y + 1)
MonthOf(y, day) == CHOOSE m \in 1 .. 12 : /\ DayNumber(y, m, 1) <= day
                                          /\ day <= DayNumber(y, m, DaysIn(y, m))
DateOf(y, m, day) == [Y |-> y, M |-> m, D |-> day - DayNumber(y, m, 1) + 1, d |-> day - FirstDay(y) + 1]
InYear(y, day) == DateOf(y, MonthOf(y, day), day)
Calendar(day) == InYear(YearOf(day), day)
ISODay(day) == ((day + 3) % 7) + 1
Thursday(day) == day + 4 - ISODay(day)
ISOWeek(day) == (Calendar(Thursday(day)).d - 1) \div 7 + 1
weekOfMonth(day) == (Calendar(Thursday(day)).D + 6) \div 7

Shift(t, seconds) ==
  [t EXCEPT !.day = @ + (t.sec + seconds) \div 86400, !.sec = (t.sec + seconds) % 86400]

InRange(t) == t.day \in -LastDay .. LastDay - 1 \/ t = [day |-> LastDay, sec |-> 0, ms |-> 0]

\* What each component says of a local time; Y is the year without its sign.
SaysOn(date, hour, t) ==
  [Y |-> AbsValue(date.Y), M |-> date.M, D |-> date.D, d |-> date.d,
   E |-> IF date.Y < 0 THEN -1 ELSE 0,
   F |-> ISODay(t.day), W |-> ISOWeek(t.day), w |-> weekOfMonth(t.day),
   H |-> hour, h |-> ((hour + 11) % 12) + 1, P |-> hour \div 12,
   m |-> (t.sec \div 60) % 60, s |-> t.sec % 60, f |-> t.ms]
Says(t) == SaysOn(Calendar(t.day), t.sec \div 3600, t)

-----------------------------------------------------------------------------
(* Writing                                                                 *)

Digit(n) == <<"digit", n>>
Dash == <<"-", 0>>
Digits(n, least) ==
  LET plain == DecimalDigits[n]
  IN [i \in 1 .. Max({0, least - Len(plain)}) |-> Digit(0)]
       \o [i \in DOMAIN plain |-> Digit(plain[i])]
\* A hyphen before the ones, a comma after a scale unless "and" follows; the
\* last word of an ordinal is one token.
Blank == <<" ", 0>>
ScaleNames == {Scales[i][1] : i \in DOMAIN Scales}
Between(word, next) ==
  CASE word \in {Tens[i] : i \in 2 .. 9} /\ next \in {Ones[i] : i \in 1 .. 9} -> <<Dash>>
    [] word \in ScaleNames /\ next \notin ScaleNames \union {"and"} -> << <<",", 0>>, Blank>>
    [] OTHER -> <<Blank>>
Words(words) ==
  LET n == Len(deOrdinalise(words))
      Spelled(i) == << <<words[i], IF i = n /\ n < Len(words) THEN 1 ELSE 0>> >>
  IN FlattenSeq([i \in 1 .. n |-> Spelled(i) \o (IF i < n THEN Between(words[i], words[i + 1]) ELSE <<>>)])

\* The months and the weekdays with the same first n letters; the reader
\* takes the last.
SameLetters(c, v, n) ==
  LET alike == CASE c = "M" /\ n = 1 -> {{1, 6, 7}, {3, 5}, {4, 8}}
                 [] c = "M" /\ n = 2 -> {{3, 5}, {6, 7}}
                 [] c = "F" /\ n = 1 -> {{2, 4}, {6, 7}}
                 [] OTHER -> {}
  IN {v} \union UNION {class \in alike : v \in class}
Name(c, v, n) == <<c, Max(SameLetters(c, v, n))>>
IsName(part) == part.as \in {"name", "abbr", "lower"}

\* 001 writes three digits, 01 the first two, 1 as many as are not zero.
formatFraction(ms, n) ==
  LET all == <<ms \div 100, (ms \div 10) % 10, ms % 10>>
      last == Max({1} \union {i \in 1 .. 3 : all[i] # 0})
  IN [i \in 1 .. (IF n = 1 THEN last ELSE n) |-> Digit(all[i])]

formatTimezone(offset, part) ==
  LET hours == AbsValue(offset) \div 3600
      minutes == (AbsValue(offset) % 3600) \div 60
      prefix == IF part.c = "z" THEN << <<"GMT", 0>> >> ELSE <<>>
      sign == IF offset < 0 THEN <<Dash>> ELSE << <<"+", 0>> >>
      Colon(text) == << <<":", 0>> >> \o text
  IN CASE part.as = "military" /\ minutes = 0 /\ hours <= 12 -> << <<"military", offset \div 3600>> >>
       [] part.as = "name" /\ offset = 0 -> << <<"GMT", 0>> >>
       [] part.as \notin {"military", "name"} /\ offset = 0 /\ part.utc -> << <<"military", 0>> >>
       [] part.as = "digits" /\ ~(offset = 0 /\ part.utc) /\ part.n <= 2 ->
            prefix \o sign \o Digits(hours, part.n)
              \o (IF minutes = 0 THEN <<>> ELSE Colon(Digits(minutes, 2)))
       [] part.as = "digits" /\ ~(offset = 0 /\ part.utc) /\ part.n > 2 ->
            prefix \o sign \o Digits(hours * 100 + minutes, part.n)
       [] OTHER -> prefix \o sign \o Digits(hours, 2) \o Colon(Digits(minutes, 2))

defaultDatePresentation(c) == IF c \in {"m", "s"} THEN 2 ELSE 1

\* Only a year is cut: to the width of its digits when that is 2 to 6.
formatPicturePart(says, offset, part) ==
  LET v == says[part.c]
      year == IF part.n \in 2 .. 6 THEN v % 10 ^ part.n ELSE v
      words == bigIntToWords[v]
  IN CASE part.c = "literal" -> << <<part.as, 0>> >>
       [] part.c \in {"Z", "z"} -> formatTimezone(offset, part)
       [] part.c = "E" -> IF says.E < 0 THEN <<Dash>> ELSE <<>>
       [] part.c = "P" -> << <<"half", v>> >>
       [] part.c = "f" -> formatFraction(v, part.n)
       [] IsName(part) -> <<Name(part.c, v, part.n)>>
       [] part.as = "digits" -> Digits(IF part.c = "Y" THEN year ELSE v, part.n)
       [] part.as = "cut" -> IF part.c = "Y" THEN Digits(year, part.n)
                             ELSE Digits(v, defaultDatePresentation(part.c))
       [] part.as = "ordinal" -> Append(Digits(v, 1), <<"suffix", 0>>)
       [] part.as = "words" -> Words(words)
       [] part.as = "ordinalwords" -> Words(applyOrdinalWord(words))
       [] part.as = "roman" -> LET r == toRoman[v] IN [i \in DOMAIN r |-> <<r[i], 0>>]
       [] part.as = "letters" ->
            LET a == bigIntToAlphabetic[v] IN [i \in DOMAIN a |-> <<"letter", a[i]>>]

formatWithPicture(local, offset, picture) ==
  LET says == Says(local)
  IN FlattenSeq([i \in DOMAIN picture |-> formatPicturePart(says, offset, picture[i])])
\* The local time must be in range too.
fnFromMillis(t, offset, picture) ==
  LET local == Shift(t, offset)
  IN IF InRange(t) /\ InRange(local) THEN [text |-> formatWithPicture(local, offset, picture)]
     ELSE Malformed("D3110")

-----------------------------------------------------------------------------
(* Reading: each reader gives [used, v], how many tokens it takes and their *)
(* value; none is NoMatch, and a zone no clock has is Overflow             *)

Read(used, v) == [used |-> used, v |-> v]
NoMatch == Read(-1, 0)
Overflow == Read(-2, 0)
Run(text, kinds) ==  \* how many tokens at the front are of these kinds
  CHOOSE k \in 0 .. Len(text) : /\ \A i \in 1 .. k : text[i][1] \in kinds
                                /\ k < Len(text) => text[k + 1][1] \notin kinds
DigitsOf(text) == SelectSeq(text, LAMBDA c : c[1] = "digit")
ValueOf(digits) == FoldLeft(LAMBDA a, c : 10 * a + c[2], 0, digits)

modifierFieldWidth(part) ==  \* 0 when the width is not fixed
  IF part.as = "cut" \/ (part.as = "digits" /\ part.n > 1) THEN part.n ELSE 0
parsePictureDigits(text, part) ==
  LET signed == text # <<>> /\ Head(text) = Dash
      digits == IF signed THEN Tail(text) ELSE text
      run == Run(digits, {"digit"})
      width == modifierFieldWidth(part)
      k == IF width > 0 /\ run > width THEN width ELSE run
      v == ValueOf(SubSeq(digits, 1, k))
  IN IF k = 0 THEN NoMatch ELSE IF signed THEN Read(k + 1, -v) ELSE Read(k, v)
parseOrdinalNumber(text, part) ==
  LET number == parsePictureDigits(text, part)
  IN IF /\ number.used \in 0 .. Len(text) - 1
        /\ text[number.used + 1][1] = "suffix"
     THEN Read(number.used + 1, number.v) ELSE number

parseRoman(text) ==
  LET k == Run(text, RomanLetters)
      Count(state, i) ==
        LET v == RomanValue(text[k + 1 - i][1])
        IN IF v < state.prev THEN [state EXCEPT !.total = @ - v]
           ELSE [total |-> state.total + v, prev |-> v]
  IN IF k = 0 THEN NoMatch
     ELSE Read(k, FoldLeft(Count, [total |-> 0, prev |-> 0], [i \in 1 .. k |-> i]).total)
parseAlphabetic(text) ==
  LET k == Run(text, {"letter"})
  IN IF k = 0 THEN NoMatch
     ELSE Read(k, FoldLeft(LAMBDA a, i : a * 26 + text[i][2], 0, [i \in 1 .. k |-> i]))

\* The word reader is at a position; blanks, commas and then one "and " may
\* stand before a word, and no letter right after it. Its readers give
\* [at, v, ok]: where they end and with what.
WordsBelow100 == {Ones[i] : i \in DOMAIN Ones} \union {Tens[i] : i \in DOMAIN Tens} \union {"zero"}
Marks == {"digit", "-", "+", ":", ".", ",", " "}
LetterAt(text, at) == at <= Len(text) /\ text[at][1] \notin Marks
SkipAnd(text, word) ==
  IF word < Len(text) /\ text[word][1] = "and" /\ text[word + 1] = Blank THEN word + 2 ELSE word
NextWord(text, at) == SkipAnd(text, at + Run(SubSeq(text, at, Len(text)), {" ", ","}))
IsWord(text, word, words, ordinals) ==
  /\ word <= Len(text)
  /\ text[word][1] \in words
  /\ text[word][2] \in (IF ordinals THEN {0, 1} ELSE {0})
  /\ ~LetterAt(text, word + 1)
Reached(at, v) == [at |-> at, v |-> v, ok |-> TRUE]
TensAndOnes(text, first, second) ==
  IF /\ IsWord(text, first, {Tens[i] : i \in 2 .. 9}, TRUE)
     /\ IsWord(text, second, {Ones[i] : i \in 1 .. 9}, TRUE)
  THEN Reached(second + 1, Magnitude(text[first][1]) + Magnitude(text[second][1]))
  ELSE Reached(first + 1, Magnitude(text[first][1]))
\* One hyphen may stand between the tens and the ones.
SkipDash(text, at) == IF at <= Len(text) /\ text[at] = Dash THEN at + 1 ELSE at
parseSub100(text, at) ==
  LET first == NextWord(text, at)
  IN IF IsWord(text, first, WordsBelow100, TRUE)
     THEN TensAndOnes(text, first, NextWord(text, SkipDash(text, first + 1)))
     ELSE [at |-> at, v |-> 0, ok |-> FALSE]
HundredAnd(hundreds, rest) == Reached(rest.at, 100 * hundreds + rest.v)
Hundreds(text, at, below) ==  \* "<below> hundred", then perhaps less than 100
  LET first == NextWord(text, at)
      second == NextWord(text, first + 1)
  IN IF /\ IsWord(text, first, {Ones[i] : i \in 1 .. below}, FALSE)
        /\ IsWord(text, second, {"hundred"}, TRUE)
     THEN HundredAnd(Magnitude(text[first][1]), parseSub100(text, second + 1))
     ELSE parseSub100(text, at)
parseSub1000(text, at) == Hundreds(text, at, 9)
ThousandAnd(thousands, rest) == Read(rest.at - 1, 1000 * thousands + rest.v)
Thousands(text, number, word) ==
  CASE ~number.ok -> Read(0, -1)
    [] number.ok /\ IsWord(text, word, {"thousand"}, TRUE) -> ThousandAnd(number.v, parseSub1000(text, word + 1))
    [] OTHER -> Read(number.at - 1, number.v)
\* Eleven hundred to nineteen hundred are tried before thousands. Where there
\* is no word nothing is taken, and the number is -1.
parseComplexNumber(text) ==
  LET many == Hundreds(text, 1, 19)
      thousands == parseSub1000(text, 1)
  IN IF many.v >= 100 THEN Read(many.at - 1, many.v)
     ELSE Thousands(text, thousands, NextWord(text, thousands.at))

\* A month in lower case with a width is taken for a number.
ReadName(text, part) ==
  IF text = <<>> \/ Head(text)[1] # part.c \/ (part.c = "M" /\ part.as = "lower" /\ part.n < 9)
  THEN NoMatch ELSE Read(1, Max(SameLetters(part.c, Head(text)[2], part.n)))

parseTZFromInput(text, part) ==
  LET short == part.as = "digits" /\ part.n <= 2  \* hours, minutes only after a colon
      named == text # <<>> /\ Head(text) = <<"GMT", 0>>
      signAt == IF part.c = "z" THEN 2 ELSE 1
      signed == /\ part.c = "z" => named
                /\ Len(text) >= signAt
                /\ text[signAt] \in {Dash, <<"+", 0>>}
      after == SubSeq(text, signAt + 1, Len(text))
      run == SubSeq(after, 1, Run(after, IF part.as = "digits" /\ ~short THEN {"digit"} ELSE {"digit", ":"}))
      colons == {i \in DOMAIN run : run[i][1] = ":"}
      loose == \E i \in colons : i = 1 \/ i = Len(run) \/ i + 1 \in colons
      digits == DigitsOf(run)
      n == ValueOf(digits)
      hours == IF short /\ colons = {} THEN n ELSE n \div 100
      minutes == IF short /\ colons = {} THEN 0 ELSE n % 100
      seconds == hours * 3600 + minutes * 60
  IN CASE text # <<>> /\ part.as = "military" /\ Head(text)[1] = "military" -> Read(1, 3600 * Head(text)[2])
       [] named /\ part.as = "name" -> Read(1, 0)
       [] text # <<>> /\ part.utc /\ Head(text) = <<"military", 0>> -> Read(1, 0)
       [] signed /\ (loose \/ Len(digits) > 4 \/ (digits # <<>> /\ (hours > 23 \/ minutes > 59))) -> Overflow
       [] signed /\ ~loose /\ Len(digits) \in 1 .. 4 /\ hours <= 23 /\ minutes <= 59 ->
            Read(signAt + Len(run), IF text[signAt] = Dash THEN -seconds ELSE seconds)
       [] OTHER -> NoMatch

\* The first three digits of a fraction count, its sign among them.
ReadFraction(text, part) ==
  LET read == parsePictureDigits(text, part)
      digits == DigitsOf(SubSeq(text, 1, read.used)) \o <<Digit(0), Digit(0), Digit(0)>>
  IN CASE read.used < 0 -> NoMatch
       [] read.used >= 0 /\ Head(text) = Dash -> Read(read.used, -ValueOf(SubSeq(digits, 1, 2)))
       [] OTHER -> Read(read.used, ValueOf(SubSeq(digits, 1, 3)))

ReadPart(text, part) ==
  CASE part.c = "literal" -> IF text # <<>> /\ Head(text) = <<part.as, 0>> THEN Read(1, 0) ELSE NoMatch
    [] part.c \in {"Z", "z"} -> parseTZFromInput(text, part)
    [] part.c = "E" -> IF text # <<>> /\ Head(text) = Dash THEN Read(1, -1) ELSE Read(0, 0)
    [] part.c = "P" -> IF text # <<>> /\ Head(text)[1] = "half" THEN Read(1, Head(text)[2]) ELSE NoMatch
    [] part.c = "f" -> ReadFraction(text, part)
    [] IsName(part) -> ReadName(text, part)
    [] part.as \in {"digits", "cut"} -> parsePictureDigits(text, part)
    [] part.as = "ordinal" -> parseOrdinalNumber(text, part)
    [] part.as \in {"words", "ordinalwords"} -> IF text = <<>> THEN NoMatch ELSE parseComplexNumber(text)
    [] part.as = "roman" -> parseRoman(text)
    [] part.as = "letters" -> parseAlphabetic(text)

\* Part by part; a component that appears again must say the same.
Took(state, part, read) ==
  LET seen == {i \in DOMAIN state.supplied : state.supplied[i][1] = part.c}
  IN CASE read = NoMatch -> [state EXCEPT !.code = "undefined"]
       [] \/ read = Overflow
          \/ part.c # "literal" /\ read # NoMatch /\ \E i \in seen : state.supplied[i][2] # read.v ->
            [state EXCEPT !.code = "D3110"]
       [] OTHER -> [state EXCEPT !.rest = SubSeq(@, read.used + 1, Len(@)),
                                 !.supplied = IF part.c = "literal" THEN @ ELSE Append(@, <<part.c, read.v>>)]
ReadOn(state, part) == IF state.code = "ok" THEN Took(state, part, ReadPart(state.rest, part)) ELSE state
WholeText(end) == IF end.code = "ok" /\ end.rest # <<>> THEN [end EXCEPT !.code = "undefined"] ELSE end
ParseParts(text, picture) ==
  WholeText(FoldLeft(ReadOn, [rest |-> text, supplied |-> <<>>, code |-> "ok"], picture))

-----------------------------------------------------------------------------
(* From what a text says to an instant                                     *)

Present(picture) == {picture[i].c : i \in DOMAIN picture} \ {"literal"}
WeekDate(present) == present \intersect {"D", "d"} = {} /\ present \intersect {"W", "w", "F"} # {}
dateFields(present) ==
  CASE WeekDate(present) ->
         <<"Y">> \o (IF present \intersect {"M", "w"} # {} THEN <<"M">> ELSE <<>>)
           \o (IF "w" \in present THEN <<"w">> ELSE <<"W">>) \o <<"F">>
    [] "d" \in present /\ present \intersect {"M", "D"} = {} -> <<"Y", "d">>
    [] OTHER -> <<"Y", "M", "D">>
HalfDays(present) == "H" \notin present /\ present \intersect {"h", "P"} # {}
timeFields(present) ==
  (IF HalfDays(present) THEN <<"P", "h">> ELSE <<"H">>) \o <<"m", "s", "f">>
Fields(present) == dateFields(present) \o timeFields(present)

\* Present fields stand together: what is left out before them is of now,
\* what is left out after them is the least.
InternalGap(present) ==
  LET fs == Fields(present)
  IN \E i, j, k \in DOMAIN fs : i < j /\ j < k /\ fs[i] \in present /\ fs[j] \notin present /\ fs[k] \in present
Before(present, i) == \A j \in 1 .. i : Fields(present)[j] \notin present
Least0(c) == IF c \in {"M", "D", "d", "W", "w", "F"} THEN 1 ELSE 0
FieldValues(supplied, present, fields, now) ==
  LET Supplied(c) == supplied[CHOOSE i \in DOMAIN supplied : supplied[i][1] = c][2]
      Left(i) == IF Before(present, i) THEN now[fields[i]] ELSE Least0(fields[i])
  IN [c \in present \union Range(fields) |->
        IF c \in present THEN Supplied(c) ELSE Left(CHOOSE i \in DOMAIN fields : fields[i] = c)]

\* The days of a year with this month, week, week of month and weekday, those
\* of them that count.
WeekDays(present, y, v) ==
  {day \in FirstDay(y) .. FirstDay(y) + YearLength(y) - 1 :
     /\ ISODay(day) = v["F"]
     /\ present \intersect {"M", "w"} # {} => Calendar(day).M = v["M"]
     /\ ("W" \in present \/ "w" \notin present) => ISOWeek(day) = v["W"]
     /\ "w" \in present => weekOfMonth(day) = v["w"]}
Days(present, y, v) ==
  CASE y \notin -271821 .. 275760 -> {}
    [] y \in -271821 .. 275760 /\ WeekDate(present) -> WeekDays(present, y, v)
    [] y \in -271821 .. 275760 /\ dateFields(present) = <<"Y", "d">> ->
         IF v["d"] \in 1 .. YearLength(y) THEN {FirstDay(y) + v["d"] - 1} ELSE {}
    [] OTHER -> IF v["M"] \in 1 .. 12 /\ v["D"] \in 1 .. DaysIn(y, v["M"])
                THEN {DayNumber(y, v["M"], v["D"])} ELSE {}
Hour(present, v) ==
  CASE ~HalfDays(present) -> v["H"]
    [] HalfDays(present) /\ v["P"] = 1 /\ v["h"] # 12 -> v["h"] + 12
    [] HalfDays(present) /\ v["P"] = 0 /\ v["h"] = 12 -> 0
    [] OTHER -> v["h"]
TimeOn(day, hour, v) ==
  Shift([day |-> day, sec |-> hour * 3600 + v["m"] * 60 + v["s"], ms |-> v["f"] % 1000], v["f"] \div 1000)

\* Mutant: the components that did not choose the day are not compared.
Contradicts_Never(present, v, says) == FALSE
\* What the text says besides must be so on that day.
Contradicts(present, v, says) ==
  \E c \in present \intersect {"h", "P", "W", "w", "F", "d"} : says[c] # v[c]
InUTC(local, offsets) == IF offsets = {} THEN local ELSE Shift(local, -(CHOOSE o \in offsets : TRUE))
\* The half day is of the hour read, before a fraction may have moved it.
Agreed(present, v, offsets, hour, local) ==
  IF Contradicts(present, v, SaysOn(Calendar(local.day), hour, local)) \/ Cardinality(offsets) > 1 \/ ~InRange(InUTC(local, offsets))
  THEN Malformed("D3110") ELSE At(InUTC(local, offsets))
\* The instant of the day and the hour found, or why there is none.
Only(present, v, offsets, days, hour) ==
  IF HalfDays(present) /\ v["h"] \notin 1 .. 12 THEN Malformed("D3110")
  ELSE IF Cardinality(days) > 1 THEN Malformed("D3136")
  ELSE IF days # {} /\ hour \in 0 .. 23 /\ v["m"] \in 0 .. 59 /\ v["s"] \in 0 .. 59
  THEN Agreed(present, v, offsets, hour, TimeOn(CHOOSE d \in days : TRUE, hour, v))
  ELSE Malformed("D3110")
Assemble(present, v, offsets) ==
  Only(present, v, offsets,
       Days(present, IF "E" \in present /\ v["E"] < 0 THEN -v["Y"] ELSE v["Y"], v), Hour(present, v))

Offsets(supplied) == {supplied[i][2] : i \in {j \in DOMAIN supplied : supplied[j][1] \in {"Z", "z"}}}
Understood(parsed, present, now) ==
  CASE present = {} \/ parsed.code = "undefined" -> Undefined
    [] present # {} /\ parsed.code = "D3110" -> Malformed("D3110")
    [] present # {} /\ parsed.code = "ok" /\ InternalGap(present) -> Malformed("D3136")
    [] OTHER -> Assemble(present, FieldValues(parsed.supplied, present, Fields(present), Says(now)),
                         Offsets(parsed.supplied))
parseWithPicture(text, picture, now) == Understood(ParseParts(text, picture), Present(picture), now)
=============================================================================
