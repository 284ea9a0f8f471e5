----------------------------- MODULE MCLanguage -----------------------------
(* Bounded instances of Language: the calls TLC makes. *)
EXTENDS Language

SomeScales == << <<"million", 1000000>>, <<"thousand", 1000>> >>

(* Integers: at every change of words and digits, and beyond the scales. *)
Ints == (0 .. 40) \union {77, 99, 100, 101, 119, 999, 1000, 1001, 1099, 1100, 3999, 20000, 99999, 100000,
          123456, 999999, 1000000, 1000100, 1001000, 1007000000, 2000000000} \union {-1, -25, -1234}
DecimalChars == {[c |-> "digit", v |-> "0"], [c |-> "digit", v |-> "u"], [c |-> "#", v |-> ""],
                 [c |-> "sep", v |-> ","], [c |-> "sep", v |-> "."]}
OfKind(kind, ordinal) == [kind |-> kind, decimal |-> <<>>, ordinal |-> ordinal]
OfDigits(text, ordinal) == [kind |-> "decimal", decimal |-> text, ordinal |-> ordinal]
SomeIntegerCalls ==
  {<<n, OfKind(kind, o)>> : n \in Ints, kind \in {"words", "letter"}, o \in BOOLEAN}
    \union {<<n, OfKind("roman", FALSE)>> : n \in {i \in Ints : i < 10000}}
    \union {<<n, OfDigits(d, o)>> : n \in {0, 5, 1234, 123456, -25}, o \in BOOLEAN,
                                    d \in UNION {[1 .. k -> DecimalChars] : k \in 1 .. 3}}
    \union {<<n, OfDigits(d, FALSE)>> : n \in {1234, 123456}, d \in [1 .. 4 -> DecimalChars]}

(* Dates: the ends of years, months, days and ISO weeks, and far away. *)
L(text) == Literal(text)
d1(c) == Part(c, "digits", 1)
d2(c) == Part(c, "digits", 2)
Year4 == Part("Y", "digits", 4)
Date == <<Year4, L("-"), d2("M"), L("-"), d2("D")>>
DatePictures == {
  Date, <<Year4, d2("M"), d2("D")>>,
  <<d1("D"), L(" "), Part("M", "name", 9), L(" "), d1("Y")>>,
  <<Part("D", "ordinal", 1), L(" "), Part("M", "abbr", 3), L(" "), Part("Y", "cut", 2)>>,
  <<Part("D", "words", 1), L(" "), Part("M", "roman", 1), L(" "), Part("Y", "ordinalwords", 1)>>,
  <<Part("D", "words", 1), L("-"), d1("M"), L("-"), Part("Y", "words", 1)>>,
  <<Part("Y", "words", 1), L("-"), d1("M"), L("-"), Part("D", "ordinalwords", 1), L(" ")>>,
  <<Part("D", "letters", 1), L(" "), Part("M", "lower", 9), L(" "), d1("E"), d1("Y")>>,
  <<d1("Y"), L("-"), d1("d")>>,
  <<d1("Y"), L("-"), d1("W"), L("-"), d1("F")>>,
  <<d1("Y"), L("-"), d1("M"), L("-"), d1("w"), L("-"), Part("F", "name", 9)>>,
  <<d1("Y"), L("-"), d1("M"), L("-"), d1("W"), L("-"), Part("F", "abbr", 3)>>,
  <<Part("F", "abbr", 1), L(" "), Part("M", "abbr", 1), L(" "), d1("D"), L(" "), d1("Y")>>,
  <<d1("Y"), L("-"), d1("D")>>, <<d1("M"), L("-"), d1("D")>>, <<d1("D")>>, <<d1("Y")>> }
TimePictures == {
  <<>>, <<L("T"), d2("H"), L(":"), d2("m"), L(":"), d2("s"), L("."), Part("f", "digits", 3)>>,
  <<L("T"), d1("h"), L(":"), d2("m"), Part("P", "name", 1)>>,
  <<L("T"), Part("P", "name", 1)>>, <<L("T"), d1("H"), L("h"), Part("f", "digits", 2)>> }
ZonePictures == {
  <<[Part("Z", "colon", 4) EXCEPT !.utc = TRUE]>>, <<Part("z", "name", 4)>>,
  <<Part("Z", "military", 4)>>, <<Part("Z", "digits", 1)>>, <<Part("z", "digits", 4)>> }
Time(y, m, d, sec, ms) == [day |-> DayNumber(y, m, d), sec |-> sec, ms |-> ms]
Times == {Time(2026, 1, 1, 0, 0), Time(2025, 12, 29, 43200, 0), Time(2024, 2, 29, 3661, 120),
          Time(2024, 12, 31, 86399, 999), Time(2027, 1, 3, 46800, 5), Time(5, 3, 31, 0, 0),
          Time(-4, 3, 30, 0, 0), Time(12345, 6, 15, 0, 0)}
Others == {Time(2026, 1, 31, 0, 0), Time(2027, 4, 6, 46800, 5), Time(2026, 2, 6, 43200, 0)}
DateCall(t, other, split, offset, picture) ==
  [t |-> t, other |-> other, split |-> split, offset |-> offset, picture |-> picture]
SomeDateCalls ==
  {DateCall(t, t, Len(p), 0, p) : t \in Times, p \in {a \o b : a \in DatePictures, b \in TimePictures}}
    \union {DateCall(t, t, Len(p), o, p) : t \in Times, o \in {0, 19800, -12600},
              p \in {Date \o a \o b : a \in TimePictures, b \in ZonePictures}}
    \union {DateCall(t, o, k, 0, p) : t \in Times, o \in Others, k \in {1, 3, 5, 7},
              p \in {q \o <<L("T"), d1("h"), L(":"), d2("m"), Part("P", "name", 1)>> :
                       q \in {r \in DatePictures : Len(r) = 7 \/ r = Date}}}
ThisMorning == Time(2026, 7, 4, 45296, 789)

(* Numbers: either side of the halves and of a new digit. *)
Of(negative, digits, fraction, exp) == Spelling(negative, digits, fraction, exp)
Decimal == {Of(FALSE, <<0>>, 0, 0), Of(FALSE, <<5>>, 1, 0), Of(FALSE, <<1, 5>>, 1, 0), Of(FALSE, <<2, 5>>, 1, 0),
            Of(TRUE, <<2, 5, 1>>, 2, 0), Of(FALSE, <<9, 9, 5>>, 1, 0), Of(FALSE, <<9, 9, 5>>, 3, 0),
            Of(FALSE, <<1, 2, 3, 4, 5, 6, 7>>, 2, 0), Of(TRUE, <<1, 2>>, 0, 3), Of(FALSE, <<4>>, 0, -3),
            Of(FALSE, <<9, 8>>, 2, 0), Of(FALSE, <<1, 0>>, 0, 1)}
Subs == {<<"#">>, <<"0">>, <<"0", ".", "0">>, <<"#", ".", "#">>, <<"0", ".", "0", "#">>, <<".", "0", "0">>,
         <<"#", ",", "#", "0", "0">>, <<"#", ",", "#", "0", ",", "0">>, <<"0", "0", "0", ".", "0", ",", "0", "#">>,
         <<"0", "%">>, <<"x", "0", "m">>, <<"0", ".", "0", "e", "0">>, <<"0", "0", ".", "#", "e", "0", "0">>,
         <<"#", "0", ".", "0", "e", "0">>, <<"#", "e", "0">>, <<".", "0", "e", "0">>, <<"#", ".", "0", "e", "0">>,
         <<"0", ",", ".", "0">>, <<"0", "#">>, <<".", "#", "0">>, <<"0", ",", ",", "0">>, <<"0", "x", "0">>, <<"0", ",", "%", ".", "0">>}
SomeNumberCalls == {<<n, p>> : n \in Decimal, p \in Subs \union {a \o <<";">> \o b : a, b \in {<<"0", ".", "0">>, <<"x", "#">>, <<"#", "%">>}}}

(* Expressions: every operator and form next to every other. *)
N(type, value, kids) == Syntax!Node(type, value, kids)
Leaf(type, value) == N(type, value, <<>>)
a == Leaf("name", "a")
v == Leaf("variable", "v")
one == Leaf("number", "1")
Regex == Leaf("regex", "x")
Bin(op, left, right) == Syntax!Binary(op, left, right)
LeafTrees == {a, v, one, Leaf("string", "s"), Leaf("value", "true"), Leaf("wildcard", "*"), Leaf("descendant", "**"),
           Leaf("parent", "%"), Leaf("name", "and"), [one EXCEPT !.minus = TRUE], Regex}
Infix == Syntax!LeftFirst \union Syntax!RightFirst \union {"."}
WithGroup(x, key, value) == [x EXCEPT !.group = <<key, value>>, !.grouped = TRUE]
\* x in every place of every form.
Around(x) ==
  UNION {{Bin(op, x, a), Bin(op, a, x)} : op \in Infix}
    \union {Bin("[", x, one), Bin("[", a, x), N("unary", "-", <<x>>), N("array", "", <<one, x>>), N("object", "", <<a, x>>),
            N("block", "", <<x>>), N("block", "", <<x, a>>), N("block", "", <<a, x>>), N("bind", "", <<v, x>>),
            N("condition", "", <<x, a>>), N("condition", "", <<a, x>>), N("condition", "", <<x, a, one>>),
            N("condition", "", <<a, x, one>>), N("condition", "", <<a, one, x>>), N("function", "", <<x, a>>),
            N("function", "", <<v, one, x>>), N("partial", "", <<v, Leaf("operator", "?"), x>>),
            N("sort", "", <<x, N("term", ">", <<a>>)>>), N("sort", "", <<a, N("term", "<", <<x>>)>>),
            N("lambda", "", <<v, x>>), N("lambda", "n", <<v, v, x>>),
            N("transform", "", <<x, a>>), N("transform", "", <<a, x, one>>),
            [x EXCEPT !.keep = TRUE], [x EXCEPT !.focus = "f"], [x EXCEPT !.index = "i"],
            WithGroup(a, x, one), WithGroup(x, a, one)}
SomeTrees ==
  LeafTrees \union UNION {Around(x) : x \in LeafTrees} \union UNION {Around(x) : x \in UNION {Around(y) : y \in {a, one}}}
    \union UNION {Around(x) : x \in {Bin(".", a, Bin(op, Leaf("string", "s"), v)) : op \in {".", "["}}}
    \union {Bin(op, Bin("[", a, one), Regex) : op \in {"~>", "="}}
    \union {WithGroup(x, Bin(".", a, v), one) : x \in {a, Bin(".", a, v), Bin("[", a, one), N("array", "", <<>>)}}
    \union {Bin(op, x, a) : op \in {"?:", "??"}, x \in {N("lambda", "n", <<v, a>>), N("lambda", "", <<v, a>>)}}
    \union {Bin(".", WithGroup(Bin(".", a, v), a, one), a)}
SomeTexts == {t \in SomeTrees : Alone(Syntax!Go, t) \/ Alone(Syntax!JavaScript, t)}
\* Quotients, of every kind of dividend.
Quotients == {t \in SomeTrees : t.type = "binary" /\ t.value = "/" /\ Alone(Syntax!Go, t)}
NoCalls == {}
=============================================================================
