------------------------------ MODULE Language ------------------------------
(***************************************************************************)
(* One evaluation after another calls a function of the Go library, or     *)
(* hands a text to the parsers of both engines, and hands the result to    *)
(* what undoes it or goes on from it. The functions are those of the       *)
(* modules extended here; the invariants say what a result must be.        *)
(***************************************************************************)
EXTENDS IntegerFunctions, NumberFunctions, DatePicture

JS == INSTANCE JSParser
Syntax == INSTANCE ExpressionGrammar

CONSTANTS
  Texts,          \* trees whose text is compiled
  DateCalls,      \* [t, other, split, offset, picture]
  Now             \* the clock of the evaluations

\* A text is written by one call, or put together from the texts of two
\* times: the parts after split say something of another time.
DateText(c) ==
  LET one == fnFromMillis(c.t, c.offset, SubSeq(c.picture, 1, c.split))
      two == fnFromMillis(c.other, c.offset, SubSeq(c.picture, c.split + 1, Len(c.picture)))
  IN IF "text" \in DOMAIN one /\ "text" \in DOMAIN two THEN [text |-> one.text \o two.text]
     ELSE Malformed("D3110")
FromMillis == \E c \in DateCalls : Begin("fromMillis", c, DateText(c))
ToMillis ==
  Continue("fromMillis", "toMillis", parseWithPicture(result.text, call.args.picture, Now))

Compiled(text) == [go |-> Syntax!Parse(text), js |-> JS!parser(text)]
Parse == \E t \in Texts : Begin("parse", t, Compiled(Syntax!Spell(t)))
Process ==
  /\ call.op = "parse" /\ "node" \in DOMAIN result.go
  /\ call' = [call EXCEPT !.op = "process"]
  /\ result' = [node |-> Syntax!ProcessAST(result.go.node)]

LanguageNext ==
  \/ FormatInteger \/ ParseInteger
  \/ FromMillis \/ ToMillis
  \/ FormatNumber \/ Loop
  \/ Parse \/ Process
  \/ Return
LanguageSpec == LanguageInit /\ [][LanguageNext]_languageVars

-----------------------------------------------------------------------------
(* Dates                                                                   *)

Widths(part) == part.c # "literal" /\ modifierFieldWidth(part) = 0
WritesDigits(part) ==
  part.as \in {"digits", "cut", "ordinal"} \/ (part.c \in {"Z", "z"} /\ part.as # "military")

\* What is written of this part can be told from what follows and names one
\* value of it.
Legible(says, offset, part, next) ==
  /\ Widths(part) => ~WritesDigits(next)
  /\ part.as \in {"digits", "cut"} /\ modifierFieldWidth(part) > 0 /\ part.c \notin {"Z", "z", "f"} =>
       says[part.c] < 10 ^ part.n
  /\ part.c = "f" => part.n = 1 \/ says.f % 10 ^ (3 - part.n) = 0
  /\ IsName(part) /\ part.c \in {"M", "F"} => SameLetters(part.c, says[part.c], part.n) = {says[part.c]}
  /\ part.c = "M" /\ part.as = "lower" => part.n = 9
  /\ part.as \in {"roman", "letters"} => says[part.c] > 0
  /\ part.as \in {"words", "ordinalwords"} => says[part.c] < 100000
  /\ part.c = "z" /\ part.as = "name" => offset = 0

\* What a part is followed by begins with a letter, which hides a last word.
RunsOn(picture, i, says, offset) ==
  /\ picture[i].as \in {"words", "ordinalwords", "roman", "letters"}
  /\ LetterAt(FlattenSeq([k \in 1 .. Len(picture) - i |-> formatPicturePart(says, offset, picture[i + k])]), 1)

\* The picture says enough of t for it to be read back: what it leaves out is
\* the present before its first component and the least after its last.
Determines(picture, present, fields, says, offset) ==
  /\ \A i \in DOMAIN picture :
       /\ ~RunsOn(picture, i, says, offset)
       /\ Legible(says, offset, picture[i],
                  IF i < Len(picture) THEN picture[i + 1] ELSE Literal("end"))
  /\ present # {} /\ ~InternalGap(present)
  /\ \A i \in DOMAIN fields : fields[i] \notin present =>
       says[fields[i]] = IF Before(present, i) THEN Says(Now)[fields[i]] ELSE Least0(fields[i])
  /\ "E" \in present \/ says.E = 0
  /\ present \intersect {"Z", "z"} # {} \/ offset = 0

\* A day of the same year that the components of the picture do not tell
\* from this day.
SaysOf(present, day) ==
  LET says == Says([day |-> day, sec |-> 0, ms |-> 0])
  IN [c \in present \intersect {"M", "W", "w", "F"} |-> says[c]]
Ambiguous(present, day) ==
  /\ WeekDate(present)
  /\ \E d \in (day - 366 .. day + 366) \ {day} :
       YearOf(d) = YearOf(day) /\ ISODay(d) = ISODay(day) /\ SaysOf(present, d) = SaysOf(present, day)

OffsetOf(text, picture) ==
  LET supplied == ParseParts(text, picture).supplied
      zones == {i \in DOMAIN supplied : supplied[i][1] \in {"Z", "z"}}
  IN IF zones = {} THEN 0 ELSE supplied[Max(zones)][2]

\* $toMillis takes a text for a time only if that time is written as this
\* text: parts that contradict each other (a 30th of February, the wrong
\* weekday, 12 o'clock and p.m. at 3) are refused.  And a time the picture
\* determines is read back, unless two days of its year are written alike.
WrittenAgain(instant, text, c) ==
  fnFromMillis(instant, OffsetOf(text, c.picture), c.picture) = [text |-> text]
ReadBack(c, present, local) ==
  Determines(c.picture, present, Fields(present), Says(local), c.offset) =>
    result = IF Ambiguous(present, local.day) THEN Malformed("D3136") ELSE At(c.t)
DatesReadBack ==
  call.op = "toMillis" =>
    LET c == call.args
    IN /\ "instant" \in DOMAIN result => WrittenAgain(result.instant, DateText(c).text, c)
       /\ c.split = Len(c.picture) => ReadBack(c, Present(c.picture), Shift(c.t, c.offset))

-----------------------------------------------------------------------------
(* Expressions                                                             *)

\* A tree as the parser of the JavaScript engine makes it: what is appended to
\* a step are operators of it, and an alternative is a condition.
RECURSIVE JSTree(_)
JSTree(n) ==
  LET kids == [i \in DOMAIN n.kids |-> JSTree(n.kids[i])]
      bare == [Syntax!Bare(n) EXCEPT !.kids = kids, !.minus = FALSE]
      Marked(op, node, name) == IF name = "" THEN node ELSE Syntax!Binary(op, node, Syntax!Node("variable", name, <<>>))
      core == CASE n.minus -> Syntax!Node("unary", "-", <<bare>>)
                [] n.type = "binary" /\ n.value = "?:" -> Syntax!Node("condition", "", <<kids[1], kids[1], kids[2]>>)
                [] n.type = "binary" /\ n.value = "??" ->
                     Syntax!Node("condition", "", <<JS!Exists(kids[1]), kids[1], kids[2]>>)
                [] n.type = "lambda" /\ n.value # "" -> [bare EXCEPT !.value = "<" \o @ \o ">"]
                [] OTHER -> bare
      kept == IF n.keep THEN JS!KeepArray(core) ELSE core
      marked == Marked("#", Marked("@", kept, n.focus), n.index)
  IN IF n.grouped THEN Syntax!Node("binary", "{", <<marked>> \o [i \in DOMAIN n.group |-> JSTree(n.group[i])])
     ELSE marked

\* A whole text in the grammar of an engine: no range stands outside an array.
Alone(g, tree) == Syntax!Writable(g, tree) /\ ~Syntax!Ranged(g, tree)

\* A tree that can be written without parentheses is read back from its text,
\* by either parser in its own grammar: no operator takes an operand that
\* another holds tighter, and a / divides after a value and opens a regular
\* expression elsewhere.
TextsAreTheirTrees ==
  call.op = "parse" =>
    /\ Alone(Syntax!Go, call.args) /\ ~Syntax!MisreadSlash(call.args) =>
         result.go = [node |-> call.args]
    /\ Alone(Syntax!JavaScript, call.args) /\ ~Syntax!MisreadQuotient(call.args)
         /\ ~Syntax!LostInClone(call.args) =>
         result.js = [node |-> JSTree(call.args)]

\* After a value (lexer.go: "closing bracket, identifier, etc.") a / divides:
\* a quotient is read as one, whatever its dividend ends with.
SlashDividesAfterValue ==
  call.op = "parse" /\ call.args.type = "binary" /\ call.args.value = "/" => result.go = [node |-> call.args]

\* The pass over the tree loses nothing and leaves nothing behind: what it
\* makes is written as before, but for the strings that become names, and has
\* no dot left that the evaluator could not evaluate.
PassKeepsEverything ==
  call.op = "process" /\ ~Syntax!UnvisitedGrouping(call.args) /\ ~Syntax!DroppedGrouping(call.args) =>
    LET Named(text) == [i \in DOMAIN text |-> IF text[i].t = "string" THEN Syntax!Symbol("name", text[i].v) ELSE text[i]]
    IN /\ Named(Syntax!Spell(result.node)) = Named(Syntax!Spell(call.args))
       /\ \A n \in Syntax!Within(result.node) : ~Syntax!IsDot(n)
=============================================================================
