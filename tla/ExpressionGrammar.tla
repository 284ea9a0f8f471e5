-------------------------- MODULE ExpressionGrammar --------------------------
(***************************************************************************)
(* What an expression means as a text: the table of how tightly its        *)
(* operators hold, the trees that can be written without parentheses, and  *)
(* how they are written. The parser knows none of this: it has numbers.    *)
(***************************************************************************)
EXTENDS ExpressionParser

\* The operators from the loosest to the tightest; a op b op c is a op (b op c)
\* for those fromTheRight; those that takeAll have any right operand; those
\* onlyInArrays stand between the two ends of an item; and what the parts of a
\* transform hold tighter than.
Comparisons == {"=", "!=", "<", ">", "<=", ">=", "in", "^"}
Go == [table |-> << {":="}, {"?", "?:", "??", ".."}, {"or"}, {"and"}, Comparisons, {"~>"},
                    {"+", "-", "&"}, {"*", "/", "%"}, {"{"}, {".", "@", "#"}, {"[", "("} >>,
       fromTheRight |-> {":=", "?:", "??", "..", "~>", "."},
       takeAll |-> {}, onlyInArrays |-> {}, patternsStopAt |-> "?"]
JavaScript == [table |-> << {":="}, {"?"}, {"or"}, {"and"}, Comparisons \union {"~>", "?:", "??"},
                            {"+", "-", "&"}, {"*", "/", "%"}, {"{"}, {"."}, {"[", "(", "@", "#"} >>,
               fromTheRight |-> {":="},
               takeAll |-> {"?:", "??", ".."}, onlyInArrays |-> {".."}, patternsStopAt |-> ""]

\* An operator that no level has ends every other.
Hold(g, op) ==
  LET levels == {level \in DOMAIN g.table : op \in g.table[level]}
  IN IF levels = {} THEN 0 ELSE 2 * (CHOOSE level \in levels : TRUE)
\* How tightly the right operand is held: a minus sign holds like a grouping.
HoldRight(g, op) ==
  CASE op \in g.takeAll -> 0 [] op \in g.fromTheRight -> Hold(g, op) - 1 [] OTHER -> Hold(g, op)
Tightest == 2 * Len(Go.table) + 1  \* the longer of the two

Flags(n) == (IF n.keep THEN {"["} ELSE {}) \union (IF n.focus # "" THEN {"@"} ELSE {})
              \union (IF n.index # "" THEN {"#"} ELSE {}) \union (IF n.grouped THEN {"{"} ELSE {})
Bare(n) == [n EXCEPT !.keep = FALSE, !.focus = "", !.index = "", !.group = <<>>, !.grouped = FALSE]
InfixOf(n) == CASE n.type = "binary" -> {n.value}
                [] n.type = "condition" -> {"?"}
                [] n.type = "bind" -> {":="}
                [] n.type = "sort" -> {"^"}
                [] n.type \in {"function", "partial"} -> {"("}
                [] OTHER -> {}
Negative(n) == n.type = "unary" \/ n.minus
EndsOpen(n) == n.type \in {"condition", "bind"} \/ Negative(n) \/ (n.type = "binary" /\ n.value # "[")

\* How loosely an operator of this text may be taken by one on its left.
RECURSIVE LooseLeft(_, _), LooseRight(_, _)
Loosest(S) == IF S = {} THEN Tightest ELSE CHOOSE x \in S : \A y \in S : x <= y
LooseLeft(g, n) ==
  Loosest({Hold(g, op) : op \in Flags(n) \union InfixOf(n)}
            \union (IF InfixOf(n) = {} THEN {} ELSE {LooseLeft(g, n.kids[1])}))
\* ... and how loosely the last operand of this text holds.
LooseRight(g, n) ==
  IF Flags(n) # {} \/ ~EndsOpen(n) THEN Tightest
  ELSE LET own == CASE n.type = "binary" -> HoldRight(g, n.value)
                    [] n.type = "bind" -> HoldRight(g, ":=")
                    [] Negative(n) -> Hold(g, "{")
                    [] n.type = "condition" -> 0
       IN Loosest({own} \union (IF n.kids = <<>> THEN {} ELSE {LooseRight(g, Last(n.kids))}))
\* A condition without alternative would take the next colon for its own.
RECURSIVE EndsInCondition(_)
EndsInCondition(n) ==
  /\ Flags(n) = {} /\ EndsOpen(n)
  /\ (n.type = "condition" /\ Len(n.kids) = 2) \/ (n.kids # <<>> /\ EndsInCondition(Last(n.kids)))

Ranged(g, n) == n.type = "binary" /\ n.value \in g.onlyInArrays
\* Can the tree be written as it is, without parentheses?
RECURSIVE Writable(_, _)
Writable(g, n) ==
  /\ \A i \in DOMAIN n.kids : Writable(g, n.kids[i])
  /\ \A i \in DOMAIN n.group : Writable(g, n.group[i])
  /\ \A op \in InfixOf(n) : Hold(g, op) <= LooseRight(g, n.kids[1])
  /\ \A op \in Flags(n) : Hold(g, op) <= LooseRight(g, Bare(n))
  /\ n.type = "binary" /\ n.value # "[" => LooseLeft(g, n.kids[2]) > HoldRight(g, n.value)
  /\ n.type = "unary" => LooseLeft(g, n.kids[1]) > Hold(g, "{") /\ n.kids[1].type # "number"
  /\ n.type = "bind" => n.kids[1].type = "variable" /\ Flags(n.kids[1]) = {}
  /\ n.type = "transform" => \A i \in DOMAIN n.kids : LooseLeft(g, n.kids[i]) > Hold(g, g.patternsStopAt)
  /\ n.type # "array" => \A i \in DOMAIN n.kids : ~Ranged(g, n.kids[i])
  /\ \A i \in DOMAIN n.group : ~Ranged(g, n.group[i])
  /\ n.type = "condition" /\ Len(n.kids) = 3 => ~EndsInCondition(n.kids[2])
  /\ \A i \in DOMAIN n.group : i % 2 = 1 => ~EndsInCondition(n.group[i])
  /\ n.type = "object" => \A i \in DOMAIN n.kids : i % 2 = 1 => ~EndsInCondition(n.kids[i])
  /\ n.type = "binary" /\ n.value = "[" => ~n.kids[1].grouped
  /\ n.focus # "" => n.type # "sort" /\ ~(n.type = "binary" /\ n.value = "[")

\* A text, a blank after each of its tokens.
Chars(op) == IF \E d \in DOMAIN Doubles : Doubles[d][1] = op
             THEN LET d == CHOOSE d \in DOMAIN Doubles : Doubles[d][1] = op
                  IN <<Op(Doubles[d][2]), Op(Doubles[d][3]), Blank>>
             ELSE <<Op(op), Blank>>
RECURSIVE Spell(_)
Listed(nodes) ==  \* with commas between
  FlattenSeq([i \in DOMAIN nodes |-> (IF i = 1 THEN <<>> ELSE Chars(",")) \o Spell(nodes[i])])
Pairs(nodes) ==
  FlattenSeq([i \in DOMAIN nodes |->
    (IF i = 1 THEN <<>> ELSE IF i % 2 = 0 THEN Chars(":") ELSE Chars(",")) \o Spell(nodes[i])])
Enclosed(open, text, close) == Chars(open) \o text \o Chars(close)
SpellBare(n) ==
  LET kids == n.kids
  IN CASE n.minus -> Chars("-") \o <<Symbol("number", n.value), Blank>>
       [] n.type = "regex" -> <<Op("/"), Symbol("name", n.value)>> \o Chars("/")
       [] n.type = "name" /\ n.value \in {"and", "or", "in"} -> Chars(n.value)
       [] n.type \in {"wildcard", "descendant", "parent", "operator"} -> Chars(n.value)
       [] n.type = "binary" /\ n.value # "[" -> Spell(kids[1]) \o Chars(n.value) \o Spell(kids[2])
       [] n.type = "binary" /\ n.value = "[" -> Spell(kids[1]) \o Enclosed("[", Spell(kids[2]), "]")
       [] n.type = "unary" -> Chars("-") \o Spell(kids[1])
       [] n.type = "array" -> Enclosed("[", Listed(kids), "]")
       [] n.type = "object" -> Enclosed("{", Pairs(kids), "}")
       [] n.type = "block" -> Enclosed("(", FlattenSeq([i \in DOMAIN kids |->
                                (IF i = 1 THEN <<>> ELSE Chars(";")) \o Spell(kids[i])]), ")")
       [] n.type = "bind" -> Spell(kids[1]) \o Chars(":=") \o Spell(kids[2])
       [] n.type = "condition" -> Spell(kids[1]) \o Chars("?") \o Spell(kids[2])
                                    \o (IF Len(kids) = 3 THEN Chars(":") \o Spell(kids[3]) ELSE <<>>)
       [] n.type \in {"function", "partial"} -> Spell(kids[1]) \o Enclosed("(", Listed(Tail(kids)), ")")
       [] n.type = "sort" -> Spell(kids[1]) \o Chars("^") \o Enclosed("(", Listed(Tail(kids)), ")")
       [] n.type = "term" -> Chars(n.value) \o Spell(kids[1])
       [] n.type = "lambda" -> <<Symbol("name", "function")>> \o Enclosed("(", Listed(Front(kids)), ")")
                                 \o (IF n.value = "" THEN <<>> ELSE Enclosed("<", <<Symbol("name", n.value)>>, ">"))
                                 \o Enclosed("{", Spell(Last(kids)), "}")
       [] n.type = "transform" -> Enclosed("|", Spell(kids[1]) \o Chars("|") \o Spell(kids[2])
                                    \o (IF Len(kids) = 3 THEN Chars(",") \o Spell(kids[3]) ELSE <<>>), "|")
       [] n.type = "path" -> FlattenSeq([i \in DOMAIN kids |->
                               (IF i = 1 THEN <<>> ELSE Chars(".")) \o Spell(kids[i])])
       [] OTHER -> <<Symbol(n.type, n.value), Blank>>
Spell(n) ==
  SpellBare(n)
    \o (IF n.keep /\ n.type # "path" THEN Enclosed("[", <<>>, "]") ELSE <<>>)
    \o (IF n.focus # "" THEN Chars("@") \o <<Symbol("variable", n.focus)>> ELSE <<>>)
    \o (IF n.index # "" THEN Chars("#") \o <<Symbol("variable", n.index)>> ELSE <<>>)
    \o (IF n.grouped THEN Enclosed("{", Pairs(n.group), "}") ELSE <<>>)

-----------------------------------------------------------------------------
(* Trees that the parser and the pass after it are known to get wrong      *)

RECURSIVE EndOf(_), StartsWithRegex(_)
\* The part of a tree that its text ends with.
EndOf(n) == IF Flags(n) = {} /\ EndsOpen(n) /\ n.kids # <<>> THEN EndOf(Last(n.kids)) ELSE n
EndsLate(n) ==
  LET end == EndOf(n)
  IN /\ Flags(end) = {}
     /\ \/ end.type \in {"lambda", "transform"}
        \/ end.type = "binary" /\ end.value = "["
        \/ end.type = "block" /\ Len(end.kids) > 1
StartsWithRegex(n) ==
  n.type = "regex" \/ (InfixOf(n) # {} /\ StartsWithRegex(n.kids[1]))
\* A / after the end of a subscript, a block of several expressions, a lambda
\* or a transform is taken for the other / that it could be (ConsumeLate).
MisreadSlash(tree) ==
  \E n \in Within(tree) :
    \/ /\ n.type = "binary" /\ n.value # "[" /\ EndsLate(n.kids[1])
       /\ n.value = "/" \/ StartsWithRegex(n.kids[2])
    \/ n.grouped /\ EndsLate(Bare(n)) /\ StartsWithRegex(n.group[1])
\* The parser of the JavaScript engine does so after an empty predicate, a
\* sort, a lambda or a transform.
ReadsRegexAfter(n) ==
  LET end == EndOf(n)
  IN \/ Flags(end) = {"["}
     \/ Flags(end) = {} /\ end.type \in {"sort", "lambda", "transform"}
MisreadQuotient(tree) ==
  \E n \in Within(tree) : n.type = "binary" /\ n.value = "/" /\ ReadsRegexAfter(n.kids[1])
\* The parser of the JavaScript engine makes the condition of ?: and ?? from
\* JSON of the left operand, which holds no regular expression or signature.
LostInClone(tree) ==
  \E n \in Within(tree) : /\ n.type = "binary" /\ n.value \in {"?:", "??"}
                          /\ \E m \in Within(n.kids[1]) :
                               m.type = "regex" \/ (m.type = "lambda" /\ m.value # "")
\* The pass does not visit the grouping of a node that is not a leaf...
UnvisitedGrouping(tree) ==
  \E n \in Within(tree) : /\ n.grouped /\ ~IsDot(n) /\ ~IsLeaf(n)
                          /\ \E i \in DOMAIN n.group : \E m \in Within(n.group[i]) : IsDot(m) \/ m.type = "lambda"
\* ... and drops the one of a path that goes on after it.
DroppedGrouping(tree) ==
  \E n \in Within(tree) : IsDot(n) /\ IsDot(n.kids[1]) /\ n.kids[1].grouped
=============================================================================
