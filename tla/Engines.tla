------------------------------- MODULE Engines -------------------------------
(***************************************************************************)
(* What an expression means, asked in three ways: of the other engine, of  *)
(* the other way the Go evaluator walks a path, and of an expression that  *)
(* says the same without %.  The expressions of a run are forms on which   *)
(* the engines are one language; the README lists those on which they are  *)
(* not.                                                                    *)
(***************************************************************************)
EXTENDS FastPath

JS == INSTANCE JSEvaluation

Same(v, w) == v.k = w.k /\ IF Failed(v) THEN v = w ELSE DeepEqual(v, w)
\* Up to the singletons and empty arrays that the two walks treat differently.
SameItems(v, w) == IF Failed(v) \/ Failed(w) THEN v = w ELSE Same(Arr(ListOf(v)), Arr(ListOf(w)))
\* No array of arrays; and no empty array or array of one item either.
RECURSIVE Flat(_), Regular(_)
Parts(v) == IF v.k = "object" THEN [i \in DOMAIN v.m |-> v.m[i][2]] ELSE IF v.k = "array" THEN v.c ELSE <<>>
Flat(v) == \A i \in DOMAIN Parts(v) : ~(v.k = "array" /\ Parts(v)[i].k = "array") /\ Flat(Parts(v)[i])
Regular(v) == /\ Flat(v) /\ (v.k = "array" => Len(v.c) > 1)
              /\ \A i \in DOMAIN Parts(v) : Regular(Parts(v)[i])

Answered == stage = "done" /\ route # "none"
Of(ast) == Externalize(Eval(ast, input.value, << ("$" :> input.value) @@ [name \in bound |-> Null] >>))

\* The Go engine answers what the JavaScript engine answers, whichever way it
\* found the answer: the two are separate programs for one language
\* ("deterministic result parity").  A grouping of nothing is left out.
Comparable == ~HasParentRef(expr) /\ (HasGroup(expr) => expr.grouped /\ answer # Undef)
EnginesAgree ==
  Answered /\ Regular(input.value) /\ Comparable =>
    Same(answer, JS!evaluate(expr, input.value, bound))

\* A position that nothing asks for changes nothing: evalPathSimple walks whole
\* values and evalPathTuple a list of contexts, and they come to the same items.
WithIndex(ast, i) == [ast EXCEPT !.kids[i].index = "unused"]
Countable(step) == step.index = "" /\ step.focus = "" /\ ~step.grouped
TuplesAgree ==
  Answered /\ Flat(input.value) /\ Ast.type = "path" /\ ~Ast.grouped =>
    \/ \E i \in DOMAIN Ast.kids : Ast.kids[i].type = "array"
    \/ \A i \in {j \in DOMAIN Ast.kids : Countable(Ast.kids[j])} : SameItems(answer, Of(WithIndex(Ast, i)))

\* % is what $ was where the step before it was taken: s . % . t is
\* ($p := $; s . ($p . t)), whatever lists the walk goes through.  A position
\* that s binds is lost above it.
Remembered(ast, k) ==
  LET P == Syntax!Node("variable", "p", <<>>)
      Block(kids) == Syntax!Node("block", "", kids)
      here == Syntax!Node("bind", "", <<P, Syntax!Node("variable", "", <<>>)>>)
      back == Block(<<Syntax!Node("path", "", <<P>> \o SubSeq(ast.kids, k + 1, Len(ast.kids)))>>)
  IN [ast EXCEPT !.kids = SubSeq(@, 1, k - 2) \o <<Block(<<here, Syntax!Node("path", "", <<@[k - 1], back>>)>>)>>]
ParentIsContext ==
  Answered /\ Flat(input.value) /\ Ast.type = "path" =>
    \A k \in {j \in 2 .. Len(Ast.kids) : Ast.kids[j].type = "parent" /\ Ast.kids[j - 1].index = ""} :
      SameItems(answer, Of(Remembered(Ast, k)))
=============================================================================
