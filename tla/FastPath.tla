------------------------------ MODULE FastPath ------------------------------
(***************************************************************************)
(* Selection on raw JSON in the Go engine: the compiler classifies an      *)
(* expression (internal/parser/analysis.go), and the closed executor       *)
(* answers what it classified straight from the bytes, with gjson, when    *)
(* the selected value allows it, and by decoding and evaluating otherwise  *)
(* (json_admission.go, gnata.go, func_fast.go).  Evaluation is that of     *)
(* GoEvaluation; the two are meant to be one language.                     *)
(*                                                                         *)
(* A text with duplicate members is a value too: an object is the sequence *)
(* of its members in the order of the text.  An expression is the tree the *)
(* parser made of its source.                                              *)
(***************************************************************************)
EXTENDS GoEvaluation

CONSTANTS
  Cases,        \* pairs of the tree of an expression and a text it is given:
                \* [valid, escapes : BOOLEAN, value : JSON value]
  Bindings,     \* sets of names the caller binds to JSON values
  Modifiers,    \* field names that start with @
  Specials,     \* field names with a character gjson gives a meaning to
  Position      \* field names that are numerals, with their number

VARIABLES expr, input, bound, cancelled, stage, route, answer
selectionVars == <<expr, input, bound, cancelled, stage, route, answer>>

Pending == [k |-> "pending"]

\* What the engine makes of a tree on a value, with names bound.  A signature
\* that is malformed has been an error of the parser.
Full(tree, v, names) ==
  Strict(ParsedSigs(tree),
    Externalize(Eval(Syntax!ProcessAST(tree), v, << ("$" :> v) @@ [name \in names |-> Null] >>)))

-----------------------------------------------------------------------------
(* Classification of a processed tree                                      *)

IsField(n) == n.type = "name" /\ ~n.grouped /\ n.focus = "" /\ n.value \notin Modifiers
\* Mutant: [] on a step is not looked at.
CollectPaths_KeepsNothing(n) ==
  IsField(n) \/ (n.type = "path" /\ \A i \in DOMAIN n.kids : IsField(n.kids[i]))
\* The group of a path, and the [] of a single name, are not looked at.
CollectPaths(n) ==
  IsField(n) \/ (n.type = "path" /\ \A i \in DOMAIN n.kids : IsField(n.kids[i]) /\ ~n.kids[i].keep)
Fields(n) == IF n.type = "name" THEN <<n.value>> ELSE [i \in DOMAIN n.kids |-> n.kids[i].value]

TryCollectComparison(n) ==
  /\ n.type = "binary" /\ n.value \in {"=", "!="}
  /\ CollectPaths(n.kids[1])
  /\ n.kids[2].type \in {"string", "number", "value"}

FastKinds == {"exists", "count", "type", "keys", "reverse", "sum", "max", "min", "boolean", "not", "distinct"} \union StringFns
TryCollectFunc(n) ==
  /\ n.type = "function" /\ n.kids[1].type = "variable" /\ n.kids[1].value \in FastKinds
  /\ Len(n.kids) = (IF n.kids[1].value = "contains" THEN 3 ELSE 2) /\ CollectPaths(n.kids[2])
  /\ n.kids[1].value = "contains" => n.kids[3].type = "string"

AnalyzeFastPath(n) ==
  IF CollectPaths(n) THEN "path"
  ELSE IF TryCollectComparison(n) THEN "comparison"
  ELSE IF TryCollectFunc(n) THEN "function" ELSE "none"

-----------------------------------------------------------------------------
(* Selection                                                               *)

\* gjson: a member of an object, or the element of an array at a numeral.
\* A name in backticks names the member whose name has the backticks.
GetPart(v, name) ==
  CASE v.k = "object" /\ name \notin Specials -> Member(v, name)
    [] v.k = "array" /\ name \in DOMAIN Position ->
         IF Position[name] < Len(v.c) THEN v.c[Position[name] + 1] ELSE Undef
    [] OTHER -> Undef
Select(n) == FoldLeft(GetPart, input.value, Fields(n))

\* The literal of a comparison or of contains, kept with the expression.
Literal(n) ==
  CASE n.type = "string" -> Str(n.value)
    [] n.type = "number" -> Num(IF n.minus THEN -n.value ELSE n.value)
    [] OTHER -> IF n.value = "null" THEN Null ELSE Bool(n.value = "true")
\* Undef stands for "not handled": the cascade goes on.
EvalComparison(op, v, literal) ==
  CASE v = Undef -> Undef
    [] v.k = "array" -> IF literal = Null THEN Bool(op = "!=") ELSE Undef
    [] v.k = "object" -> Bool(op = "!=")
    [] OTHER -> Bool((v.k = literal.k /\ v = literal) <=> op = "=")

AsciiOnly(v) == v.k = "string" /\ v.ascii
\* What Go's byte-wise functions make of a string: the same as the language
\* for ascii, and another result otherwise.
Bytewise(fn, v, arg) ==
  IF v.ascii /\ arg.ascii THEN StringTerm(fn, v, arg) ELSE Str(<<"bytes", fn, v.s>>)

FuncFastHandler(fn, v, arg) ==
  CASE fn = "exists" -> Bool(TRUE)
    [] fn = "count" -> Num(IF v.k = "array" THEN Len(v.c) ELSE 1)
    [] fn = "type" -> Str(v.k)
    [] fn = "keys" /\ v.k = "object" -> Externalize(Sequence([i \in DOMAIN v.m |-> Str(Keys(v)[i])]))
    [] fn = "reverse" /\ v.k = "array" -> Arr(Reverse(v.c))
    [] fn \in StringFns \ {"trim"} /\ AsciiOnly(v) /\ AsciiOnly(arg) -> Bytewise(fn, v, arg)
    [] fn = "trim" /\ v.k = "string" -> StringTerm(fn, v, arg)
    [] OTHER -> Pending          \* not handled

EvalFunc(fn, v, arg) == IF v = Undef THEN Pending ELSE FuncFastHandler(fn, v, arg)

-----------------------------------------------------------------------------
SelectionInit == /\ \E case \in Cases : expr = case[1] /\ input = case[2]
                 /\ bound \in Bindings
                 /\ cancelled = FALSE /\ stage = "admit" /\ route = "none" /\ answer = Pending

Answer(v, how) == /\ answer' = v /\ route' = how /\ stage' = "done"
                  /\ UNCHANGED <<expr, input, bound, cancelled>>
GoTo(step) == /\ stage' = step
              /\ UNCHANGED <<expr, input, bound, cancelled, route, answer>>
Ast == Syntax!ProcessAST(expr)

\* Selectors validate the whole text before they look at a part of it; a
\* text with \u escapes, and any other expression, is decoded.
Admit ==
  /\ stage = "admit"
  /\ CASE AnalyzeFastPath(Ast) = "none" \/ input.escapes -> GoTo("evaluate")
       [] ~input.valid -> Answer(Failure("input"), "none")
       [] input.valid /\ cancelled -> Answer(Failure("cancelled"), "none")
       [] input.valid /\ ~cancelled /\ ~Unique(input.value) ->
            Answer(Failure("input"), "none")
       [] OTHER -> GoTo("select")

TryPath ==
  /\ stage = "select" /\ AnalyzeFastPath(Ast) = "path"
  /\ LET v == Select(Ast)
     IN CASE cancelled -> Answer(Failure("cancelled"), "none")
          [] ~cancelled /\ v # Undef -> Answer(v, "path")
          [] OTHER -> GoTo("evaluate")

TryComparison ==
  /\ stage = "select" /\ AnalyzeFastPath(Ast) = "comparison"
  /\ LET v == EvalComparison(Ast.value, Select(Ast.kids[1]), Literal(Ast.kids[2]))
     IN CASE cancelled -> Answer(Failure("cancelled"), "none")
          [] ~cancelled /\ v # Undef -> Answer(v, "comparison")
          [] OTHER -> GoTo("evaluate")

TryFunc ==
  /\ stage = "select" /\ AnalyzeFastPath(Ast) = "function"
  /\ LET arg == IF Len(Ast.kids) = 3 THEN Literal(Ast.kids[3]) ELSE Str("")
         v == EvalFunc(Ast.kids[1].value, Select(Ast.kids[2]), arg)
     IN CASE cancelled -> Answer(Failure("cancelled"), "none")
          [] ~cancelled /\ v # Pending -> Answer(v, "function")
          [] OTHER -> GoTo("evaluate")

EvaluateDecoded ==
  /\ stage = "evaluate"
  /\ CASE ~(input.valid /\ Unique(input.value)) -> Answer(Failure("input"), "none")
       [] input.valid /\ Unique(input.value) /\ cancelled ->
            Answer(Failure("cancelled"), "none")
       [] OTHER -> Answer(Full(expr, input.value, bound), "full")

Cancel == /\ stage # "done" /\ ~cancelled
          /\ cancelled' = TRUE
          /\ UNCHANGED <<expr, input, bound, stage, route, answer>>

SelectionNext == Admit \/ TryPath \/ TryComparison \/ TryFunc \/ EvaluateDecoded \/ Cancel
SelectionSpec == SelectionInit /\ [][SelectionNext]_selectionVars
-----------------------------------------------------------------------------
(* Properties                                                              *)

Selection == {"path", "comparison", "function"}
Meaning == IF input.valid /\ Unique(input.value) THEN Full(expr, input.value, bound)
           ELSE Failure("input")

\* However it is found, the answer is the meaning of the expression on the
\* whole text: a text with a duplicate member or broken syntax anywhere is
\* refused even when the selected part is sound, arrays are mapped over, null
\* is not undefined, and a string no byte-wise function can be trusted with is
\* left to the evaluator (EvalBytesWithVars against Eval).
OneMeaning ==
  stage = "done" => \/ answer = Meaning
                 \/ (cancelled /\ answer = Failure("cancelled"))

\* An expression with a grouping is never answered by selection
\* (AnalyzeFastPath: not eligible if it contains "Sort, group, transform").
RECURSIVE HasGroup(_)
HasGroup(n) == n.grouped \/ \E i \in DOMAIN n.kids : HasGroup(n.kids[i])
GroupingIsNotSelected == route \in Selection => ~HasGroup(expr)

=============================================================================
