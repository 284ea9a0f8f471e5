----------------------------- MODULE JSEvaluation -----------------------------
(***************************************************************************)
(* The evaluator of the JavaScript engine (javascript/src/jsonata.js), and *)
(* the pass of its parser that turns the tree of a source into what is     *)
(* evaluated (processAST in parser.js).  The forms are those of            *)
(* GoEvaluation but for %, and no step of a path is a number or a literal. *)
(*                                                                         *)
(* Every list is a JavaScript array with its marks.  A tuple is an object  *)
(* that holds the context as its member @ and the variables of the path as *)
(* others.  An environment is the function from the names bound to their   *)
(* values.                                                                 *)
(***************************************************************************)
EXTENDS JSCollections

\* A JSON value as JavaScript holds it, and back.
RECURSIVE Decoded(_), Plain(_)
Decoded(v) ==
  CASE v.k = "array" -> List([i \in DOMAIN v.c |-> Decoded(v.c[i])])
    [] v.k = "object" -> Obj([i \in DOMAIN v.m |-> <<v.m[i][1], Decoded(v.m[i][2])>>])
    [] OTHER -> v
Plain(v) ==
  CASE v.k = "array" -> Arr([i \in DOMAIN v.c |-> Plain(v.c[i])])
    [] v.k = "object" -> Obj([i \in DOMAIN v.m |-> <<v.m[i][1], Plain(v.m[i][2])>>])
    [] OTHER -> v

-----------------------------------------------------------------------------
(* The tree                                                                *)

Ast(type, value, kids) ==
  [type |-> type, value |-> value, kids |-> kids, keep |-> FALSE, group |-> <<>>,
   grouped |-> FALSE, focus |-> "", index |-> "", tuple |-> FALSE, cons |-> FALSE,
   stages |-> <<>>, predicate |-> <<>>, keepSingleton |-> FALSE]
Filter(n) == [type |-> "filter", of |-> n]
Numbering(name) == [type |-> "index", of |-> name]

AsPath(n) == IF n.type = "path" THEN n ELSE Ast("path", "", <<n>>)
\* What # and @ and [ are said of: the last step of a path, or a node.
OnStep(n, Change(_)) ==
  IF n.type = "path" THEN [n EXCEPT !.kids[Len(n.kids)] = Change(@)] ELSE Change(n)
\* The predicates of a node that becomes a step are the step's stages.
AsStep(n) == IF n.predicate = <<>> THEN n ELSE [n EXCEPT !.stages = @ \o n.predicate, !.predicate = <<>>]

Dotted(left, right) ==
  LET path == AsPath(left)
      all == path.kids \o (IF right.type = "path" THEN right.kids ELSE <<AsStep(right)>>)
      End(i) == i \in {1, Len(all)} /\ all[i].type = "array"
  IN [path EXCEPT !.kids = [i \in DOMAIN all |->
                       [all[i] EXCEPT !.type = IF @ = "string" THEN "name" ELSE @, !.cons = @ \/ End(i)]],
                  !.keepSingleton = @ \/ \E i \in DOMAIN all : all[i].keep]
Subscripted(n, predicate) ==
  IF n.type = "path" THEN OnStep(n, LAMBDA step : [step EXCEPT !.stages = Append(@, Filter(predicate))])
  ELSE [n EXCEPT !.predicate = Append(@, Filter(predicate))]
Sorted(n, terms) == [AsPath(n) EXCEPT !.kids = Append(@, Ast("sort", "", terms))]
Focused(n, name) == OnStep(n, LAMBDA step : [step EXCEPT !.focus = name, !.tuple = TRUE])
Indexed(n, name) ==
  OnStep(IF n.type = "path" THEN n ELSE AsPath(AsStep(n)), LAMBDA step :
    IF step.stages = <<>> THEN [step EXCEPT !.index = name, !.tuple = TRUE]
    ELSE [step EXCEPT !.stages = Append(@, Numbering(name)), !.tuple = TRUE])
Exists(n) == Ast("function", "", <<Ast("variable", "exists", <<>>), n>>)
ConsArray(n) == n.cons \/ (n.type = "path" /\ n.kids[1].cons)

\* A [] after subscripts is written on what they select from.
RECURSIVE KeepInside(_)
KeepInside(n) ==
  IF n.keep /\ n.type = "binary" /\ n.value = "["
  THEN [n EXCEPT !.keep = FALSE, !.kids[1] = KeepInside([@ EXCEPT !.keep = TRUE])] ELSE n

\* A chain is read from the left: the tree has it from the right.
RECURSIVE Chained(_, _), tailCallOptimize(_)
Chained(left, right) ==
  IF right.type = "apply" THEN Chained(Chained(left, right.kids[1]), right.kids[2])
  ELSE [Ast("apply", "", <<left, right>>) EXCEPT !.keep = left.keep \/ right.keep]
\* A call that ends a body becomes a function without parameters.
tailCallOptimize(n) ==
  CASE n.type = "function" /\ n.predicate = <<>> -> Ast("thunk", "", <<n>>)
    [] n.type = "condition" -> [n EXCEPT !.kids = [i \in DOMAIN @ |-> IF i = 1 THEN @[i] ELSE tailCallOptimize(@[i])]]
    [] n.type = "block" /\ n.kids # <<>> -> [n EXCEPT !.kids[Len(n.kids)] = tailCallOptimize(@)]
    [] OTHER -> n

\* The condition of ?: and ?? is what JSON makes of the left operand: a
\* signature becomes an object that cannot validate.
RECURSIVE Cloned(_)
Cloned(n) ==
  [n EXCEPT !.kids = [i \in DOMAIN @ |-> Cloned(@[i])], !.group = [i \in DOMAIN @ |-> Cloned(@[i])],
            !.value = IF n.type = "lambda" /\ n.value # "" THEN "{}" ELSE @]
Operands(n) ==
  IF n.type = "binary" /\ n.value \in {"?:", "??"} THEN <<Cloned(n.kids[1])>> \o n.kids ELSE n.kids

\* What is made of a node, from its processed operands, but for # and @ and [].
Made(n, kid) ==
  CASE n.type = "name" -> [AsPath([Ast("name", n.value, <<>>) EXCEPT !.keep = n.keep]) EXCEPT !.keepSingleton = n.keep]
    [] n.type = "number" -> Ast("number", IF n.minus THEN -n.value ELSE n.value, <<>>)
    [] n.type = "binary" /\ n.value = "." -> Dotted(kid[1], kid[2])
    [] n.type = "binary" /\ n.value = "[" -> Subscripted(kid[1], kid[2])
    [] n.type = "sort" -> Sorted(kid[1], Tail(kid))
    [] n.type = "binary" /\ n.value = "?:" -> Ast("condition", "", kid)
    [] n.type = "binary" /\ n.value = "??" -> Ast("condition", "", <<Exists(kid[1])>> \o Tail(kid))
    [] n.type = "binary" /\ n.value = "~>" -> Chained(kid[1], kid[2])
    [] n.type = "lambda" -> Ast("lambda", n.value, Append(Front(kid), tailCallOptimize(Last(kid))))
    [] n.type = "block" -> [Ast("block", "", kid) EXCEPT !.cons = \E i \in DOMAIN kid : ConsArray(kid[i])]
    [] OTHER -> Ast(n.type, n.value, kid)
WithFocus(n, name) == IF name = "" THEN n ELSE Focused(n, name)
WithIndex(n, name) == IF name = "" THEN n ELSE Indexed(n, name)
Marks(tree, n) == [WithIndex(WithFocus(n, tree.focus), tree.index) EXCEPT !.keep = @ \/ tree.keep, !.grouped = tree.grouped]
RECURSIVE processAST(_)
processAST(tree) ==
  LET n == KeepInside(tree)
      All(nodes) == [i \in DOMAIN nodes |-> processAST(nodes[i])]
  IN [Marks(n, Made(n, All(Operands(n)))) EXCEPT !.group = All(n.group)]
-----------------------------------------------------------------------------
(* Operators on values                                                     *)

RECURSIVE flatten(_), recurseDescendants(_)
flatten(v) == IF IsList(v) THEN FlattenSeq([i \in DOMAIN v.c |-> flatten(v.c[i])]) ELSE <<v>>
Inner(v) == IF v.k = "object" THEN [i \in DOMAIN v.m |-> v.m[i][2]] ELSE IF IsList(v) THEN v.c ELSE <<>>
\* The array around an input that is one is looked through.
Unwrapped(v) == IF Is("outer", v) THEN v.c[1] ELSE v
Wildcard(vals) ==
  LET all == FlattenSeq([i \in DOMAIN vals |-> flatten(vals[i])])
  IN IF \E i \in DOMAIN vals : IsList(vals[i]) THEN List(all) ELSE createSequence(all)
evaluateWildcard(in) == Wildcard(Inner(Unwrapped(in)))
\* The value itself and all within it, arrays left out.
recurseDescendants(v) ==
  (IF IsList(v) THEN <<>> ELSE <<v>>)
    \o FlattenSeq([i \in DOMAIN Inner(v) |-> recurseDescendants(Inner(v)[i])])
OneOrSequence(all) == IF Len(all) = 1 THEN all[1] ELSE createSequence(all)
evaluateDescendants(in) == IF in = Undef THEN Undef ELSE OneOrSequence(recurseDescendants(in))

Numeric(v) == v.k \in {"number", "undefined"}
Calculated(op, l, r) ==
  IF ~Numeric(l) THEN Failure("T2001")
  ELSE IF ~Numeric(r) THEN Failure("T2002")
  ELSE IF l = Undef \/ r = Undef THEN Undef
  ELSE Num(CASE op = "+" -> l.n + r.n [] op = "-" -> l.n - r.n [] op = "*" -> l.n * r.n)
Comparable(v) == v.k \in {"number", "string", "undefined"}
Compared(op, l, r) ==
  LET order == compareOrder(l, r).n
  IN IF ~Comparable(l) \/ ~Comparable(r) THEN Failure("T2010")
     ELSE IF l = Undef \/ r = Undef THEN Undef
     ELSE IF l.k # r.k THEN Failure("T2009")
     ELSE Bool(CASE op = "<" -> order < 0 [] op = "<=" -> order <= 0
                 [] op = ">" -> order > 0 [] op = ">=" -> order >= 0)
\* Of a range of one number, that number is left.
Ranged(l, r) ==
  IF ~Numeric(l) THEN Failure("T2003")
  ELSE IF ~Numeric(r) THEN Failure("T2004")
  ELSE IF l = Undef \/ r = Undef \/ (l.n > r.n) THEN Undef
  ELSE createSequence([i \in 1 .. r.n - l.n + 1 |-> Num(l.n + i - 1)])
\* Of objects and arrays only the same one is in a list, and none is looked for.
Included(v, list) == v # Undef /\ \E i \in DOMAIN ListOf(list) : ListOf(list)[i] = v
Operate(op, l, r) ==
  CASE op \in {"+", "-", "*"} -> Calculated(op, l, r)
    [] op = "&" -> Str(Stringify(Plain(l)) \o Stringify(Plain(r)))
    [] op \in {"=", "!="} -> Bool(l # Undef /\ r # Undef /\ (DeepEqual(l, r) <=> op = "="))
    [] op \in {"<", "<=", ">", ">="} -> Compared(op, l, r)
    [] op = "in" -> Bool(Included(l, r))
    [] op = ".." -> Ranged(l, r)

StringBuiltins == {"lowercase", "uppercase", "trim", "length", "contains"}
ListFns == {"map", "filter", "single", "reduce", "sort"}
MemberFns == {"sift", "each"}
Builtins == StringBuiltins \union CollectionFns \union ListFns \union MemberFns \union {"exists", "count", "type", "keys", "reverse"}
\* An argument that is to be an array is made one.
Builtin(fn, v, arg) ==
  LET names == Distinct(KeysOf(v))
  IN IF fn = "exists" THEN Bool(v # Undef)
     ELSE IF fn = "count" THEN Num(Len(ListOf(v)))
     ELSE IF v = Undef THEN Undef
     ELSE CASE fn = "type" -> Str(v.k)
            [] fn = "keys" -> createSequence([i \in DOMAIN names |-> Str(names[i])])
            [] fn = "reverse" -> IF IsList(v) /\ Len(v.c) <= 1 THEN v ELSE List(Reverse(ListOf(v)))
            [] fn \in StringBuiltins -> IF arg = Undef THEN Undef ELSE IF v.k = "string" THEN StringTerm(fn, v, arg) ELSE Failure("T0410")

-----------------------------------------------------------------------------
(* Functions                                                               *)

Procedure(params, sig, body, in, env) ==
  [k |-> "function", is |-> "lambda", params |-> params, sig |-> sig, body |-> body, input |-> in, env |-> env, self |-> "", thunk |-> FALSE]
Thunk(body, in, env) == [Procedure(<<>>, "", body, in, env) EXCEPT !.thunk = TRUE]
Transformer(n, env) == [k |-> "function", is |-> "transform", node |-> n, env |-> env]
\* What a call gives a function for a function among its arguments.
Closure(f) == [k |-> "function", is |-> "closure", of |-> f]
Native(name) == [k |-> "function", is |-> "native", name |-> name]
IsFunction(v) == v.k = "function"
IsLambda(v) == IsFunction(v) /\ v.is = "lambda"
\* The parameters of a builtin, as its JavaScript has them.
NativeParams(name) ==
  CASE name = "reduce" -> <<"sequence", "func", "init">>
    [] name \in {"map", "filter", "single", "sort"} -> <<"arr", "func">>
    [] name \in MemberFns -> <<"obj", "func">>
    [] name = "contains" -> <<"str", "token">> [] name = "lookup" -> <<"input", "key">>
    [] name = "append" -> <<"arg1", "arg2">> [] name = "assert" -> <<"condition", "message">>
    [] name = "zip" -> <<>>
    [] OTHER -> <<"arg">>
RECURSIVE getFunctionArity(_)
getFunctionArity(f) ==
  CASE f.is = "native" -> Len(NativeParams(f.name))
    [] f.is = "lambda" -> Len(f.params)
    [] f.is = "closure" -> getFunctionArity(f.of)
    [] f.is = "transform" -> 1
\* The signatures of the builtins, as they are registered.
NativeSignature(name) ==
  CASE name \in {"sum", "max", "min"} -> "a<n>:n" [] name = "count" -> "a:n"
    [] name \in {"lowercase", "uppercase", "trim"} -> "s-:s" [] name = "length" -> "s-:n"
    [] name = "contains" -> "s-(sf):b" [] name \in {"map", "filter"} -> "af"
    [] name = "single" -> "af?" [] name = "reduce" -> "afj?:j"
    [] name = "keys" -> "x-:a<s>" [] name = "spread" -> "x-:a<o>"
    [] name = "exists" -> "x:b" [] name = "reverse" -> "a:a" [] name = "type" -> "x:s"
    [] name \in {"boolean", "not"} -> "x-:b" [] name = "append" -> "xx:a" [] name = "lookup" -> "x-s:x"
    [] name = "merge" -> "a<o>:o" [] name = "distinct" -> "x:x" [] name = "zip" -> "a+"
    [] name = "sift" -> "o-f?:o" [] name = "each" -> "o-f:a" [] name = "sort" -> "af?:a"
    [] name = "error" -> "s?:x" [] name = "assert" -> "bs?:x"
\* The name a function is bound to is one it can call.
Named(name, v, e) == IF IsLambda(v) /\ e.type = "lambda" THEN [v EXCEPT !.self = name] ELSE v
ClosureOf(f) == IF f.self = "" THEN f.env ELSE (f.self :> f) @@ f.env
BoundParameters(params, args) ==
  [name \in ToSet(params) |->
     LET i == CHOOSE j \in DOMAIN params : params[j] = name IN IF i <= Len(args) THEN args[i] ELSE Undef]

-----------------------------------------------------------------------------
(* Evaluation                                                              *)

RECURSIVE Evaluate(_, _, _), evaluatePath(_, _, _, _), apply(_, _, _)

Context(tuple) == Member(tuple, "@")
createFrameFromTuple(env, tuple) == FoldLeft(LAMBDA frame, m : (m[1] :> m[2]) @@ frame, env, tuple.m)
EvaluateEach(n, items, env) == [i \in DOMAIN items |-> Evaluate(n, items[i], env)]
EvaluateAll(nodes, in, env) == [i \in DOMAIN nodes |-> Evaluate(nodes[i], in, env)]
EvaluateTuples(n, tuples, env) ==
  [i \in DOMAIN tuples |-> Evaluate(n, Context(tuples[i]), createFrameFromTuple(env, tuples[i]))]
\* In a list, or in a stream of tuples.
EvaluateOver(n, list, env) ==
  IF Is("tuple", list) THEN EvaluateTuples(n, list.c, env) ELSE EvaluateEach(n, ListOf(list), env)

\* Sorting.  Undefined comes last, ascending or descending.
Ordered(term, a, b) ==
  LET order == compareOrder(a, b)
  IN IF Failed(a) THEN a
     ELSE IF Failed(b) THEN b
     ELSE IF a = Undef \/ b = Undef THEN order
     ELSE IF a.k \notin {"number", "string"} \/ b.k \notin {"number", "string"} THEN Failure("T2008")
     ELSE IF Failed(order) THEN order
     ELSE IF term.value = ">" THEN Num(-order.n) ELSE order
Comparator(terms, a, b, list, env) ==
  FoldLeft(LAMBDA order, term :
             IF order # Num(0) THEN order
             ELSE LET keys == EvaluateOver(term.kids[1], [list EXCEPT !.c = <<a, b>>], env)
                  IN Ordered(term, keys[1], keys[2]),
           Num(0), terms)
\* Of more than one item a new array, and no stream of tuples, is made.
evaluateSortExpression(n, list, env) ==
  IF Len(list.c) <= 1 THEN list
  ELSE Then(StableSort(list.c, LAMBDA a, b : Comparator(n.kids, a, b, list, env)), LAMBDA sorted : List(sorted.c))

\* Predicates.  A number literal picks an item, of an array its items.
Hits(value, at, length) ==
  LET v == IF value.k = "number" THEN List(<<value>>) ELSE value
  IN IF IsList(v) /\ AllNumbers(v.c) THEN Cardinality({i \in DOMAIN v.c : Index(v.c[i].n, length) = at})
     ELSE IF ToBoolean(v) THEN 1 ELSE 0
Selected(items, vals) ==
  FlattenSeq([i \in DOMAIN items |-> [j \in 1 .. Hits(vals[i], i - 1, Len(items)) |-> items[i]]])
ItemAt(list, at) == IF at \in DOMAIN list.c THEN list.c[at] ELSE Undef
FilterList(predicate, list, env) ==
  LET Out(c) == IF Is("tuple", list) THEN Marked(c, {"sequence", "tuple"}) ELSE createSequence(c)
      item == ItemAt(list, Index(predicate.value, Len(list.c)) + 1)
      vals == EvaluateOver(predicate, list, env)
  IN IF predicate.type = "number" THEN (IF IsList(item) THEN item ELSE Out(ListOf(item)))
     ELSE Strict(vals, Out(Selected(list.c, vals)))
evaluateFilter(predicate, in, env) ==
  FilterList(predicate, IF IsList(in) THEN in ELSE createSequence(<<in>>), env)
Numbered(list, name) == [list EXCEPT !.c = [i \in DOMAIN @ |-> Obj(SetMember(@[i].m, name, Num(i - 1)))]]
evaluateStages(stages, list, env) ==
  FoldLeft(LAMBDA v, stage : IF Failed(v) THEN v
                             ELSE IF stage.type = "filter" THEN evaluateFilter(stage.of, v, env)
                             ELSE Numbered(v, stage.of),
           list, stages)

\* A step of a path, over the items of a list; an array from the last one is
\* the result itself.
Spreads(v) == IF IsList(v) /\ ~Is("cons", v) THEN v.c ELSE <<v>>
StepResult(vals, last) ==
  Strict(vals, IF last /\ Len(vals) = 1 /\ IsList(vals[1]) /\ ~Is("sequence", vals[1]) THEN vals[1]
               ELSE createSequence(FlattenSeq([i \in DOMAIN vals |-> Spreads(vals[i])])))
StepOf(n, item, env) ==
  evaluateStages(n.stages, IF n.type = "sort" THEN evaluateSortExpression(n, item, env) ELSE Evaluate(n, item, env), env)
evaluateStep(n, list, env, last) ==
  IF n.type = "sort" THEN StepOf(n, list, env)
  ELSE StepResult(Defined([i \in DOMAIN list.c |-> StepOf(n, list.c[i], env)]), last)

\* The tuples a step makes of one; a step with a focus stays where it was.
Bound(n, tuple, v) ==
  LET With(m, name, value) == IF name = "" THEN m ELSE SetMember(m, name, value)
      item(b) == With(tuple.m, IF n.focus = "" THEN "@" ELSE n.focus, ListOf(v)[b])
  IN [b \in DOMAIN ListOf(v) |-> Obj(With(item(b), n.index, Num(b - 1)))]
Tuples(c) == Marked(c, {"sequence", "tuple"})
\* The first sort of a stream numbers what it sorts.
SortedTuples(n, list, stream, env) ==
  LET name == IF n.index = "" THEN "undefined" ELSE n.index
      InTuples(c) == Tuples([i \in DOMAIN c |-> Obj(<< <<"@", c[i]>>, <<name, Num(i - 1)>> >>)])
  IN Then(evaluateSortExpression(n, IF stream THEN list ELSE List(list.c), env),
          LAMBDA sorted : IF stream THEN sorted ELSE InTuples(sorted.c))
TuplesOf(n, tuples, vals) ==
  Strict(vals, Tuples(FlattenSeq([i \in DOMAIN vals |-> Bound(n, tuples[i], vals[i])])))
evaluateTupleStep(n, list, stream, env) ==
  LET tuples == [i \in DOMAIN list.c |-> IF stream THEN list.c[i] ELSE Obj(<< <<"@", list.c[i]>> >>)]
  IN evaluateStages(n.stages, IF n.type = "sort" THEN SortedTuples(n, list, stream, env)
                              ELSE TuplesOf(n, tuples, EvaluateTuples(n, tuples, env)), env)

\* Groupings and objects: item by item, and pair by pair.
Entry(groups, name, pair, item) ==
  LET Has(g) == groups.c[g].name = name
      g == CHOOSE x \in DOMAIN groups.c : Has(x)
  IN IF ~\E x \in DOMAIN groups.c : Has(x) THEN List(Append(groups.c, [name |-> name, pair |-> pair, data |-> item]))
     ELSE IF groups.c[g].pair # pair THEN Failure("D1009")
     ELSE [groups EXCEPT !.c[g].data = append(@, item)]
Grouped(pairs, list, env) ==
  LET keys == [p \in 1 .. Len(pairs) \div 2 |-> EvaluateOver(pairs[2*p - 1], list, env)]
      Add(groups, i, p) ==
        LET key == keys[p][i]
        IN IF Failed(groups) \/ key = Undef THEN groups
           ELSE IF Failed(key) THEN key
           ELSE IF key.k = "string" THEN Entry(groups, key.s, p, list.c[i])
           ELSE Failure("T1003")
  IN FoldLeft(LAMBDA groups, i : FoldLeft(LAMBDA some, p : Add(some, i, p), groups, [p \in DOMAIN keys |-> p]),
              List(<<>>), [i \in DOMAIN list.c |-> i])
\* One tuple of several: of each variable all values.
reduceTupleStream(tuple) ==
  LET With(m, member) == SetMember(m, member[1], append(Member(Obj(m), member[1]), member[2]))
  IN IF IsList(tuple) THEN Obj(FoldLeft(With, <<>>, FlattenSeq([i \in DOMAIN tuple.c |-> tuple.c[i].m]))) ELSE tuple
Members(names, vals) ==
  Strict(vals, Obj(Pick([g \in DOMAIN vals |-> <<names[g], vals[g]>>], LAMBDA g : vals[g] # Undef)))
evaluateGroupExpression(pairs, in, env) ==
  LET reduce == Is("tuple", in)
      list == IF ~IsList(in) THEN createSequence(<<in>>)
              ELSE IF in.c = <<>> /\ ~reduce THEN [in EXCEPT !.c = <<Undef>>] ELSE in
      Value(g) == IF reduce THEN EvaluateTuples(pairs[2 * g.pair], <<reduceTupleStream(g.data)>>, env)[1]
                  ELSE Evaluate(pairs[2 * g.pair], g.data, env)
  IN Then(Grouped(pairs, list, env), LAMBDA groups :
            Members([g \in DOMAIN groups.c |-> groups.c[g].name], [g \in DOMAIN groups.c |-> Value(groups.c[g])]))

\* Paths.  s is the list the next step is for, the last result, and the tuples
\* once a step has made the path a stream of them.
NoTuples == [k |-> "none"]
PathResult(n, s, env) ==
  LET result == IF s.stream THEN createSequence([b \in DOMAIN s.tuples.c |-> Context(s.tuples.c[b])]) ELSE s.result
      list == IF Is("cons", result) /\ ~Is("sequence", result) THEN createSequence(<<result>>) ELSE result
      kept == IF n.keepSingleton THEN [list EXCEPT !.is = @ \union {"keep"}] ELSE result
  IN IF n.grouped THEN evaluateGroupExpression(n.group, IF s.stream THEN s.tuples ELSE kept, env) ELSE kept
PathStep(n, i, s, whole, stream, env) ==
  LET started == s.tuples # NoTuples
  IN IF whole THEN Evaluate(n.kids[i], s.list, env)
     ELSE IF stream THEN evaluateTupleStep(n.kids[i], IF started THEN s.tuples ELSE s.list, started, env)
     ELSE evaluateStep(n.kids[i], s.list, env, i = Len(n.kids))
evaluatePath(n, i, s, env) ==
  LET step == n.kids[i]
      stream == s.stream \/ step.tuple
      whole == i = 1 /\ step.cons
      Next(result) == [list |-> IF step.focus # "" \/ (stream /\ ~whole) THEN s.list ELSE result,
                       result |-> result, stream |-> stream,
                       tuples |-> IF stream /\ ~whole THEN result ELSE s.tuples]
  IN IF i > Len(n.kids) \/ (i > 1 /\ ~s.stream /\ s.result.c = <<>>) THEN PathResult(n, s, env)
     ELSE Then(PathStep(n, i, s, whole, stream, env), LAMBDA result : evaluatePath(n, i + 1, Next(result), env))
PathInput(n, in) == IF IsList(in) /\ n.kids[1].type # "variable" THEN in ELSE createSequence(<<in>>)

\* Operators, constructors and calls.
evaluateBinary(n, in, env) ==
  LET l == Evaluate(n.kids[1], in, env)
      r == Evaluate(n.kids[2], in, env)
  IN CASE Failed(l) -> l
       [] ~Failed(l) /\ n.value = "and" -> IF ToBoolean(l) THEN Strict(<<r>>, Bool(ToBoolean(r))) ELSE Bool(FALSE)
       [] ~Failed(l) /\ n.value = "or" -> IF ToBoolean(l) THEN Bool(TRUE) ELSE Strict(<<r>>, Bool(ToBoolean(r)))
       [] OTHER -> Strict(<<r>>, Operate(n.value, l, r))
evaluateArray(n, in, env) ==
  LET vals == EvaluateAll(n.kids, in, env)
      Items(i) == IF n.kids[i].type = "array" THEN <<vals[i]>> ELSE ListOf(vals[i])
  IN Strict(vals, Marked(FlattenSeq([i \in DOMAIN vals |-> Items(i)]), IF n.cons THEN {"cons"} ELSE {}))
evaluateBlock(n, in, env) ==
  LET Next(s, e, v) == [v |-> v, env |-> IF e.type = "bind" THEN (e.kids[1].value :> v) @@ s.env ELSE s.env]
      Value(e, v) == IF e.type = "bind" THEN Named(e.kids[1].value, v, e.kids[2]) ELSE v
  IN FoldLeft(LAMBDA s, e : IF Failed(s.v) THEN s ELSE Next(s, e, Value(e, Evaluate(e, in, s.env))),
              [v |-> Undef, env |-> env], n.kids).v
evaluateCondition(n, in, env) ==
  LET test == Evaluate(n.kids[1], in, env)
  IN IF Failed(test) THEN test
     ELSE IF ToBoolean(test) THEN Evaluate(n.kids[2], in, env)
     ELSE IF Len(n.kids) = 3 THEN Evaluate(n.kids[3], in, env) ELSE Undef

-----------------------------------------------------------------------------
(* Calls                                                                   *)

\* Of each item, what the callback makes of the first of item, position and list.
Callback(f, args) == apply(f, UpTo(getFunctionArity(f), args), IF IsLambda(f) THEN f.input ELSE Null)
EachItem(f, list) == [i \in DOMAIN list.c |-> Callback(f, <<list.c[i], Num(i - 1), list>>)]
\* A second item ends the search.
single(items, vals) ==
  LET none == [k |-> "none"]
      Found(v, i) == IF Failed(v) THEN v
                     ELSE IF Failed(vals[i]) THEN vals[i]
                     ELSE IF ~ToBoolean(vals[i]) THEN v
                     ELSE IF v = none THEN items[i] ELSE Failure("D3138")
      found == FoldLeft(Found, none, [i \in DOMAIN items |-> i])
  IN IF found = none THEN Failure("D3139") ELSE found
foldLeft(f, list, init) ==
  LET whole == init # Undef \/ list.c = <<>>
      Step(v, i) == Callback(f, <<v, list.c[i], Num(i - 1), list>>)
      at == SelectSeq([i \in DOMAIN list.c |-> i], LAMBDA i : whole \/ i > 1)
  IN IF getFunctionArity(f) < 2 THEN Failure("D3050")
     ELSE FoldLeft(LAMBDA v, i : Then(v, LAMBDA acc : Step(acc, i)), IF whole THEN init ELSE list.c[1], at)
\* A comparator says whether its first argument goes behind its second; the
\* merge sort asks it for an item of the left half and one of the right.
Before(f, a, b) ==
  Then(apply(f, <<b, a>>, IF IsLambda(f) THEN f.input ELSE Null), LAMBDA v : Num(IF ToBoolean(v) THEN -1 ELSE 0))
SortedArray(v) == Then(v, LAMBDA sorted : List(sorted.c))
sort(list, f) ==
  IF Len(list.c) <= 1 THEN list
  ELSE IF f # Undef THEN SortedArray(StableSort(list.c, LAMBDA a, b : Before(f, a, b)))
  ELSE IF AllNumbers(list.c) \/ (\A i \in DOMAIN list.c : list.c[i].k = "string") THEN SortedArray(StableSort(list.c, compareOrder))
  ELSE Failure("D3070")
\* Of each member, what the callback makes of its value, name and object.
EachMember(f, object) ==
  [i \in DOMAIN object.m |-> Callback(f, <<object.m[i][2], Str(object.m[i][1]), object>>)]
Sifted(object, vals) ==
  LET held == Pick(object.m, LAMBDA i : ToBoolean(vals[i])) IN Strict(vals, IF held = <<>> THEN Undef ELSE Obj(held))
\* What is not an object has no members.
OfMembers(name, v, f) ==
  LET object == IF v.k = "object" THEN v ELSE Obj(<<>>)
      Collected(vals) == IF name = "sift" THEN Sifted(object, vals) ELSE Strict(vals, createSequence(Defined(vals)))
  IN Collected(EachMember(f, object))
\* A partial application can hand them a value that is not an array and has no
\* length; it is not a string here, which would have one.
OfList(name, args) ==
  LET list == IF IsList(args[1]) THEN args[1] ELSE List(<<>>)
      vals == EachItem(args[2], list)
  IN IF args[1] = Undef THEN Undef
     ELSE CASE name = "map" -> Strict(vals, createSequence(Defined(vals)))
            [] name = "filter" -> Strict(vals, createSequence(Pick(list.c, LAMBDA i : ToBoolean(vals[i]))))
            [] name = "single" -> single(list.c, IF args[2] # Undef THEN vals ELSE [i \in DOMAIN list.c |-> Bool(TRUE)])
            [] name = "reduce" -> foldLeft(args[2], list, args[3])
            [] name = "sort" -> sort(list, args[2])
applyNativeFunction(name, args) ==
  IF name \in ListFns THEN OfList(name, args)
  ELSE IF name \in MemberFns THEN OfMembers(name, args[1], args[2])
  ELSE IF name \in CollectionFns THEN Collection(name, args) ELSE Builtin(name, args[1], args[Len(args)])
\* The body of a function sees the context of its definition.
applyProcedure(f, args) ==
  LET env == BoundParameters(f.params, args) @@ ClosureOf(f)
      own == [i \in DOMAIN f.body.kids |-> env[f.body.kids[i].value]]
  IN IF f.body.type = "native" THEN applyNativeFunction(f.body.value, own) ELSE Evaluate(f.body, f.input, env)
\* A transform changes a copy of what it is given, in place, match by match
\* (no match is an array or a function).
TransformUpdate(n, match, store, env) ==
  Then(Evaluate(n.kids[2], match, env), LAMBDA update :
    CASE update = Undef -> store
      [] update.k = "object" -> IF match.k = "object" THEN Written(store, match, transformMerge(match, update))
                                ELSE IF update.m = <<>> THEN store ELSE Failure("TypeError")
      [] OTHER -> Failure("T2011"))
TransformDelete(n, match, store, env) ==
  IF Len(n.kids) = 2 THEN store
  ELSE Then(Evaluate(n.kids[3], match, env), LAMBDA deletions :
         IF \E i \in DOMAIN ListOf(deletions) : ListOf(deletions)[i].k # "string" THEN Failure("T2012")
         ELSE IF match.k # "object" THEN store
         ELSE Written(store, match, transformDelete(match, {v.s : v \in ToSet(ListOf(deletions))})))
TransformMatch(n, match, store, env) ==
  Then(TransformUpdate(n, Current(match, store), store, env), LAMBDA updated :
    TransformDelete(n, Current(match, updated), updated, env))
TransformCopy(n, copy, env) ==
  Then(Evaluate(n.kids[1], copy, env), LAMBDA matches :
    Then(FoldLeft(LAMBDA s, match : Then(s, LAMBDA store : TransformMatch(n, match, store, env)), Unchanged, ListOf(matches)),
         LAMBDA store : Decoded(Current(copy, store))))
transformer(n, obj, env) ==
  IF obj = Undef THEN Undef ELSE TransformCopy(n, Identified(Decoded(obj), <<>>), env)
\* The signature of a function, if it has one; in is the context of the call.
Validated(f, args, in) ==
  LET sig == CASE f.is = "native" -> NativeSignature(f.name) [] f.is = "lambda" -> f.sig
             [] f.is = "transform" -> "(oa):o" [] OTHER -> ""
  IN IF sig = "" THEN List(args)
     ELSE IF sig = "{}" THEN Failure("TypeError")
     ELSE validate(parseSignature[sig].c, args, in)
applyInner(f, args, in) ==
  IF ~IsFunction(f) THEN Failure("T1006")
  ELSE Then(Validated(f, args, in), LAMBDA valid :
         CASE f.is = "lambda" -> applyProcedure(f, valid.c)
           [] f.is = "native" -> applyNativeFunction(f.name, valid.c)
           [] f.is = "transform" -> transformer(f.node, valid.c[1], f.env)
           [] f.is = "closure" -> apply(f.of, valid.c, Null))
\* A thunk that a function comes to is unpacked: its callee, its arguments.
Unpacked(next, args, in) ==
  IF next = Undef THEN Failure("TypeError") ELSE Strict(<<next>> \o args, apply(next, args, in))
apply(f, args, in) ==
  Then(applyInner(f, args, in), LAMBDA v :
    IF ~IsLambda(v) \/ ~v.thunk THEN v
    ELSE Unpacked(Evaluate(v.body.kids[1], v.input, v.env), EvaluateAll(Tail(v.body.kids), v.input, v.env), in))

\* A name without its $ that is bound is an error of its own.
Misnamed(callee, f, env) ==
  callee.type = "path" /\ f = Undef /\ (callee.kids[1].value \in DOMAIN env \/ callee.kids[1].value \in Builtins)
\* piped: what stands before ~>, if anything.
evaluateFunction(n, in, env, piped) ==
  LET f == Evaluate(n.kids[1], in, env)
      args == EvaluateAll(Tail(n.kids), in, env)
  IN IF Failed(f) THEN f
     ELSE IF Misnamed(n.kids[1], f, env) THEN Failure("T1005")
     ELSE Strict(args, apply(f, piped \o [i \in DOMAIN args |-> IF IsFunction(args[i]) THEN Closure(args[i]) ELSE args[i]], in))
\* The arguments that are given are bound; the others are left as parameters,
\* of which the signature says nothing any more.
partialApplyProcedure(params, body, input, closure, args) ==
  LET Open(i) == i <= Len(args) /\ args[i].k = "hole"
      Given(i) == ~Open(i)
      all == [i \in DOMAIN params |-> IF i <= Len(args) THEN args[i] ELSE Undef]
  IN Procedure(Pick(params, Open), "", body, input, BoundParameters(Pick(params, Given), Pick(all, Given)) @@ closure)
evaluatePartialApplication(n, in, env) ==
  LET args == [i \in 1 .. Len(n.kids) - 1 |->
                 IF n.kids[i + 1].type = "operator" THEN [k |-> "hole"] ELSE Evaluate(n.kids[i + 1], in, env)]
      f == Evaluate(n.kids[1], in, env)
      params == NativeParams(f.name)
      native == Ast("native", f.name, [i \in DOMAIN params |-> Ast("variable", params[i], <<>>)])
  IN Strict(Append(args, f),
       IF Misnamed(n.kids[1], f, env) THEN Failure("T1007")
       ELSE IF ~IsFunction(f) THEN Failure("T1008")
       ELSE IF IsLambda(f) THEN partialApplyProcedure(f.params, f.body, f.input, ClosureOf(f), args)
       ELSE partialApplyProcedure(params, native, Undef, env, args))
\* Two functions make one: λ($f, $g) { λ($x){ $g($f($x)) } }.
chain(f, g) ==
  LET Var(name) == Ast("variable", name, <<>>)
      Call(name, arg) == Ast("function", "", <<Var(name), arg>>)
  IN Procedure(<<"x">>, "", Ast("thunk", "", <<Call("g", Call("f", Var("x")))>>), Null, ("f" :> f) @@ ("g" :> g))
evaluateApplyExpression(n, in, env) ==
  LET left == Evaluate(n.kids[1], in, env)
      f == Evaluate(n.kids[2], in, env)
  IN IF Failed(left) THEN left
     ELSE IF n.kids[2].type = "function" THEN evaluateFunction(n.kids[2], in, env, <<left>>)
     ELSE IF Failed(f) THEN f
     ELSE IF ~IsFunction(f) THEN Failure("T2006")
     ELSE IF IsFunction(left) THEN chain(left, f) ELSE apply(f, <<left>>, Null)

Negative(v) == CASE v.k = "number" -> Num(-v.n) [] v.k \in {"undefined", "failure"} -> v [] OTHER -> Failure("D1002")

evaluateVariable(name, in, env) ==
  CASE name = "" -> Unwrapped(in)
    [] name # "" /\ name \in DOMAIN env -> env[name]
    [] OTHER -> IF name \in Builtins THEN Native(name) ELSE Undef
evaluateNode(n, in, env) ==
  CASE n.type = "path" -> evaluatePath(n, 1, [list |-> PathInput(n, in), result |-> Undef,
                                              stream |-> FALSE, tuples |-> NoTuples], env)
    [] n.type = "binary" -> evaluateBinary(n, in, env)
    [] n.type = "unary" -> Negative(Evaluate(n.kids[1], in, env))
    [] n.type = "array" -> evaluateArray(n, in, env)
    [] n.type = "object" -> evaluateGroupExpression(n.kids, in, env)
    [] n.type = "name" -> lookup(in, n.value)
    [] n.type = "string" -> Str(n.value)
    [] n.type = "number" -> Num(n.value)
    [] n.type = "value" -> IF n.value = "null" THEN Null ELSE Bool(n.value = "true")
    [] n.type = "wildcard" -> evaluateWildcard(in)
    [] n.type = "descendant" -> evaluateDescendants(in)
    [] n.type = "condition" -> evaluateCondition(n, in, env)
    [] n.type = "block" -> evaluateBlock(n, in, env)
    [] n.type = "bind" -> Evaluate(n.kids[2], in, env)
    [] n.type = "function" -> evaluateFunction(n, in, env, <<>>)
    [] n.type = "lambda" -> Procedure([i \in 1 .. Len(n.kids) - 1 |-> n.kids[i].value], n.value, Last(n.kids), in, env)
    [] n.type = "thunk" -> Thunk(n.kids[1], in, env)
    [] n.type = "partial" -> evaluatePartialApplication(n, in, env)
    [] n.type = "transform" -> Transformer(n, env)
    [] n.type = "apply" -> evaluateApplyExpression(n, in, env)
    [] n.type = "variable" -> evaluateVariable(n.value, in, env)

\* A sequence of one item is the item, and of none is undefined.
Collapsed(v, keep) ==
  CASE ~Is("sequence", v) \/ Is("tuple", v) -> v
    [] Is("sequence", v) /\ v.c = <<>> -> Undef
    [] Is("sequence", v) /\ Len(v.c) = 1 /\ ~keep /\ ~Is("keep", v) -> v.c[1]
    [] OTHER -> IF keep THEN [v EXCEPT !.is = @ \union {"keep"}] ELSE v
Filtered(v, predicates, env) ==
  FoldLeft(LAMBDA found, p : IF Failed(found) THEN found ELSE evaluateFilter(p.of, found, env), v, predicates)
Evaluate(n, in, env) ==
  Then(Filtered(evaluateNode(n, in, env), n.predicate, env), LAMBDA v :
    Collapsed(IF ~n.grouped \/ n.type = "path" THEN v ELSE evaluateGroupExpression(n.group, v, env), n.keep))

\* What the engine makes of the tree of a source, on a value, with names bound.
evaluate(tree, value, names) ==
  LET data == Decoded(value)
      input == IF data.k = "array" THEN Marked(<<data>>, {"sequence", "outer"}) ELSE data
  IN Strict(ParsedSignatures(tree), Plain(Evaluate(processAST(tree), input, ("$" :> data) @@ [name \in names |-> Null])))
=============================================================================
