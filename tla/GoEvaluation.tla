----------------------------- MODULE GoEvaluation -----------------------------
(***************************************************************************)
(* The evaluator of the Go engine (internal/evaluator) on the trees the    *)
(* parser hands it, those of ExpressionParser: paths, predicates, sorting, *)
(* grouping, constructors, operators, blocks and calls of a few builtins.  *)
(*                                                                         *)
(* A path is walked in one of two ways: step by step on whole values, or,  *)
(* when a step binds a position (#$i) or an item (@$v) or a part of it     *)
(* asks for its parent (%), on a list of contexts, a value each with an    *)
(* environment of its own.  An environment is the sequence of its frames,  *)
(* the innermost last; parentKey and parentJoin are names no expression    *)
(* can use.  Bindings (:=) stand in blocks.                                *)
(*                                                                         *)
(* A function holds its environment as it was when it was made, and with   *)
(* it the name it is bound to at once: an expression in which a name that  *)
(* a function uses is bound, or bound again, after it is not looked at.    *)
(***************************************************************************)
EXTENDS GoSignature, GoCollections

Syntax == INSTANCE ExpressionParser

parentKey == "%%"
parentJoin == "%%j"

NewChild(env) == Append(env, <<>>)
BindLast(env, name, v) == [env EXCEPT ![Len(env)] = (name :> v) @@ @]
\* The environment up to the frame that binds name, or none.
LookupWithEnv(env, name) ==
  LET at == {i \in DOMAIN env : name \in DOMAIN env[i]}
  IN IF at = {} THEN <<>> ELSE SubSeq(env, 1, CHOOSE i \in at : \A j \in at : j <= i)
LookupName(env, name) ==
  LET owner == LookupWithEnv(env, name)
  IN IF owner = <<>> THEN Undef ELSE Last(owner)[name]

-----------------------------------------------------------------------------
(* What a tree says of itself                                              *)

IsSubscript(n) == n.type = "binary" /\ n.value = "["
RECURSIVE HasParentRef(_)
HasParentRef(n) ==
  \/ n.type = "parent"
  \/ \E i \in DOMAIN n.kids : HasParentRef(n.kids[i])
  \/ \E i \in DOMAIN n.group : HasParentRef(n.group[i])
RECURSIVE HasIndexBinding(_)
HasIndexBinding(n) ==
  \/ n.index # "" \/ n.focus # ""
  \/ n.type \in {"binary", "sort", "path"} /\ \E i \in DOMAIN n.kids : HasIndexBinding(n.kids[i])
IsTupleStep(step) ==
  \/ step.index # "" \/ step.focus # ""
  \/ IsSubscript(step) /\ (step.kids[1].index # "" \/ step.kids[1].focus # "")
  \/ step.type = "sort" /\ HasIndexBinding(step.kids[1])
  \/ HasParentRef(step)
GroupHasParentRef(n) == \E i \in DOMAIN n.group : HasParentRef(n.group[i])
HasTupleStep(n) == \E i \in DOMAIN n.kids : IsTupleStep(n.kids[i])
\* [] anywhere down the left of a subscript.
RECURSIVE KeepsInChain(_)
KeepsInChain(n) ==
  \/ n.keep /\ n.type # "path"
  \/ n.type \in {"binary", "sort"} /\ KeepsInChain(n.kids[1])
\* A block of one path, whose items keep their contexts.
IsPathBlock(n) == n.type = "block" /\ Len(n.kids) = 1 /\ n.kids[1].type = "path"

-----------------------------------------------------------------------------
(* Operators on values                                                     *)

RECURSIVE evalName(_, _)
Combine(fields) == IF fields # <<>> /\ Flattened(fields) = <<>> THEN Arr(<<>>) ELSE Query(Flattened(fields))
evalName(v, name) ==
  CASE v.k = "object" -> Member(v, name)
    [] IsList(v) -> Combine(Defined([i \in DOMAIN v.c |-> evalName(v.c[i], name)]))
    [] OTHER -> Undef

RECURSIVE Deep(_)
Deep(v) == IF IsList(v) THEN FlattenSeq([i \in DOMAIN v.c |-> Deep(v.c[i])]) ELSE <<v>>
Children(v) == IF v.k = "object" THEN [i \in DOMAIN v.m |-> v.m[i][2]]
               ELSE IF IsList(v) THEN v.c ELSE <<>>
evalWildcard(v) == Query(Deep(Arr(Children(v))))

\* The items of arrays stand for the arrays.
RECURSIVE descendantLookup(_)
descendantLookup(v) ==
  LET Below(kids) == FlattenSeq([i \in DOMAIN kids |-> Spread(kids[i]) \o descendantLookup(kids[i])])
  IN Below(IF v.k = "object" THEN Flattened(Children(v)) ELSE Children(v))

Calculate(op, x, y) == Num(CASE op = "+" -> x + y [] op = "-" -> x - y [] op = "*" -> x * y)
evalNumeric(op, l, r) ==
  IF l = Undef THEN Undef
  ELSE IF l.k # "number" THEN Failure("T2001")
  ELSE IF r = Undef THEN Undef
  ELSE IF r.k # "number" THEN Failure("T2002")
  ELSE Calculate(op, l.n, r.n)
compareValues(op, l, r) ==
  LET order == compareOrder(l, r)
  IN IF l.k \notin {"number", "string", "undefined"} THEN Failure("T2010")
     ELSE IF l = Undef \/ r = Undef THEN Undef
     ELSE IF Failed(order) THEN Failure(IF order.code = "T2007" THEN "T2009" ELSE "T2010")
     ELSE Bool(CASE op = "<" -> order.n < 0 [] op = "<=" -> order.n <= 0
                 [] op = ">" -> order.n > 0 [] op = ">=" -> order.n >= 0)
\* Membership compares objects and arrays by identity; here only others are
\* looked for.
containsValue(list, v) ==
  v # Undef /\ \E i \in DOMAIN ListOf(list) : DeepEqual(ListOf(list)[i], v)
evalRange(l, r) ==
  IF l.k \notin {"number", "undefined"} THEN Failure("T2003")
  ELSE IF r.k \notin {"number", "undefined"} THEN Failure("T2004")
  ELSE IF l = Undef \/ r = Undef THEN Undef
  ELSE IF l.n > r.n THEN Undef
  ELSE Arr([i \in 1 .. r.n - l.n + 1 |-> Num(l.n + i - 1)])
Apply(op, l, r) ==
  CASE op \in {"+", "-", "*"} -> evalNumeric(op, l, r)
    [] op = "&" -> Str(Stringify(Externalize(l)) \o Stringify(Externalize(r)))
    [] op \in {"=", "!="} -> Bool(l # Undef /\ r # Undef /\ (DeepEqual(l, r) <=> op = "="))
    [] op \in {"<", "<=", ">", ">="} -> compareValues(op, l, r)
    [] op = "in" -> Bool(containsValue(r, l))
    [] op = ".." -> evalRange(l, r)
    [] OTHER -> Failure("unknown operator")

InRange(i, length) == Index(i, length) \in 0 .. length - 1
\* Whether the value of a predicate takes the item at this position (from 0).
predicateMatches(value, at, length) ==
  LET v == CollapseSequence(value)
  IN CASE v.k = "number" -> Index(v.n, length) = at
       [] IsList(v) /\ AllNumbers(v.c) -> \E i \in DOMAIN v.c : Index(v.c[i].n, length) = at
       [] OTHER -> ToBoolean(v)
\* The items at these positions, in the order of the positions.
selectByIndices(c, items) ==
  LET at == SelectSeq([i \in DOMAIN c |-> c[i].n], LAMBDA i : InRange(i, Len(items)))
      sorted == SortSeq([i \in DOMAIN at |-> Index(at[i], Len(items))], <)
  IN IF at = <<>> THEN Undef ELSE Arr([i \in DOMAIN sorted |-> items[sorted[i] + 1]])

\* The names that group keys make, in the order they are first met, and the
\* places of each.
PlacesOf(keys, name) == SelectSeq([i \in DOMAIN keys |-> i], LAMBDA i : keys[i] = Str(name))
Names(keys) == LET named == Distinct(Defined(keys)) IN [i \in DOMAIN named |-> named[i].s]
CheckKey(v) == IF v.k \in {"string", "failure"} THEN v ELSE Failure("T1003")

-----------------------------------------------------------------------------
(* Builtins                                                                *)

StringFns == {"lowercase", "uppercase", "trim", "length", "contains"}
ListFns == {"map", "filter", "single", "reduce"}
MemberFns == {"sift", "each"}
HigherOrderFns == ListFns \union MemberFns \union {"sort"}
Builtins == StringFns \union CollectionFns \union HigherOrderFns \union {"exists", "count", "type", "keys", "reverse"}
Builtin(fn, v, arg) ==
  LET names == Distinct(KeysOf(v))
  IN IF fn = "exists" THEN Bool(v # Undef)
     ELSE IF fn = "count" THEN Num(Len(ListOf(v)))
     ELSE IF v = Undef THEN Undef
     ELSE CASE fn = "type" -> Str(IF IsList(v) THEN "array" ELSE v.k)
            [] fn = "keys" -> Sequence([i \in DOMAIN names |-> Str(names[i])])
            [] fn = "reverse" -> Arr(Reverse(ListOf(v)))
            [] fn \in StringFns ->
                 IF v.k # "string" THEN Failure("T0410")
                 ELSE IF arg = Undef THEN Undef ELSE StringTerm(fn, v, arg)

-----------------------------------------------------------------------------
(* Functions                                                               *)

Lambda(n, in, env) ==
  [k |-> "function", is |-> "lambda", params |-> [i \in 1 .. Len(n.kids) - 1 |-> n.kids[i].value],
   sig |-> n.value, body |-> Last(n.kids), closure |-> env, focus |-> in, self |-> ""]
Native(name) == [k |-> "function", is |-> "native", name |-> name]
\* args has a hole for each argument that is still to come.
Hole == [k |-> "hole"]
Partial(fn, args) == [k |-> "function", is |-> "partial", fn |-> fn, args |-> args]
Composed(first, second) == [k |-> "function", is |-> "composed", first |-> first, second |-> second]
Transform(n, env) == [k |-> "function", is |-> "transform", node |-> n, env |-> env]
\* What a call in tail position of a lambda returns in place of its result.
TailCall(fn, args) == [k |-> "tail", fn |-> fn, args |-> args]
IsFunction(v) == v.k = "function"
IsLambda(v) == IsFunction(v) /\ v.is = "lambda"

NativeArity(name) ==
  CASE name = "reduce" -> 3 [] name = "zip" -> 0
    [] name \in (HigherOrderFns \ {"reduce"}) \union {"contains", "append", "lookup", "assert"} -> 2
    [] OTHER -> 1
FunctionArity(fn) ==
  IF ~IsFunction(fn) THEN 1
  ELSE CASE fn.is = "lambda" -> Len(fn.params)
         [] fn.is = "native" -> NativeArity(fn.name)
         [] fn.is = "partial" -> Len(SelectSeq(fn.args, LAMBDA arg : arg = Hole))
         [] fn.is \in {"composed", "transform"} -> 1
\* The arguments of a partial application, with the holes filled in order.
Filled(fn, args) ==
  LET before(i) == Cardinality({j \in 1 .. i : fn.args[j] = Hole})
      Next(i) == IF before(i) <= Len(args) THEN args[before(i)] ELSE Undef
  IN [i \in DOMAIN fn.args |-> IF fn.args[i] = Hole THEN Next(i) ELSE fn.args[i]]
\* The builtins are bound outside of everything.
evalVariable(name, in, env) ==
  CASE name = "" -> in
    [] name # "" /\ LookupWithEnv(env, name) # <<>> -> LookupName(env, name)
    [] OTHER -> IF name \in Builtins THEN Native(name) ELSE Undef
\* The name a function is bound to is one it can call.
Named(name, v, e) == IF IsLambda(v) /\ e.type = "lambda" THEN [v EXCEPT !.self = name] ELSE v
ClosureOf(f) == IF f.self = "" THEN f.closure ELSE BindLast(f.closure, f.self, f)
Arguments(f, args) ==
  [name \in ToSet(f.params) |->
     LET i == CHOOSE j \in DOMAIN f.params : f.params[j] = name IN IF i <= Len(args) THEN args[i] ELSE Undef]

-----------------------------------------------------------------------------
(* Evaluation                                                              *)

Context(value, env) == [value |-> value, env |-> env]
Values(ctxs) == [i \in DOMAIN ctxs |-> ctxs[i].value]
Gather(rs) == Strict(rs, Arr(FlattenSeq([i \in DOMAIN rs |-> rs[i].c])))

\* The contexts a step's result makes of ctx: one an item, with its position,
\* and the value it came from as its parent.  A step that binds its items
\* stays where it was.
NewContexts(step, v, ctx, parent) ==
  LET at(j) == IF step.index = "" THEN <<>> ELSE step.index :> Num(j - 1)
      join(j) == IF step.focus = "" THEN <<>>
                 ELSE (step.focus :> ListOf(v)[j]) @@ (parentJoin :> Bool(TRUE))
      frame(j) == IF parent THEN join(j) @@ at(j) @@ (parentKey :> ctx.value) ELSE at(j)
  IN Arr([j \in DOMAIN ListOf(v) |->
       Context(IF parent /\ step.focus # "" THEN ctx.value ELSE ListOf(v)[j],
               Append(ctx.env, frame(j)))])
\* Mutant: a list is one context.
appendTupleResults_Whole(step, result, ctx, parent) ==
  Then(CollapseSequence(result), LAMBDA v : NewContexts(step, IF IsList(v) THEN Arr(<<v>>) ELSE v, ctx, parent))
appendTupleResults(step, result, ctx, parent) ==
  Then(CollapseSequence(result), LAMBDA v : NewContexts(step, v, ctx, parent))

\* The environment a parent was bound in, out of joins of the same parent.
RECURSIVE Climb(_, _)
Climb(env, value) ==
  IF parentJoin \in DOMAIN Last(env) /\ Last(env)[parentKey] = value THEN Climb(Front(env), value) ELSE env
ParentEnv(owner) ==
  IF parentJoin \in DOMAIN Last(owner) THEN Climb(Front(owner), Last(owner)[parentKey]) ELSE Front(owner)
\* The parent of an environment as a context.
ParentContext(env) ==
  LET owner == LookupWithEnv(env, parentKey)
  IN IF owner = <<>> \/ LookupName(env, parentKey) = Undef THEN Failure("S0217")
     ELSE Arr(<<Context(Last(owner)[parentKey], ParentEnv(owner))>>)

RECURSIVE Eval(_, _, _), evalPathStep(_, _, _, _, _, _), evalPathSimple(_, _, _, _, _), expandPathTuple(_, _, _),
          evalPathTuple(_, _, _, _), evalGroupBy(_, _, _, _, _), evalTupleGroup(_, _, _, _),
          callFunction(_, _, _), evalChain(_, _, _, _), applyTransform(_, _, _)

EvalEach(n, items, env) == [i \in DOMAIN items |-> Eval(n, items[i], env)]
EvalAll(nodes, in, env) == [i \in DOMAIN nodes |-> Eval(nodes[i], in, env)]
EvalContexts(n, ctxs) == [i \in DOMAIN ctxs |-> Eval(n, ctxs[i].value, ctxs[i].env)]

\* Sorting.
compareTerms(terms, a, b) ==
  FoldLeft(LAMBDA order, term :
             IF order # Num(0) THEN order
             ELSE LET keys == EvalContexts(term.kids[1], <<a, b>>)
                      found == Strict(keys, compareOrder(keys[1], keys[2]))
                  IN IF term.value = ">" /\ ~Failed(found) THEN Num(-found.n) ELSE found,
           Num(0), terms)
SortContexts(n, ctxs) == StableSort(ctxs, LAMBDA a, b : compareTerms(Tail(n.kids), a, b))
InEnv(items, env) == [i \in DOMAIN items |-> Context(items[i], env)]
evalSort(n, left, env) ==
  LET v == CollapseSequence(left)
  IN IF IsList(v) THEN Then(SortContexts(n, InEnv(v.c, env)), LAMBDA sorted : Arr(Values(sorted.c))) ELSE v
buildSortCtxs(left, in, env) ==
  IF left.type = "path" THEN expandPathTuple(left.kids, <<Context(in, env)>>, TRUE)
  ELSE Then(Eval(left, in, env), LAMBDA v : Arr(InEnv(ListOf(v), env)))
evalSortWithParentTracking(n, in, env) ==
  Then(Then(buildSortCtxs(n.kids[1], in, env), LAMBDA ctxs : SortContexts(n, ctxs.c)),
       LAMBDA sorted : Query(Values(sorted.c)))
evalTupleSort(n, ctxs) ==
  LET left == n.kids[1]
  IN Then(CASE left.type = "variable" -> Arr(ctxs)
            [] left.type = "path" -> expandPathTuple(left.kids, ctxs, TRUE)
            [] OTHER -> Gather([i \in DOMAIN ctxs |->
                  appendTupleResults(left, Eval(left, ctxs[i].value, ctxs[i].env), ctxs[i], TRUE)]),
          LAMBDA expanded : SortContexts(n, expanded.c))

\* Predicates.
filterByPredicate(predicate, items, parent, index, env) ==
  LET within(i) == (IF index = "" THEN <<>> ELSE index :> Num(i - 1)) @@ (parentKey :> parent)
      vals == [i \in DOMAIN items |-> Eval(predicate, items[i], Append(env, within(i)))]
  IN Strict(vals, Query(Pick(items, LAMBDA i : predicateMatches(vals[i], i - 1, Len(items)))))
\* A first value says whether the predicate is a position.
FirstValue(n, items, in, env) ==
  LET first == Eval(n, items[1], env) IN IF Failed(first) THEN Eval(n, in, env) ELSE first
Wrapped(v, keep) == IF ~keep THEN v ELSE IF v = Undef THEN Arr(<<>>) ELSE Kept(v)
Subscripted(n, items, first, in, env) ==
  LET Wrap(v) == Wrapped(v, n.keep \/ KeepsInChain(n.kids[1]))
  IN CASE Failed(first) -> first
       [] first.k = "number" -> IF InRange(first.n, Len(items)) THEN Wrap(items[Index(first.n, Len(items)) + 1]) ELSE Undef
       [] IsList(first) /\ AllNumbers(first.c) -> selectByIndices(first.c, items)
       [] OTHER -> Wrap(filterByPredicate(n.kids[2], items, in, n.kids[1].index, env))
evalSubscriptBlockParent(n, ctxs) ==
  LET vals == EvalContexts(n.kids[2], ctxs)
      kept == Pick(Values(ctxs), LAMBDA i : predicateMatches(vals[i], i - 1, Len(ctxs)))
  IN IF ctxs = <<>> THEN Undef
     ELSE Strict(vals, Wrapped(Query(kept), n.keep \/ KeepsInChain(n.kids[1])))
SubscriptLeft(left, in, env) ==
  CollapseSequence(IF left.type = "descendant" THEN Query(Spread(in) \o descendantLookup(in))
                   ELSE Eval(left, in, env))
FromItems(n, v, in, env) ==
  LET items == ListOf(v)
  IN IF v = Undef THEN Undef
     ELSE IF items = <<>> THEN Wrapped(Undef, n.keep \/ KeepsInChain(n.kids[1]))
     ELSE Subscripted(n, items, FirstValue(n.kids[2], items, in, env), in, env)
evalSubscript(n, in, env) ==
  LET left == n.kids[1]
  IN IF IsPathBlock(left) /\ HasParentRef(n.kids[2])
     THEN Then(expandPathTuple(left.kids[1].kids, <<Context(in, env)>>, TRUE),
               LAMBDA inner : evalSubscriptBlockParent(n, inner.c))
     ELSE Then(SubscriptLeft(left, in, env), LAMBDA v : FromItems(n, v, in, env))

\* Operators and constructors.
evalBinary(n, in, env) ==
  LET l == Eval(n.kids[1], in, env)
      r == Eval(n.kids[2], in, env)
  IN IF n.value = "[" THEN evalSubscript(n, in, env)
     ELSE IF Failed(l) THEN l
     ELSE IF n.value = "~>" THEN evalChain(n.kids[2], l, in, env)
     ELSE CASE n.value = "and" -> IF ToBoolean(l) THEN Strict(<<r>>, Bool(ToBoolean(r))) ELSE Bool(FALSE)
            [] n.value = "or" -> IF ToBoolean(l) THEN Bool(TRUE) ELSE Strict(<<r>>, Bool(ToBoolean(r)))
            [] n.value = "?:" -> IF ToBoolean(l) THEN l ELSE r
            [] n.value = "??" -> IF l # Undef THEN l ELSE r
            [] OTHER -> Strict(<<r>>, Apply(n.value, l, r))
Negated(v) == CASE v.k = "number" -> Num(-v.n) [] v.k \in {"undefined", "failure"} -> v [] OTHER -> Failure("D1002")
\* An array written inside an array stays one.
evalArray(n, in, env) ==
  LET vals == [i \in DOMAIN n.kids |-> Eval(n.kids[i], in, env)]
  IN Strict(vals, Arr(FlattenSeq([i \in DOMAIN vals |->
       IF n.kids[i].type = "array" THEN <<vals[i]>> ELSE ListOf(vals[i])])))
evalObject(n, in, env) ==
  LET With(result, key, v) ==
        IF Failed(result) \/ key = Undef THEN result
        ELSE IF Failed(CheckKey(key)) THEN CheckKey(key)
        ELSE IF \E i \in DOMAIN result.m : result.m[i][1] = key.s THEN Failure("D1009")
        ELSE IF Failed(v) THEN v
        ELSE IF v = Undef THEN result
        ELSE Obj(Append(result.m, <<key.s, v>>))
  IN FoldLeft(LAMBDA result, i : With(result, Eval(n.kids[2*i - 1], in, env),
                                      CollapseSequence(Eval(n.kids[2*i], in, env))),
              Obj(<<>>), [i \in 1 .. Len(n.kids) \div 2 |-> i])
evalBlock(n, in, env) ==
  LET Next(s, e, v) == [v |-> v, env |-> IF e.type = "bind" THEN BindLast(s.env, e.kids[1].value, v) ELSE s.env]
      Value(e, v) == IF e.type = "bind" THEN Named(e.kids[1].value, v, e.kids[2]) ELSE v
  IN FoldLeft(LAMBDA s, e : IF Failed(s.v) THEN s ELSE Next(s, e, Value(e, Eval(e, in, s.env))),
              [v |-> Undef, env |-> NewChild(env)], n.kids).v
evalCondition(n, in, env) ==
  LET test == Eval(n.kids[1], in, env)
  IN CASE Failed(test) -> test
       [] ToBoolean(test) -> Eval(n.kids[2], in, env)
       [] OTHER -> IF Len(n.kids) = 3 THEN Eval(n.kids[3], in, env) ELSE Undef

-----------------------------------------------------------------------------
(* Calls                                                                   *)

\* Of each item, what the callback makes of the first of item, position and
\* list, as many as it takes.
EachItem(fn, items, whole, focus) ==
  [i \in DOMAIN items |->
     callFunction(fn, UpTo(FunctionArity(fn), <<items[i], Num(i - 1), whole>>), focus)]
Single(items) ==
  CASE items = <<>> -> Failure("D3139") [] Len(items) = 1 -> items[1] [] OTHER -> Failure("D3138")
Reduce(fn, items, start, whole, focus) ==
  LET Step(acc, i) == callFunction(fn, UpTo(FunctionArity(fn), <<acc, items[i], Num(i - 1), whole>>), focus)
      from == IF start = <<>> THEN 2 ELSE 1
  IN IF FunctionArity(fn) < 2 THEN Failure("D3050")
     ELSE IF items = <<>> THEN (IF start = <<>> THEN Undef ELSE start[1])
     ELSE FoldLeft(LAMBDA acc, i : Then(acc, LAMBDA v : Step(v, i)), Head(start \o items),
                   [i \in 1 .. Len(items) - from + 1 |-> i + from - 1])
\* $map, $filter and $reduce are of the context when only a function is given.
OfList(name, args, focus) ==
  LET ofContext == Len(args) < (IF name = "single" THEN 1 ELSE 2)
      list == IF ofContext THEN focus ELSE args[1]
      items == ListOf(list)
      fn == args[IF ofContext THEN 1 ELSE 2]
      whole == IF IsList(list) THEN list ELSE Arr(items)
      vals == EachItem(fn, items, whole, focus)
      held == Pick(items, LAMBDA i : ToBoolean(vals[i]))
      bare == Len(args) < 2 \/ args[2] = Undef
  IN IF args = <<>> /\ name # "single" THEN Failure("D3006")
     ELSE IF list = Undef THEN (IF ofContext /\ name = "map" THEN Failure("T0410") ELSE Undef)
     ELSE CASE name = "map" -> Strict(vals, Query(Defined(vals)))
            [] name = "filter" -> Strict(vals, Query(held))
            [] name = "single" -> IF bare THEN Single(items) ELSE Strict(vals, Single(held))
            [] name = "reduce" -> Reduce(fn, items, SubSeq(args, 3, Len(args)), whole, focus)
\* Of each member, what the callback makes of its value, name and object.
EachMember(fn, object, focus) ==
  [i \in DOMAIN object.m |->
     callFunction(fn, UpTo(FunctionArity(fn), <<object.m[i][2], Str(object.m[i][1]), object>>), focus)]
Sifted(object, vals) ==
  LET held == Pick(object.m, LAMBDA i : ToBoolean(vals[i])) IN Strict(vals, IF held = <<>> THEN Undef ELSE Obj(held))
OfMembers(name, args, focus) ==
  LET object == IF Len(args) = 1 THEN focus ELSE args[1]
      Collected(vals) == IF name = "sift" THEN Sifted(object, vals) ELSE Strict(vals, Sequence(Defined(vals)))
  IN IF args = <<>> THEN Failure("D3006")
     ELSE IF object = Undef THEN Undef
     ELSE IF object.k # "object" THEN Failure("T0410") ELSE Collected(EachMember(args[IF Len(args) = 1 THEN 1 ELSE 2], object, focus))
\* A comparator says whether its first argument goes behind its second.
Before(fn, a, b, focus) == Then(callFunction(fn, <<b, a>>, focus), LAMBDA v : Num(IF ToBoolean(v) THEN -1 ELSE 0))
Sorted(v, comparators, focus) ==
  IF v = Undef THEN Undef
  ELSE IF Len(ListOf(v)) <= 1 THEN Kept(v)
  ELSE IF comparators # <<>> THEN StableSort(v.c, LAMBDA a, b : Before(comparators[1], a, b, focus))
  ELSE IF AllNumbers(v.c) \/ (\A i \in DOMAIN v.c : v.c[i].k = "string") THEN StableSort(v.c, compareOrder)
  ELSE Failure("D3070")
Sort(args, focus) ==
  IF args = <<>> \/ (Len(args) = 1 /\ IsFunction(args[1])) THEN Sorted(focus, args, focus)
  ELSE Sorted(args[1], SelectSeq(Tail(args), LAMBDA v : v # Undef), focus)
HigherOrder(name, args, focus) ==
  CASE name \in ListFns -> OfList(name, args, focus) [] name \in MemberFns -> OfMembers(name, args, focus)
    [] name = "sort" -> Sort(args, focus)
\* Builtins that are of the context when an argument is missing.
OfContext(name, args, focus) ==
  IF name \in {"lowercase", "uppercase", "trim"} /\ args = <<>> THEN <<focus>>
  ELSE IF name = "contains" /\ Len(args) = 1 /\ focus # Undef THEN <<focus>> \o args ELSE args
WithoutArguments(name) ==
  CASE name \in {"exists", "contains"} -> Failure("T0410") [] name = "length" -> Failure("T0411")
    [] OTHER -> Builtin(name, Undef, Undef)
callNative(name, args, focus) ==
  LET given == OfContext(name, args, focus)
  IN IF name \in HigherOrderFns THEN HigherOrder(name, args, focus)
     ELSE IF name \in CollectionFns THEN Collection(name, args, focus)
     ELSE IF given = <<>> THEN WithoutArguments(name)
     ELSE Builtin(name, given[1], given[Len(given)])
\* The body of a lambda sees the context of the call, but of one without
\* parameters and arguments that of its definition.
Invoked(f, args, focus) ==
  Eval(f.body, IF f.params = <<>> /\ args = <<>> THEN f.focus ELSE focus, Append(ClosureOf(f), Arguments(f, args)))
\* With a signature, what it makes of the arguments first.
Given(sig, args, focus) == IF sig = "" THEN Arr(args) ELSE processCallArgs(ParseSig[sig].c, args, focus)
callLambda(f, args, focus) ==
  Then(Given(f.sig, args, focus), LAMBDA given : IF given = Undef THEN Undef ELSE Invoked(f, given.c, focus))
\* A tail call that a body comes to is made here, in the context of the first.
\* Mutant: but not the tail call that it comes to in turn.
Landed_Once(v, focus) == IF v.k = "tail" THEN callLambda(v.fn, v.args, focus) ELSE v
Landed(v, focus) == IF v.k = "tail" THEN callFunction(v.fn, v.args, focus) ELSE v

\* A transform changes a copy of what it is given, in place: the clauses of a
\* target see what has been done to those before.  The pattern and the clauses
\* name objects of the copy, and no update holds its own target.
RECURSIVE deepClone(_)
deepClone(v) ==
  CASE IsList(v) -> Arr([i \in DOMAIN v.c |-> deepClone(v.c[i])])
    [] v.k = "object" -> Obj([i \in DOMAIN v.m |-> <<v.m[i][1], deepClone(v.m[i][2])>>])
    [] IsFunction(v) -> Str("")
    [] OTHER -> v
TransformUpdate(n, target, store, env) ==
  Then(Eval(n.kids[2], target, env), LAMBDA update :
    CASE update.k \in {"undefined", "null"} -> store
      [] update.k = "object" -> Written(store, target, transformMerge(target, update))
      [] OTHER -> Failure("T2011"))
TransformDelete(n, target, store, env) ==
  IF Len(n.kids) = 2 THEN store
  ELSE Then(Eval(n.kids[3], target, env), LAMBDA names :
         CASE names.k \in {"undefined", "null"} -> store
           [] names.k = "string" \/ IsList(names) ->
                Written(store, target, transformDelete(target, {v.s : v \in {w \in ToSet(ListOf(names)) : w.k = "string"}}))
           [] OTHER -> Failure("T2012"))
\* Mutant: the delete clause sees the target as it was.
applyTransformTarget_Stale(n, target, store, env) ==
  Then(TransformUpdate(n, Current(target, store), store, env), LAMBDA updated :
    TransformDelete(n, Current(target, store), updated, env))
applyTransformTarget(n, target, store, env) ==
  Then(TransformUpdate(n, Current(target, store), store, env), LAMBDA updated :
    TransformDelete(n, Current(target, updated), updated, env))
\* Where nothing that is matched is an object, the clauses are only checked.
validateTransformClauses(n, in, env) ==
  Then(Eval(n.kids[2], in, env), LAMBDA update :
    IF update.k \notin {"undefined", "null", "object"} THEN Failure("T2011")
    ELSE IF Len(n.kids) = 2 THEN in
    ELSE Then(Eval(n.kids[3], in, env), LAMBDA names :
           IF names.k \in {"undefined", "null", "string"} \/ IsList(names) THEN in ELSE Failure("T2012")))
Transformed(n, clone, matched, env) ==
  LET targets == SelectSeq(ListOf(matched), LAMBDA v : v.k = "object")
  IN IF targets = <<>> /\ matched # Undef THEN Then(validateTransformClauses(n, clone, env), LAMBDA v : deepClone(clone))
     ELSE Then(FoldLeft(LAMBDA s, target : Then(s, LAMBDA store : applyTransformTarget(n, target, store, env)), Unchanged, targets),
               LAMBDA store : deepClone(Current(clone, store)))
TransformClone(n, clone, env) ==
  Then(Eval(n.kids[1], clone, env), LAMBDA matched : Transformed(n, clone, matched, env))
applyTransform(n, input, env) ==
  IF input = Undef THEN Undef
  ELSE IF input.k # "object" /\ ~IsList(input) THEN Failure("T0410")
  ELSE TransformClone(n, Identified(deepClone(input), <<>>), env)

callFunction(fn, args, focus) ==
  IF ~IsFunction(fn) THEN Failure("T1006")
  ELSE CASE fn.is = "native" -> callNative(fn.name, args, focus)
         [] fn.is = "partial" -> callFunction(fn.fn, Filled(fn, args), focus)
         [] fn.is = "composed" -> Then(callFunction(fn.first, args, focus), LAMBDA v :
                                    CollapseSequence(callFunction(fn.second, <<CollapseSequence(v)>>, focus)))
         [] fn.is = "transform" -> applyTransform(fn.node, IF args = <<>> THEN focus ELSE args[1], fn.env)
         [] fn.is = "lambda" -> Landed(callLambda(fn, args, focus), focus)

\* A name without its $ that is bound to a function is an error of its own.
Misnamed(callee, fn, env) ==
  /\ callee.type = "name" /\ fn = Undef /\ evalVariable(callee.value, Undef, env) # Undef
\* Two builtins have a signature, which only a call like this one looks at.
SignedBuiltins == {"lowercase", "uppercase"}
BuiltinSig(fn) == IF IsFunction(fn) /\ fn.is = "native" /\ fn.name \in SignedBuiltins THEN "s-:s" ELSE ""
CallOf(n, fn, args, in) ==
  Then(Given(BuiltinSig(fn), args, in), LAMBDA given :
    IF given = Undef THEN Undef
    ELSE IF n.thunk /\ IsLambda(fn) THEN TailCall(fn, args)
    ELSE CollapseAndKeep(callFunction(fn, given.c, in), n.keep))
evalFunction(n, in, env) ==
  LET callee == Eval(n.kids[1], in, env)
      fn == IF callee = Failure("S0217") THEN Undef ELSE callee
      args == EvalAll(Tail(n.kids), in, env)
  IN IF Failed(fn) THEN fn
     ELSE IF Misnamed(n.kids[1], fn, env) THEN Failure("T1005")
     ELSE Strict(args, CallOf(n, fn, args, in))
evalPartial(n, in, env) ==
  LET fn == Eval(n.kids[1], in, env)
      args == [i \in 1 .. Len(n.kids) - 1 |-> IF n.kids[i + 1].type = "operator" THEN Hole ELSE Eval(n.kids[i + 1], in, env)]
  IN CASE Failed(fn) \/ IsFunction(fn) -> Strict(<<fn>> \o args, Partial(fn, args))
       [] fn = Undef -> Failure(IF n.kids[1].type = "name" /\ ~Misnamed(n.kids[1], fn, env) THEN "T1008" ELSE "T1007")
       [] OTHER -> Failure("T1008")
\* left ~> right; a chain is read from the right and applied from the left.
Piped(piped, fn, in) ==
  CASE fn = Undef -> Failure("T1006")
    [] fn # Undef /\ ~IsFunction(fn) -> Failure("T2006")
    [] OTHER -> IF IsFunction(piped) THEN Composed(piped, fn) ELSE CollapseSequence(callFunction(fn, <<piped>>, in))
evalChain(right, piped, in, env) ==
  LET chained == right.type = "binary" /\ right.value = "~>"
      fn == Eval(right.kids[1], in, env)
      args == EvalAll(Tail(right.kids), in, env)
  IN IF chained
     THEN Then(evalChain(right.kids[1], piped, in, env), LAMBDA v :
            IF v = Undef THEN Undef ELSE evalChain(right.kids[2], v, in, env))
     ELSE IF right.type = "function"
     THEN Strict(<<fn>> \o args, CollapseAndKeep(callFunction(fn, <<piped>> \o args, in), right.keep))
     ELSE Then(Eval(right, in, env), LAMBDA f : Piped(piped, f, in))
\* A lambda that is a step takes the item too, if it has a parameter for it.
evalPathFunctionStep(step, item, env) ==
  LET fn == Eval(step.kids[1], item, env)
      args == EvalAll(Tail(step.kids), item, env)
      all == IF IsLambda(fn) /\ Len(args) < Len(fn.params) THEN <<item>> \o args ELSE args
  IN Strict(<<fn>> \o args, callFunction(fn, all, item))

-----------------------------------------------------------------------------
(* Paths, a value at a time                                                *)

evalItem(step, item, env) ==
  IF step.type = "function" THEN evalPathFunctionStep(step, item, env) ELSE Eval(step, item, env)
\* Over the items of a list; an array written as a step is one result each.
\* Mutant: lists are not flattened.
Mapped_Nested(step, vals, keepSingleton) == Strict(vals, IF vals = <<>> THEN Undef ELSE Query(vals))
Mapped(step, vals, keepSingleton) ==
  LET all == IF step.type = "array" THEN vals ELSE Flattened(vals)
  IN Strict(vals, IF all = <<>> THEN Undef
                  ELSE IF step.type = "array" /\ keepSingleton THEN Arr(all) ELSE Query(all))
MapStep(step, items, env, keepSingleton) ==
  Mapped(step, Defined([i \in DOMAIN items |-> evalItem(step, items[i], env)]), keepSingleton)
TakesWhole(step, mapper, first) ==
  \/ step.type \in {"name", "variable", "string", "value", "sort"}
  \/ step.type = "wildcard" /\ first
  \/ (step.type \in {"block", "array"} \/ IsSubscript(step)) /\ ~mapper
Descendants(items) == IF items = <<>> THEN Undef ELSE Sequence(items)
evalPathStep(step, in, env, mapper, keepSingleton, first) ==
  IF step.type = "number" THEN Failure("S0213")
  ELSE IF step.type = "descendant" THEN Descendants((IF IsList(in) THEN <<>> ELSE Spread(in)) \o descendantLookup(in))
  ELSE IF TakesWhole(step, mapper, first) THEN Eval(step, in, env)
  ELSE IF IsList(in) THEN MapStep(step, in.c, env, keepSingleton)
  ELSE evalItem(step, in, env)

\* mapper: the step before i made a list.  A list that mapping made empty is
\* nothing, a field that is an empty array is that array.
evalPathSimple(n, i, result, mapper, env) ==
  LET v == CollapseSequence(result)
      nothing(next) == IsList(next) /\ next.c = <<>> /\ mapper /\ n.kids[i].type \notin {"name", "string"}
  IN IF i > Len(n.kids) THEN (IF n.keep THEN Kept(result) ELSE result)
     ELSE IF i > 1 /\ v = Undef THEN Undef
     ELSE Then(evalPathStep(n.kids[i], v, env, mapper, n.keep, i = 1), LAMBDA next :
                 IF nothing(next) THEN Undef ELSE evalPathSimple(n, i + 1, next, IsList(next), env))

-----------------------------------------------------------------------------
(* Paths, a list of contexts at a time                                     *)

\* The contexts a step makes of one, none of undefined.  Mutant: the parent is
\* forgotten.
Walk_Orphans(step, ctx, keepSingleton, first, parent) ==
  LET v == CollapseSequence(ctx.value)
  IN IF v = Undef THEN Arr(<<>>)
     ELSE appendTupleResults(step, evalPathStep(step, v, ctx.env, FALSE, keepSingleton, first), ctx, FALSE)
Walk(step, ctx, keepSingleton, first, parent) ==
  LET v == CollapseSequence(ctx.value)
  IN IF v = Undef THEN Arr(<<>>)
     ELSE appendTupleResults(step, evalPathStep(step, v, ctx.env, FALSE, keepSingleton, first), ctx, parent)
expandPathTuple(steps, ctxs, first) ==
  IF steps = <<>> \/ ctxs = <<>> THEN Arr(ctxs)
  ELSE Then(Gather([i \in DOMAIN ctxs |-> Walk(steps[1], ctxs[i], FALSE, first, TRUE)]),
            LAMBDA next : expandPathTuple(Tail(steps), next.c, FALSE))

\* The contexts whose predicate is true.
Filtered(ctxs, predicates) ==
  Strict(predicates, Arr(Pick(ctxs, LAMBDA i : ToBoolean(predicates[i]))))
\* %[predicate]
ParentFilter(predicate, ctx) ==
  LET owner == LookupWithEnv(ctx.env, parentKey)
      up == Context(Last(owner)[parentKey], Front(owner))
  IN IF owner = <<>> THEN Failure("S0217") ELSE Filtered(<<up>>, EvalContexts(predicate, <<up>>))
\* (block)[predicate], when the predicate asks for parents.
BlockFilter(step, ctx) ==
  LET block == step.kids[1]
      One(v) == Arr(IF v = Undef THEN <<>> ELSE <<Context(v, ctx.env)>>)
  IN Then(IF IsPathBlock(block) THEN expandPathTuple(block.kids[1].kids, <<ctx>>, TRUE)
          ELSE Then(Eval(block, ctx.value, ctx.env), One),
          LAMBDA inner : Filtered(inner.c, EvalContexts(step.kids[2], inner.c)))
\* left@$focus[predicate]: the items bound one by one, the context kept.
Joined(step, ctx, items) ==
  LET left == step.kids[1]
      at(j) == IF left.index = "" THEN <<>> ELSE left.index :> Num(j - 1)
      env(j) == Append(ctx.env, at(j) @@ (left.focus :> items[j]) @@ (parentJoin :> Bool(TRUE)) @@ (parentKey :> ctx.value))
      tests == [j \in DOMAIN items |-> Eval(step.kids[2], items[j], env(j))]
  IN Filtered([j \in DOMAIN items |-> Context(ctx.value, env(j))], tests)
evalJoinFilter(step, ctx) ==
  LET v == CollapseSequence(ctx.value)
  IN Then(IF v = Undef THEN Undef ELSE CollapseSequence(evalPathStep(step.kids[1], v, ctx.env, FALSE, FALSE, FALSE)),
          LAMBDA found : Joined(step, ctx, ListOf(found)))
JoinAll(step, ctxs) == Gather([i \in DOMAIN ctxs |-> evalJoinFilter(step, ctxs[i])])
Numbered(index, ctxs) ==
  [i \in DOMAIN ctxs |-> IF index = "" THEN ctxs[i] ELSE [ctxs[i] EXCEPT !.env = BindLast(@, index, Num(i - 1))]]
\* Of the contexts of a join, the one at a numeric subscript.
JoinedAt(subscript, ctxs) ==
  IF ctxs = <<>> THEN Arr(<<>>)
  ELSE Then(Eval(subscript, ctxs[1].value, ctxs[1].env), LAMBDA at :
              IF at.k # "number" THEN Arr(ctxs)
              ELSE Arr(IF InRange(at.n, Len(ctxs)) THEN <<ctxs[Index(at.n, Len(ctxs)) + 1]>> ELSE <<>>))

IsJoinFilter(step) == IsSubscript(step) /\ step.kids[1].focus # ""
\* $ and $$ have no parent.
IsRoot(step) == step.type = "variable" /\ step.value \in {"", "$"}
TupleStep(n, i, step, ctxs) ==
  LET Each(Make(_)) == Gather([j \in DOMAIN ctxs |-> Make(ctxs[j])])
      On(type) == IsSubscript(step) /\ step.kids[1].type = type
  IN IF step.type = "sort" THEN evalTupleSort(step, ctxs)
     ELSE IF step.type = "parent" THEN Each(LAMBDA ctx : ParentContext(ctx.env))
     ELSE IF On("parent") THEN Each(LAMBDA ctx : ParentFilter(step.kids[2], ctx))
     ELSE IF On("block") /\ HasParentRef(step.kids[2]) THEN Each(LAMBDA ctx : BlockFilter(step, ctx))
     ELSE IF IsPathBlock(step) THEN expandPathTuple(step.kids[1].kids, ctxs, TRUE)
     ELSE IF IsJoinFilter(step) THEN Then(JoinAll(step, ctxs), LAMBDA joined : Arr(Numbered(step.index, joined.c)))
     ELSE IF IsSubscript(step) /\ IsJoinFilter(step.kids[1])
     THEN Then(JoinAll(step.kids[1], ctxs), LAMBDA joined : JoinedAt(step.kids[2], joined.c))
     ELSE IF i = 1 /\ CollapseSequence(ctxs[1].value) = Undef
     THEN appendTupleResults(step, evalPathStep(step, Undef, ctxs[1].env, FALSE, n.keep, TRUE), ctxs[1], ~IsRoot(step))
     ELSE Each(LAMBDA ctx : Walk(step, ctx, n.keep, i = 1, ~(i = 1 /\ IsRoot(step))))

\* The walk ends when no context is left, but for an empty sort.  The grouping
\* of the first step that has one is put off to the end.
NoGroup == [grouped |-> FALSE, group |-> <<>>]
TupleResult(n, ctxs, late) ==
  LET result == Query(SpreadAll(Values(ctxs)))
  IN IF n.grouped \/ late.grouped
     THEN evalTupleGroup(IF n.grouped THEN n.group ELSE late.group, ctxs, 1, Obj(<<>>))
     ELSE IF n.keep THEN Kept(result) ELSE result
evalPathTuple(n, i, ctxs, late) ==
  LET step == n.kids[i]
      first == step.grouped /\ ~late.grouped
      now == IF first THEN [grouped |-> TRUE, group |-> step.group] ELSE late
  IN IF i > Len(n.kids) \/ (ctxs = <<>> /\ n.kids[i - 1].type # "sort") THEN TupleResult(n, ctxs, late)
     ELSE Then(TupleStep(n, i, IF first THEN [step EXCEPT !.grouped = FALSE, !.group = <<>>] ELSE step, ctxs),
               LAMBDA next : evalPathTuple(n, i + 1, next.c, now))

-----------------------------------------------------------------------------
(* Groupings, pair by pair                                                 *)

\* The object with what one more name of a pair comes to.
AddMember(result, name, v) ==
  IF Failed(result) THEN result
  ELSE IF Failed(v) THEN v
  ELSE IF v = Undef THEN result
  ELSE Obj(SetMember(result.m, name, v))
At(places, items) == [i \in DOMAIN places |-> items[places[i]]]
OneOrAll(items) == IF Len(items) = 1 THEN items[1] ELSE Arr(items)

\* An undefined key takes no part; a key of two pairs is an error.
PairGrouped(group, items, env, i, result, keys) ==
  LET keep == group[2*i].keep /\ group[2*i].type # "path"
      Value(name) ==
        LET at == PlacesOf(keys, name)
            v == Eval(group[2*i], OneOrAll(At(at, items)), Append(env, ("$index" :> Num(at[1] - 1)) @@ ("$key" :> Str(name))))
        IN IF ~keep THEN v ELSE IF v = Undef THEN Arr(<<>>) ELSE Kept(v)
      Add(obj, name) ==
        IF ~Failed(obj) /\ \E j \in DOMAIN result.m : result.m[j][1] = name THEN Failure("D1009")
        ELSE AddMember(obj, name, Value(name))
  IN Strict(keys, FoldLeft(Add, result, Names(keys)))
evalGroupBy(group, items, env, i, result) ==
  LET Checked(v) == IF v = Undef THEN Undef ELSE CheckKey(v)
      keys == [j \in DOMAIN items |-> Checked(Eval(group[2*i - 1], items[j], env))]
  IN IF 2*i > Len(group) \/ Failed(result) THEN result
     ELSE evalGroupBy(group, items, env, i + 1, PairGrouped(group, items, env, i, result, keys))

\* The variables of a context are those of the frames with a parent.
RECURSIVE TupleNames(_)
TupleNames(env) ==
  IF parentKey \in DOMAIN Last(env) THEN DOMAIN Last(env) \union TupleNames(Front(env)) ELSE {}
\* Of a variable that differs, all values.
mergeGroupEnvs(envs) ==
  LET names == UNION {TupleNames(envs[i]) : i \in DOMAIN envs}
      Vals(name) == LET have == SelectSeq(envs, LAMBDA env : LookupWithEnv(env, name) # <<>>)
                    IN [i \in DOMAIN have |-> LookupName(have[i], name)]
      Merged(name) == LET vals == Vals(name)
                      IN IF \A i \in DOMAIN vals : DeepEqual(vals[i], vals[1]) \/ name = parentKey THEN vals[1] ELSE Arr(vals)
  IN IF Len(envs) = 1 THEN envs[1] ELSE Append(Front(envs[1]), [name \in names |-> Merged(name)])
TuplesGrouped(value, ctxs, result, keys) ==
  LET Of(some) == Eval(value, OneOrAll(Values(some)), mergeGroupEnvs([j \in DOMAIN some |-> some[j].env]))
      Add(obj, name) == AddMember(obj, name, Of(At(PlacesOf(keys, name), ctxs)))
  IN Strict(keys, FoldLeft(Add, result, Names(keys)))
evalTupleGroup(group, ctxs, i, result) ==
  LET keys == [j \in DOMAIN ctxs |-> CheckKey(Eval(group[2*i - 1], ctxs[j].value, ctxs[j].env))]
  IN IF 2*i > Len(group) \/ Failed(result) THEN result
     ELSE evalTupleGroup(group, ctxs, i + 1, TuplesGrouped(group[2*i], ctxs, result, keys))

-----------------------------------------------------------------------------
evalNode(n, in, env) ==
  CASE n.type = "value" -> IF n.value = "null" THEN Null ELSE Bool(n.value = "true")
    [] n.type = "string" -> Str(n.value)
    [] n.type = "number" -> Num(IF n.minus THEN -n.value ELSE n.value)
    [] n.type = "variable" -> evalVariable(n.value, in, env)
    [] n.type = "name" -> evalName(in, n.value)
    [] n.type = "wildcard" -> evalWildcard(in)
    [] n.type = "descendant" -> Sequence(descendantLookup(in))
    [] n.type = "parent" -> IF LookupWithEnv(env, parentKey) = <<>> THEN Failure("S0217") ELSE LookupName(env, parentKey)
    [] n.type = "path" -> IF HasTupleStep(n) \/ GroupHasParentRef(n) THEN evalPathTuple(n, 1, <<Context(in, env)>>, NoGroup)
                          ELSE evalPathSimple(n, 1, in, FALSE, env)
    [] n.type = "binary" -> evalBinary(n, in, env)
    [] n.type = "unary" -> Negated(Eval(n.kids[1], in, env))
    [] n.type = "array" -> evalArray(n, in, env)
    [] n.type = "object" -> evalObject(n, in, env)
    [] n.type = "block" -> evalBlock(n, in, env)
    [] n.type = "bind" -> Eval(n.kids[2], in, env)
    [] n.type = "condition" -> evalCondition(n, in, env)
    [] n.type = "function" -> evalFunction(n, in, env)
    [] n.type = "lambda" -> Lambda(n, in, env)
    [] n.type = "partial" -> evalPartial(n, in, env)
    [] n.type = "transform" -> Transform(n, env)
    [] n.type = "sort" -> IF \E i \in 2 .. Len(n.kids) : HasParentRef(n.kids[i])
                          THEN evalSortWithParentTracking(n, in, env)
                          ELSE evalSort(n, Eval(n.kids[1], in, env), env)

Eval(n, in, env) ==
  IF ~n.grouped \/ (n.type = "path" /\ (HasTupleStep(n) \/ GroupHasParentRef(n))) THEN evalNode(n, in, env)
  ELSE Then(CollapseSequence(Eval([n EXCEPT !.grouped = FALSE], in, env)), LAMBDA items :
              IF items = Undef THEN Undef ELSE evalGroupBy(n.group, ListOf(items), env, 1, Obj(<<>>)))
=============================================================================
