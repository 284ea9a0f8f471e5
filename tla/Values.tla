------------------------------- MODULE Values -------------------------------
(***************************************************************************)
(* The values of both engines: JSON values, undefined, an error, and, in   *)
(* the Go evaluator (internal/evaluator: value.go, list_value.go,          *)
(* ordered_map.go, eval_helpers.go), the sequences that queries make.      *)
(*                                                                         *)
(* Values are tagged records.  An object is the sequence of its members in *)
(* their order, so a text with duplicate members is a value too.  A string *)
(* is ascii or not, and what a string function makes of it is a term.      *)
(* Numbers are integers.  An array keeps its elements whatever happens; a  *)
(* sequence of one element is that element and an empty one is undefined,  *)
(* unless [] was asked for.  The []any slices the evaluator uses in        *)
(* passing are arrays, which InternalizeValue makes of them.               *)
(***************************************************************************)
EXTENDS Integers, Sequences, FiniteSets, SequencesExt, TLC

CONSTANT Collation  \* the strings that are compared, in codepoint order

Null == [k |-> "null"]
Bool(b) == [k |-> "boolean", b |-> b]
Num(n) == [k |-> "number", n |-> n]
Str(s) == [k |-> "string", ascii |-> TRUE, s |-> s]
Wide(s) == [k |-> "string", ascii |-> FALSE, s |-> s]
Arr(c) == [k |-> "array", c |-> c]
Obj(m) == [k |-> "object", m |-> m]
Undef == [k |-> "undefined"]
Failure(code) == [k |-> "failure", code |-> code]
Sequence(c) == [k |-> "sequence", c |-> c, keep |-> FALSE]

Failed(v) == v.k = "failure"
Then(v, Next(_)) == IF Failed(v) THEN v ELSE Next(v)
IsList(v) == v.k \in {"array", "sequence"}
ListOf(v) == CASE IsList(v) -> v.c [] v = Undef -> <<>> [] OTHER -> <<v>>

Keys(v) == [i \in DOMAIN v.m |-> v.m[i][1]]
\* The first member of that name, as a scan of the text finds it.
Member(v, name) ==
  LET at == {i \in DOMAIN v.m : v.m[i][1] = name}
  IN IF at = {} THEN Undef
     ELSE v.m[CHOOSE i \in at : \A j \in at : i <= j][2]
\* The members with name set: where it was, or at the end.
SetMember(m, name, v) ==
  IF \E i \in DOMAIN m : m[i][1] = name
  THEN [i \in DOMAIN m |-> IF m[i][1] = name THEN <<name, v>> ELSE m[i]]
  ELSE Append(m, <<name, v>>)

RECURSIVE Unique(_)
Unique(v) ==
  CASE v.k = "object" -> /\ IsInjective(Keys(v))
                         /\ \A i \in DOMAIN v.m : Unique(v.m[i][2])
    [] v.k = "array" -> \A i \in DOMAIN v.c : Unique(v.c[i])
    [] OTHER -> TRUE

-----------------------------------------------------------------------------
(* Sequences                                                               *)

CollapseSequence(v) ==
  CASE v.k # "sequence" -> v
    [] v.k = "sequence" /\ v.c = <<>> -> Undef
    [] v.k = "sequence" /\ Len(v.c) = 1 /\ ~v.keep -> v.c[1]
    [] OTHER -> v
Query(c) == CollapseSequence(Sequence(c))

\* What a value adds to a sequence.
RECURSIVE Spread(_)
Spread(v) ==
  CASE v.k = "sequence" -> FlattenSeq([i \in DOMAIN v.c |-> Spread(v.c[i])])
    [] v = Undef -> <<>>
    [] OTHER -> <<v>>
\* The items of all values.
Flattened(vs) == FlattenSeq([i \in DOMAIN vs |-> ListOf(vs[i])])
SpreadAll(vs) == FlattenSeq([i \in DOMAIN vs |-> Spread(vs[i])])

\* A list, for [].
Kept(v) == IF IsList(v) \/ v.k \in {"undefined", "failure"} THEN v ELSE Arr(<<v>>)
CollapseAndKeep(v, keep) ==
  CASE ~keep -> CollapseSequence(v)
    [] keep /\ v.k = "sequence" -> CollapseSequence([v EXCEPT !.keep = TRUE])
    [] OTHER -> Kept(v)

\* The value a caller is given.
RECURSIVE Externalize(_)
Externalize(v) ==
  CASE v.k = "sequence" /\ v.c = <<>> /\ ~v.keep -> Undef
    [] v.k = "sequence" /\ Len(v.c) = 1 /\ ~v.keep -> Externalize(v.c[1])
    [] IsList(v) /\ (v.k = "sequence" => v.keep \/ Len(v.c) > 1) ->
         Arr([i \in DOMAIN v.c |-> Externalize(v.c[i])])
    [] v.k = "object" -> Obj([i \in DOMAIN v.m |-> <<v.m[i][1], Externalize(v.m[i][2])>>])
    [] OTHER -> v

-----------------------------------------------------------------------------
(* Conversion and comparison                                               *)

RECURSIVE ToBoolean(_)
ToBoolean(v) ==
  CASE v.k = "boolean" -> v.b
    [] v.k = "string" -> v.s # ""
    [] v.k = "number" -> v.n # 0
    [] v.k = "object" -> v.m # <<>>
    [] IsList(v) -> \E i \in DOMAIN v.c : ToBoolean(v.c[i])
    [] OTHER -> FALSE

RECURSIVE DeepEqual(_, _)
DeepEqual(a, b) ==
  CASE IsList(a) /\ IsList(b) ->
         Len(a.c) = Len(b.c) /\ \A i \in DOMAIN a.c : DeepEqual(a.c[i], b.c[i])
    [] a.k = "object" /\ b.k = "object" ->
         /\ Len(a.m) = Len(b.m)
         /\ \A i \in DOMAIN a.m : /\ Member(b, a.m[i][1]) # Undef
                                  /\ DeepEqual(a.m[i][2], Member(b, a.m[i][1]))
    [] OTHER -> a.k = b.k /\ a = b

Sign(x, y) == Num(IF x < y THEN -1 ELSE IF x > y THEN 1 ELSE 0)
Rank(v) == CHOOSE i \in DOMAIN Collation : Collation[i] = v.s
\* -1, 0 or 1; undefined comes last.
compareOrder(a, b) ==
  CASE a = Undef \/ b = Undef -> Sign(IF a = Undef THEN 1 ELSE 0, IF b = Undef THEN 1 ELSE 0)
    [] a.k = "number" /\ b.k = "number" -> Sign(a.n, b.n)
    [] a.k = "string" /\ b.k = "string" -> Sign(Rank(a), Rank(b))
    [] {a.k, b.k} = {"number", "string"} -> Failure("T2007")
    [] OTHER -> Failure("T2008")

\* What TLC writes of an array or object stands for its JSON.
Stringify(v) ==
  CASE v.k = "number" -> ToString(v.n)
    [] v.k = "boolean" -> IF v.b THEN "true" ELSE "false"
    [] v.k = "null" -> "null"
    [] v.k = "string" -> v.s
    [] v.k = "undefined" -> ""
    [] OTHER -> ToString(v)
-----------------------------------------------------------------------------
(* Lists of values                                                         *)

\* The first failure of vs, or v.
Strict(vs, v) ==
  LET bad == {i \in DOMAIN vs : Failed(vs[i])}
  IN IF bad = {} THEN v ELSE vs[CHOOSE i \in bad : \A j \in bad : i <= j]
Defined(vs) == SelectSeq(vs, LAMBDA v : v # Undef)
Pick(items, Test(_)) ==
  LET kept == SelectSeq([i \in DOMAIN items |-> i], Test)
  IN [i \in DOMAIN kept |-> items[kept[i]]]
AllNumbers(c) == \A i \in DOMAIN c : c[i].k = "number"
\* A position from either end.
Index(i, length) == IF i < 0 THEN length + i ELSE i
\* As many of the arguments as a function of this arity takes.
UpTo(arity, args) == SubSeq(args, 1, IF arity < Len(args) THEN arity ELSE Len(args))
\* What differs in s, in the order it is first met.
Distinct(s) == LET First(i) == \A j \in 1 .. i - 1 : s[j] # s[i] IN Pick(s, First)

\* A stable sort by insertion; Order gives -1, 0, 1 or a failure.
Inserted(sorted, x, orders) ==
  LET before == {j \in DOMAIN sorted : orders[j] # Num(-1)}
      at == IF before = {} THEN 0 ELSE CHOOSE j \in before : \A i \in before : i <= j
  IN IF at > 0 /\ Failed(orders[at]) THEN orders[at] ELSE Arr(InsertAt(sorted, at + 1, x))
StableSort(items, Order(_, _)) ==
  FoldLeft(LAMBDA done, x : IF Failed(done) THEN done
             ELSE Inserted(done.c, x, [j \in DOMAIN done.c |-> Order(x, done.c[j])]),
           Arr(<<>>), items)

-----------------------------------------------------------------------------
(* Objects that are changed in place.  The objects of a copy are told      *)
(* apart by where they stood in it; a store holds the members of those     *)
(* that have changed, and every value is read through it, wherever the     *)
(* objects in it have gone since.                                          *)

RECURSIVE Identified(_, _), Current(_, _)
Identified(v, id) ==
  CASE IsList(v) -> [v EXCEPT !.c = [i \in DOMAIN @ |-> Identified(@[i], Append(id, i))]]
    [] v.k = "object" -> [k |-> "object", id |-> id,
                          m |-> [i \in DOMAIN v.m |-> <<v.m[i][1], Identified(v.m[i][2], Append(id, i))>>]]
    [] OTHER -> v
Unchanged == [k |-> "store", m |-> <<>>]
Written(store, object, m) == [store EXCEPT !.m = (object.id :> m) @@ @]
Current(v, store) ==
  LET m == IF "id" \in DOMAIN v /\ v.id \in DOMAIN store.m THEN store.m[v.id] ELSE v.m
  IN CASE IsList(v) -> [v EXCEPT !.c = [i \in DOMAIN @ |-> Current(@[i], store)]]
       [] v.k = "object" -> [v EXCEPT !.m = [i \in DOMAIN m |-> <<m[i][1], Current(m[i][2], store)>>]]
       [] OTHER -> v
transformMerge(object, update) == FoldLeft(LAMBDA m, new : SetMember(m, new[1], new[2]), object.m, update.m)
transformDelete(object, names) == SelectSeq(object.m, LAMBDA member : member[1] \notin names)

-----------------------------------------------------------------------------
(* What the builtins of both engines make of a value                       *)

\* arg is the second argument, a string, of contains.
StringTerm(fn, v, arg) ==
  CASE fn = "length" -> Num(<<"characters", v.s>>)
    [] fn = "contains" -> Bool(<<v.s, arg.s>>)
    [] OTHER -> [v EXCEPT !.s = <<fn, v.s>>]
RECURSIVE KeysOf(_)
KeysOf(v) == IF v.k = "object" THEN Keys(v)
             ELSE IF IsList(v) THEN FlattenSeq([i \in DOMAIN v.c |-> KeysOf(v.c[i])]) ELSE <<>>
\* Of numbers, one at least.
Aggregate(op, c) ==
  LET Of(x, y) == CASE op = "sum" -> x + y [] op = "max" -> IF y > x THEN y ELSE x [] op = "min" -> IF y < x THEN y ELSE x
  IN Num(FoldLeft(LAMBDA x, v : Of(x, v.n), c[1].n, Tail(c)))
DistinctItems(c) == LET New(i) == \A j \in 1 .. i - 1 : ~DeepEqual(c[i], c[j]) IN Pick(c, New)
\* One object of the members of all.
AllMembers(objects) ==
  Obj(FoldLeft(LAMBDA m, member : SetMember(m, member[1], member[2]), <<>>,
               FlattenSeq([i \in DOMAIN objects |-> objects[i].m])))
=============================================================================
