---------------------------- MODULE JSCollections ----------------------------
(***************************************************************************)
(* JavaScript's arrays, and the functions of the JavaScript library on     *)
(* arrays and objects that call no function of the program                 *)
(* (javascript/src/functions.js), on arguments that match their signatures.*)
(*                                                                         *)
(* An array has the marks the evaluator leaves on it: a sequence, one to   *)
(* keep even of a single item, one an array constructor made for a path, a *)
(* stream of tuples, or the wrapper around an input that is an array.      *)
(***************************************************************************)
EXTENDS JSSignature

Marked(c, is) == [k |-> "array", c |-> c, is |-> is]
createSequence(c) == Marked(c, {"sequence"})
Is(mark, v) == v.k = "array" /\ mark \in v.is

\* A field, through any depth of arrays.
RECURSIVE lookup(_, _), spread(_)
lookup(v, name) ==
  CASE v.k = "array" -> createSequence(Flattened([i \in DOMAIN v.c |-> lookup(v.c[i], name)]))
    [] v.k = "object" -> Member(v, name)
    [] OTHER -> Undef
append(x, y) == IF x = Undef THEN y ELSE IF y = Undef THEN x ELSE List(ListOf(x) \o ListOf(y))
spread(v) ==
  CASE IsList(v) -> FoldLeft(LAMBDA all, item : append(all, spread(item)), createSequence(<<>>), v.c)
    [] v.k = "object" -> createSequence([i \in DOMAIN v.m |-> Obj(<<v.m[i]>>)])
    [] OTHER -> v
distinct(v) ==
  IF ~IsList(v) \/ Len(v.c) <= 1 THEN v
  ELSE IF Is("sequence", v) THEN createSequence(DistinctItems(v.c)) ELSE List(DistinctItems(v.c))
\* Of arguments one of which is not an array nothing is made.
zip(args) ==
  LET shortest == Min({IF IsList(args[i]) THEN Len(args[i].c) ELSE 0 : i \in DOMAIN args})
  IN List([i \in 1 .. shortest |-> List([j \in DOMAIN args |-> args[j].c[i]])])
merge(v) == IF v = Undef THEN Undef ELSE AllMembers(v.c)
aggregate(op, v) ==
  IF v = Undef THEN Undef
  ELSE IF v.c = <<>> THEN (IF op = "sum" THEN Num(0) ELSE Undef) ELSE Aggregate(op, v.c)
assert(condition) == IF condition = Bool(TRUE) THEN Undef ELSE Failure("D3141")

CollectionFns == {"sum", "max", "min", "append", "distinct", "zip", "merge", "spread", "lookup", "boolean", "not", "assert", "error"}
Collection(name, args) ==
  LET v == args[1]
  IN CASE name = "append" -> append(v, args[2]) [] name = "distinct" -> distinct(v) [] name = "zip" -> zip(args)
       [] name = "merge" -> merge(v) [] name = "spread" -> spread(v) [] name = "lookup" -> IF args[2] = Undef THEN Undef ELSE lookup(v, args[2].s)
       [] name = "assert" -> assert(v) [] name = "error" -> Failure("D3137")
       [] name \in {"boolean", "not"} -> IF v = Undef THEN Undef ELSE Bool(ToBoolean(v) <=> name = "boolean")
       [] name \in {"sum", "max", "min"} -> aggregate(name, v)
=============================================================================
