---------------------------- MODULE GoCollections ----------------------------
(***************************************************************************)
(* The functions of the Go library on arrays and objects that call no      *)
(* function of the program (functions/array_funcs.go, object_funcs.go,     *)
(* numeric_funcs.go, boolean_funcs.go, hof_funcs.go), on their arguments   *)
(* and the context of the call.                                            *)
(***************************************************************************)
EXTENDS Values

fnAppend(args) ==
  IF Len(args) < 2 THEN Failure("D3006")
  ELSE IF args[1] = Undef THEN args[2]
  ELSE IF args[2] = Undef THEN args[1] ELSE Arr(ListOf(args[1]) \o ListOf(args[2]))
\* A sequence stays one; of one item or none nothing is made.
fnDistinct(v) == IF ~IsList(v) \/ Len(v.c) <= 1 THEN v ELSE [v EXCEPT !.c = DistinctItems(@)]
fnZip(args) ==
  LET shortest == IF args = <<>> THEN 0 ELSE Min({Len(ListOf(args[i])) : i \in DOMAIN args})
  IN Arr([i \in 1 .. shortest |-> Arr([j \in DOMAIN args |-> ListOf(args[j])[i]])])
fnMerge(v) ==
  IF IsList(v) THEN (IF \E i \in DOMAIN v.c : v.c[i].k # "object" THEN Failure("T0412") ELSE AllMembers(v.c))
  ELSE IF v.k \in {"undefined", "object"} THEN v ELSE Failure("T0410")
RECURSIVE fnSpread(_), lookupValue(_, _)
fnSpread(v) ==
  CASE v.k = "object" -> Sequence([i \in DOMAIN v.m |-> Obj(<<v.m[i]>>)])
    [] IsList(v) -> Arr(Flattened([i \in DOMAIN v.c |-> fnSpread(v.c[i])]))
    [] OTHER -> v
lookupValue(v, key) ==
  CASE v.k = "object" -> Member(v, key)
    [] IsList(v) -> Sequence(Flattened([i \in DOMAIN v.c |-> lookupValue(v.c[i], key)]))
    [] OTHER -> Undef
fnLookup(args) ==
  IF Len(args) < 2 THEN Failure("D3006")
  ELSE IF args[1] = Undef \/ args[2] = Undef THEN Undef
  ELSE IF args[2].k # "string" THEN Failure("T0410") ELSE lookupValue(args[1], args[2].s)
aggregateNumbers(op, v) ==
  IF v = Undef THEN Undef
  ELSE IF ~IsList(v) /\ v.k # "number" THEN Failure("T0410")
  ELSE IF ListOf(v) = <<>> THEN (IF op = "sum" THEN Num(0) ELSE Undef)
  ELSE IF ~AllNumbers(ListOf(v)) THEN Failure("T0412") ELSE Aggregate(op, ListOf(v))
Truth(op, args) ==
  IF args = <<>> THEN Failure("D3006")
  ELSE IF op = "boolean" /\ Len(args) > 1 THEN Failure("T0410")
  ELSE IF args[1] = Undef THEN Undef ELSE Bool(ToBoolean(args[1]) <=> op = "boolean")
fnAssert(args) ==
  IF args = <<>> \/ Len(args) > 2 \/ args[1].k # "boolean" THEN Failure("T0410")
  ELSE IF args[1].b THEN Undef ELSE Failure("D3141")
fnError(args) ==
  IF Len(args) > 1 \/ (Len(args) = 1 /\ args[1].k \notin {"string", "undefined"}) THEN Failure("T0410") ELSE Failure("D3137")

Aggregates == {"sum", "max", "min"}
CollectionFns == Aggregates \union {"append", "distinct", "zip", "merge", "spread", "lookup", "boolean", "not", "assert", "error"}
Collection(name, args, focus) ==
  LET v == IF args = <<>> THEN Undef ELSE args[1]
  IN CASE name = "append" -> fnAppend(args) [] name = "distinct" -> fnDistinct(v) [] name = "zip" -> fnZip(args)
       [] name = "merge" -> fnMerge(v) [] name = "spread" -> fnSpread(v) [] name = "lookup" -> fnLookup(args)
       [] name = "assert" -> fnAssert(args) [] name = "error" -> fnError(args)
       [] name \in {"boolean", "not"} -> Truth(name, args)
       [] name \in Aggregates -> IF Len(args) > 1 THEN Failure("T0410") ELSE aggregateNumbers(name, IF args = <<>> THEN focus ELSE v)
=============================================================================
