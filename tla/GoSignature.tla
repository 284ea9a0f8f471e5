----------------------------- MODULE GoSignature -----------------------------
(***************************************************************************)
(* Signatures in the Go engine: what one says of each parameter            *)
(* (internal/parser/signature.go), and what a call makes of its arguments  *)
(* by it (internal/evaluator/signature.go).  A signature is the sequence   *)
(* of its symbols, without the < and > around it.                          *)
(***************************************************************************)
EXTENDS Values

CONSTANT Symbols  \* the symbols of each text of a signature

SigTypes == {"b", "n", "s", "l", "a", "o", "f", "j", "x", "u"}
Rest(s, from) == SubSeq(s, from, Len(s))
Depth(s, open, close) == Len(SelectSeq(s, LAMBDA x : x = open)) - Len(SelectSeq(s, LAMBDA x : x = close))
\* The place of the > that closes the < at the start, or past the end.
Closing(s) ==
  Min({i \in DOMAIN s : Depth(SubSeq(s, 1, i), "<", ">") = 0} \union {Len(s) + 1})

\* The type of the result is not looked at.
sigStripReturnType(s) ==
  LET At(i) == Depth(SubSeq(s, 1, i), "(", ")") = 0 /\ Depth(SubSeq(s, 1, i), "<", ">") = 0
      colons == {i \in DOMAIN s : s[i] = ":" /\ At(i)}
  IN IF colons = {} THEN s ELSE SubSeq(s, 1, Max(colons) - 1)

Typed(types, rest) == [k |-> "types", types |-> types, rest |-> rest]
parseSigUnion(s) ==
  LET end == Min({i \in DOMAIN s : s[i] = ")"} \union {Len(s) + 1})
      types == ToSet(SubSeq(s, 2, end - 1))
  IN IF end > Len(s) \/ types = {} \/ ~(types \subseteq SigTypes) THEN Failure("S0402")
     ELSE Typed(types, Rest(s, end + 1))
Types(s) ==
  CASE s[1] = "(" -> parseSigUnion(s)
    [] s[1] \in SigTypes -> Typed({s[1]}, Tail(s))
    [] OTHER -> Failure("S0402")
\* What an array holds is one type, perhaps with a type of its own in <>.
parseSigContentType(s, types) ==
  LET end == Closing(s)
      inside == SubSeq(s, 2, end - 1)
      typed == "a" \in types /\ inside # <<>> /\ inside[1] \in SigTypes
      one == Len(inside) = 1 \/ (inside[2] = "<" /\ Closing(Tail(inside)) = Len(inside) - 1)
  IN IF s = <<>> \/ s[1] # "<" THEN [k |-> "content", type |-> "", rest |-> s]
     ELSE IF ~(types \subseteq {"a", "f"}) THEN Failure("S0401")
     ELSE IF end > Len(s) \/ (typed /\ ~one) THEN Failure("S0402")
     ELSE [k |-> "content", type |-> IF typed THEN inside[1] ELSE "", rest |-> Rest(s, end + 1)]
ParamSpec(types, content, marks) ==
  [types |-> types, content |-> content, optional |-> "?" \in marks, variadic |-> "+" \in marks, context |-> "-" \in marks]
\* How many of its first symbols are ? + -.
Marked(s) == Min({i \in DOMAIN s : s[i] \notin {"?", "+", "-"}} \union {Len(s) + 1}) - 1
RECURSIVE Specs(_)
Specs(s) ==
  LET Spec(types, content) ==
        LET n == Marked(content.rest)
            spec == ParamSpec(types, content.type, ToSet(SubSeq(content.rest, 1, n)))
        IN Then(Specs(Rest(content.rest, n + 1)), LAMBDA more : Arr(<<spec>> \o more.c))
  IN IF s = <<>> THEN Arr(<<>>)
     ELSE Then(Types(s), LAMBDA t : Then(parseSigContentType(t.rest, t.types), LAMBDA c : Spec(t.types, c)))
ParseSig == [text \in DOMAIN Symbols |-> Specs(sigStripReturnType(Symbols[text]))]
\* What becomes of the signatures of a tree, in their order.
RECURSIVE ParsedSigs(_)
ParsedSigs(n) ==
  LET Of(nodes) == FlattenSeq([i \in DOMAIN nodes |-> ParsedSigs(nodes[i])])
  IN (IF n.type = "lambda" /\ n.value # "" THEN <<ParseSig[n.value]>> ELSE <<>>) \o Of(n.kids) \o Of(n.group)

-----------------------------------------------------------------------------
(* Arguments                                                               *)

\* The kinds of value of a type; undefined is null to a signature.
JSONKinds == {"number", "string", "boolean", "null", "undefined", "array", "sequence", "object"}
Kinds(type) ==
  CASE type = "n" -> {"number"}
    [] type = "s" -> {"string"}
    [] type = "b" -> {"boolean"}
    [] type = "l" -> {"null", "undefined"}
    [] type = "a" -> {"array", "sequence"}
    [] type = "o" -> {"object"}
    [] type = "f" -> {"function"}
    [] type = "u" -> {"boolean", "number", "string", "null"}
    [] type = "j" -> JSONKinds
    [] type = "x" -> JSONKinds \union {"function"}
sigArgMatchesTypes(arg, types) == \E type \in types : arg.k \in Kinds(type)
Fits(spec, arg) ==
  /\ sigArgMatchesTypes(arg, spec.types)
  /\ spec.content # "" /\ IsList(arg) => \A i \in DOMAIN arg.c : arg.c[i].k \in Kinds(spec.content)
Unfit(spec) == Failure(IF spec.content = "" THEN "T0410" ELSE "T0412")

\* From the spec and the argument at hand on.  A variadic one takes what fits,
\* but for as many as those after it must have.
RECURSIVE validateCallArgs(_, _, _, _)
validateCallArgs(specs, args, ai, focus) ==
  LET spec == specs[1]
      after == Len(SelectSeq(Tail(specs), LAMBDA other : ~other.optional /\ ~other.context))
      ends == {j \in ai .. Len(args) + 1 : j > Len(args) - after \/ ~Fits(spec, args[j])}
  IN IF specs = <<>> THEN (IF ai <= Len(args) THEN Failure("T0410") ELSE Arr(args))
     ELSE IF spec.variadic THEN validateCallArgs(Tail(specs), args, Min(ends), focus)
     ELSE IF ai > Len(args) /\ spec.context THEN validateCallArgs(Tail(specs), Append(args, focus), ai + 1, focus)
     ELSE IF ai > Len(args) THEN (IF spec.optional THEN validateCallArgs(Tail(specs), args, ai, focus) ELSE Failure("T0410"))
     ELSE IF Fits(spec, args[ai]) THEN validateCallArgs(Tail(specs), args, ai + 1, focus)
     ELSE IF spec.optional THEN validateCallArgs(Tail(specs), args, ai, focus) ELSE Unfit(spec)

\* A single value for an array.
Coerced(spec, arg) ==
  IF /\ "a" \in spec.types /\ arg # Undef /\ ~IsList(arg)
     /\ spec.content = "" \/ arg.k \in Kinds(spec.content)
  THEN Arr(<<arg>>) ELSE arg
\* The arguments of the call; undefined if the call is undefined, when one that
\* its parameter does not take is.
processCallArgs(specs, args, focus) ==
  LET single == {i \in DOMAIN specs \intersect DOMAIN args : \A j \in 1 .. i : ~specs[j].variadic}
      coerced == [i \in DOMAIN args |-> IF i \in single THEN Coerced(specs[i], args[i]) ELSE args[i]]
  IN IF \E i \in single : args[i] = Undef /\ ~sigArgMatchesTypes(Undef, specs[i].types) THEN Undef
     ELSE validateCallArgs(specs, coerced, 1, focus)
=============================================================================
