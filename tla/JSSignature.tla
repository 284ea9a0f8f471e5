----------------------------- MODULE JSSignature -----------------------------
(***************************************************************************)
(* Signatures in the JavaScript engine (javascript/src/signature.js): each *)
(* becomes a regular expression over the types of the arguments, which     *)
(* tells how many each parameter takes.  A parameter has one of - ? + at   *)
(* most.                                                                   *)
(***************************************************************************)
EXTENDS Values

CONSTANT Symbols  \* the symbols of each text of a signature

\* A plain JavaScript array.
List(c) == [k |-> "array", c |-> c, is |-> {}]
Anything == {"a", "s", "n", "b", "l", "f", "o", "m"}
Param(type, set) == [type |-> type, set |-> set, many |-> "", context |-> FALSE, typed |-> FALSE, subtype |-> <<>>]
Letter(x) ==
  CASE x \in {"s", "n", "b", "l", "o"} -> Param(x, {x, "m"})
    [] x \in {"a", "x"} -> Param(x, Anything)
    [] x = "f" -> Param(x, {"f"})
    [] x = "j" -> Param(x, Anything \ {"f"})
Starts(x) == x \in {"s", "n", "b", "l", "o", "a", "x", "f", "j"}
\* The place of the bracket that closes the first, or past the end.
findClosingBracket(s, open, close) ==
  LET Depth(i) == Len(SelectSeq(SubSeq(s, 1, i), LAMBDA x : x = open)) - Len(SelectSeq(SubSeq(s, 1, i), LAMBDA x : x = close))
  IN Min({i \in DOMAIN s : Depth(i) = 0} \union {Len(s) + 1})
\* The parameters that the symbols add.  Unknown symbols are skipped, and what
\* follows : is not looked at.
RECURSIVE Params(_, _)
Params(s, params) ==
  LET end == findClosingBracket(s, s[1], IF s[1] = "(" THEN ")" ELSE ">")
      inside == SubSeq(s, 2, end - 1)
      prev == Last(params)
      Next(rest, change) == Params(rest, Append(Front(params), change))
      after == SubSeq(s, end + 1, Len(s))
  IN IF s = <<>> \/ s[1] = ":" THEN List(params)
     ELSE IF Starts(s[1]) THEN Params(Tail(s), Append(params, Letter(s[1])))
     ELSE IF s[1] = "(" /\ "<" \in ToSet(inside) THEN Failure("S0402")
     ELSE IF s[1] = "(" THEN Params(after, Append(params, Param("(", ToSet(inside) \union {"m"})))
     ELSE IF s[1] = "<" /\ prev.type \notin {"a", "f"} THEN Failure("S0401")
     ELSE IF s[1] = "<" THEN Next(after, [prev EXCEPT !.typed = TRUE, !.subtype = inside])
     ELSE IF s[1] = "-" THEN Next(Tail(s), [prev EXCEPT !.context = TRUE, !.many = "?"])
     ELSE IF s[1] \in {"?", "+"} THEN Next(Tail(s), [prev EXCEPT !.many = s[1]])
     ELSE Params(Tail(s), params)
parseSignature == [text \in DOMAIN Symbols |-> Params(Symbols[text], <<>>)]
\* What becomes of the signatures of a tree, in their order.
RECURSIVE ParsedSignatures(_)
ParsedSignatures(n) ==
  LET Of(nodes) == FlattenSeq([i \in DOMAIN nodes |-> ParsedSignatures(nodes[i])])
  IN (IF n.type = "lambda" /\ n.value # "" THEN <<parseSignature[n.value]>> ELSE <<>>) \o Of(n.kids) \o Of(n.group)

-----------------------------------------------------------------------------
(* Validation                                                              *)

getSymbol(v) ==
  CASE v.k = "function" -> "f"
    [] v.k = "string" -> "s"
    [] v.k = "number" -> "n"
    [] v.k = "boolean" -> "b"
    [] v.k = "null" -> "l"
    [] v.k = "array" -> "a"
    [] v.k = "object" -> "o"
    [] v.k = "undefined" -> "m"
\* How many arguments each parameter matches: the first as many as it can for
\* the others to match.
RECURSIVE regexExec(_, _)
regexExec(params, supplied) ==
  LET p == params[1]
      Others(n) == regexExec(Tail(params), SubSeq(supplied, n + 1, Len(supplied)))
      Many(n) == CASE p.many = "" -> n = 1 [] p.many = "?" -> n <= 1 [] p.many = "+" -> n >= 1
      Whole(n) == Many(n) /\ (\A i \in 1 .. n : supplied[i] \in p.set) /\ ~Failed(Others(n))
      counts == {n \in 0 .. Len(supplied) : Whole(n)}
  IN IF params = <<>> THEN (IF supplied = <<>> THEN List(<<>>) ELSE Failure("T0410"))
     ELSE IF counts = {} THEN Failure("T0410") ELSE List(<<Max(counts)>> \o Others(Max(counts)).c)

\* An argument of an array parameter, one of group.
ArrayArg(p, group, arg) ==
  LET itemType == getSymbol(arg.c[1])
      Contents == arg.c = <<>> \/ (<<itemType>> = SubSeq(p.subtype, 1, 1) /\ \A i \in DOMAIN arg.c : getSymbol(arg.c[i]) = itemType)
      ok == p.typed => IF IsList(arg) THEN Contents ELSE group = p.subtype
  IN IF arg = Undef THEN Undef
     ELSE IF ~ok THEN Failure("T0412")
     ELSE IF IsList(arg) THEN arg ELSE List(<<arg>>)
\* What a parameter that matched none is given: the context, or the next
\* argument.
Unmatched(p, args, at, context) ==
  IF ~p.context THEN (IF at <= Len(args) THEN args[at] ELSE Undef)
  ELSE IF getSymbol(context) \in p.set THEN context ELSE Failure("T0411")
validate(params, args, context) ==
  LET supplied == [i \in DOMAIN args |-> getSymbol(args[i])]
      counts == regexExec(params, supplied)
      Given(s, i) ==
        LET p == params[i]
            n == counts.c[i]
            group == SubSeq(supplied, s.at, s.at + n - 1)
            taken == [j \in 1 .. n |-> IF p.type = "a" THEN ArrayArg(p, group, args[s.at + j - 1]) ELSE args[s.at + j - 1]]
        IN IF n = 0 THEN [at |-> s.at + (IF p.context THEN 0 ELSE 1), args |-> Append(s.args, Unmatched(p, args, s.at, context))]
           ELSE [at |-> s.at + n, args |-> s.args \o taken]
      given == FoldLeft(Given, [at |-> 1, args |-> <<>>], [i \in DOMAIN params |-> i]).args
  IN IF Failed(counts) THEN counts ELSE Strict(given, List(given))
=============================================================================
