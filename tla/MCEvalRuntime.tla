---------------------------- MODULE MCEvalRuntime ----------------------------
(* Small syntax trees for TLC.                                             *)
EXTENDS EvalRuntime

\* ($eval("[a, 1]"); [f(g(x)), b, 2]): a sequence of two parallel nodes, one
\* of them inside $eval, the other with an operand nested beyond the limit 4.
TreeNodes == 0..10
TreeParent == [n \in 1..10 |-> <<0, 1, 2, 2, 0, 5, 5, 5, 6, 9>>[n]]
TreePosition == [n \in 1..10 |-> <<1, 1, 1, 2, 2, 1, 2, 3, 1, 1>>[n]]
TreeKind == [n \in 0..10 |->
    <<"sequential", "eval", "parallel", "sequential", "literal", "parallel",
      "sequential", "sequential", "literal", "sequential", "sequential">>[n + 1]]

\* [a, b, c]: a flat array of three paths.
FlatNodes == 0..3
FlatParent == [n \in 1..3 |-> 0]
FlatPosition == [n \in 1..3 |-> n]
FlatKind == [n \in 0..3 |-> IF n = 0 THEN "parallel" ELSE "sequential"]

=============================================================================
