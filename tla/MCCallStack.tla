---------------------------- MODULE MCCallStack ----------------------------
(* The program                                                             *)
(*   $f := function($x){ $x ? $g($x) : 0 }     (or $map in place of $g)    *)
(*   $g := function($x){ ($x ~> $f; %($x)) }   (or $f in place of %)       *)
(*   [$f(1)]                                   (or $map, or $eval)         *)
(* in which $map applies $f and the text given to $eval makes a call.      *)
EXTENDS CallStack

CONSTANTS f, g, map, eval, undefined

ProgramNodes == {"top", "main", "if", "toG", "block", "pipe", "bind", "toF", "tree", "parent", "leaf"}
ProgramKind ==
    [n \in ProgramNodes |->
       CASE n = "top" -> "list"
         [] n \in {"main", "toG", "toF", "tree"} -> "call"
         [] n = "if" -> "condition"
         [] n = "pipe" -> "chain"
         [] n \in {"block", "bind", "parent", "leaf"} -> n]
ProgramKids ==
    [n \in ProgramNodes |->
       CASE n = "top" -> <<"main">>
         [] n \in {"main", "tree", "toG"} -> <<"leaf">>
         [] n = "toF" -> <<"parent">>
         [] n = "if" -> <<"leaf", "leaf", "toG">>
         [] n = "block" -> <<"pipe", "bind">>
         [] n = "bind" -> <<"toF">>
         [] n = "pipe" -> <<"leaf", "leaf">>
         [] OTHER -> <<>>]
\* $f(1){ key : value } in place of $f(1), outside any function ...
GroupedMain == [n \in ProgramNodes |-> IF n = "main" THEN <<"leaf", "leaf">> ELSE <<>>]
\* ... and $g($x){ key : value } in place of $g($x), in tail position.
GroupedTailCall == [n \in ProgramNodes |-> IF n = "toG" THEN <<"leaf">> ELSE <<>>]

ASSUME GroupAssumption == UngroupedTails <=> Pairs # GroupedTailCall

ProgramCallee ==
    [n \in ProgramNodes |->
       CASE n = "main" -> {f, map, eval}
         [] n = "toG" -> {g, map, eval}
         [] n \in {"pipe", "toF"} -> {f}
         [] n = "tree" -> {f, eval, undefined}
         [] OTHER -> {}]
ProgramLambdas == {f, g}
ProgramBody == [l \in {f, g} |-> IF l = f THEN "if" ELSE "block"]
ProgramBuiltins == {map}
ProgramCallbacks == [b \in {map} |-> {f}]
ProgramEvals == {eval}
ProgramTree == [e \in {eval} |-> "tree"]
=============================================================================
