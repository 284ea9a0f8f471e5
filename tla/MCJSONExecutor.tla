--------------------------- MODULE MCJSONExecutor ---------------------------
(* A small instance of the Go executor for TLC: its calls up to the        *)
(* evaluation of a compiled expression (JSONExecutor), or one such         *)
(* evaluation (FastPath), which the calls neither see nor disturb.         *)
EXTENDS JSONExecutor, TLC, MCFastPath

Symmetry == Permutations(Calls) \cup Permutations(Texts \ BadTexts)

ExecutorInit ==
  \/ /\ Init
     /\ expr = "none" /\ input = "none" /\ bound = {} /\ cancelled = FALSE
     /\ stage = "none" /\ route = "none" /\ answer = Pending
  \/ Init /\ SelectionInit
CallStep == stage = "none" /\ Next /\ UNCHANGED selectionVars
SelectionStep == SelectionNext /\ UNCHANGED vars
ExecutorSpec == ExecutorInit /\ [][CallStep \/ SelectionStep]_<<vars, selectionVars>>
=============================================================================
