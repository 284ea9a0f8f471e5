--------------------------- MODULE MCNodeExecutor ---------------------------
(* Small instances of the worker pool for TLC.                             *)
EXTENDS NodeExecutor

Symmetry == Permutations(Tasks) \cup Permutations(SlotIds) \cup Permutations(Closers)

=============================================================================
