-------------------------- MODULE MCStreamEvaluator --------------------------
(* Small instances of the streaming evaluator for TLC.                     *)
EXTENDS StreamEvaluator, FiniteSets, TLC

CONSTANTS
    a, b,
    MaxStarted   \* bound on the calls that begin, an uncached one counted twice

MCInitial == <<a, b>>
MCIndexLists == {<<1>>, <<2>>, <<1, 2>>}
MCIndexListsOne == {<<1>>}
MCInitialOne == <<a>>

Symmetry == Permutations(Mutators) \cup Permutations(Readers)

\* Calls that have begun, and those of them that stay away from the cache.
Started == {m \in Mutators : mpc[m] # "idle"} \cup {r \in Readers : rpc[r] # "idle"}
Uncached == {r \in Readers : req[r] # Nil /\ req[r].schema = ""}

\* With MaxStarted = 4, two mutators and two readers, or three readers and one
\* mutator: three plans stored in a ring of two wrap it and evict the oldest.
WithinBound == Cardinality(Started) + Cardinality(Uncached) <= MaxStarted

MCSpec == Init /\ [][Next /\ WithinBound']_vars

=============================================================================
