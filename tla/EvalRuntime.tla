----------------------------- MODULE EvalRuntime -----------------------------
(***************************************************************************)
(* One cooperative evaluation of javascript/src/jsonata.js: evaluate()     *)
(* walks the syntax tree asynchronously.  Most nodes await their operands  *)
(* one after the other; array constructors and groups start all of theirs  *)
(* and await them together (Promise.all); $eval awaits a tree of its own.  *)
(* All activations share one depth counter, one deadline and one signal.   *)
(*                                                                         *)
(* A step is what runs between two awaits; microtasks run in any order.    *)
(***************************************************************************)
EXTENDS Naturals, FiniteSets

CONSTANTS
    Nodes, Root,
    Parent,      \* Parent[n] for every node but Root
    Position,    \* Position[n]: place among the operands of its parent
    Kind,        \* "literal", "sequential", "parallel" or "eval"
    Stack        \* option "stack"

ASSUME StackAssumption == Stack \in Nat \ {0}

\* Nesting of a node in the tree, 1 for the root.
Level[n \in Nodes] == IF n = Root THEN 1 ELSE Level[Parent[n]] + 1

\* The syntax is a tree: every node has a level.
ASSUME TreeAssumption ==
    /\ IsFiniteSet(Nodes) /\ Root \in Nodes
    /\ \A n \in Nodes \ {Root} : Parent[n] \in Nodes
    /\ \A n \in Nodes : /\ Level[n] \in Nat
                        /\ Level[n] = IF n = Root THEN 1 ELSE Level[Parent[n]] + 1
    /\ \A n \in Nodes \ {Root} : Position[n] \in Nat

VARIABLES
    status,    \* activation of each node
    thrown,    \* code of the error that ended it
    rejection, \* code of the first operand that rejected
    depth,     \* environment.base.depth
    aborted,   \* signal.aborted
    late,      \* the deadline has passed
    outcome    \* what the caller's promise settled with

vars == <<status, thrown, rejection, depth, aborted, late, outcome>>

Codes == {"abort", "D1011", "D1012", "D3121", "error"}

Init ==
    /\ status = [n \in Nodes |-> "new"]
    /\ thrown = [n \in Nodes |-> "none"]
    /\ rejection = [n \in Nodes |-> "none"]
    /\ depth = 0
    /\ aborted = FALSE /\ late = FALSE
    /\ outcome = "pending"

Operands(n) == {m \in Nodes \ {Root} : Parent[m] = n}

Is(n, what) == status' = [status EXCEPT ![n] = what]

Throw(n, code) ==
    /\ Is(n, "threw")
    /\ thrown' = [thrown EXCEPT ![n] = code]
    /\ rejection' = IF n # Root /\ rejection[Parent[n]] = "none"
                    THEN [rejection EXCEPT ![Parent[n]] = code]
                    ELSE rejection

MayEnter(n) ==
    /\ status[n] = "new"
    /\ n # Root =>
         /\ status[Parent[n]] = "active"
         /\ Kind[Parent[n]] # "parallel" =>
              \A m \in Operands(Parent[n]) :
                  Position[m] < Position[n] => status[m] = "done"

\* Mutants: the limit is off by one; a literal keeps its count.
Begin_OffByOne(n) ==
    IF depth > Stack THEN Throw(n, "D1011") /\ depth' = depth + 1
    ELSE IF late THEN Throw(n, "D1012") /\ depth' = depth + 1
    ELSE /\ UNCHANGED <<thrown, rejection>>
         /\ IF Kind[n] = "literal"
            THEN Is(n, "done") /\ UNCHANGED depth
            ELSE Is(n, "active") /\ depth' = depth + 1
Begin_LeakyLiteral(n) ==
    IF depth + 1 > Stack THEN Throw(n, "D1011") /\ depth' = depth + 1
    ELSE IF late THEN Throw(n, "D1012") /\ depth' = depth + 1
    ELSE /\ UNCHANGED <<thrown, rejection>>
         /\ Is(n, IF Kind[n] = "literal" THEN "done" ELSE "active")
         /\ depth' = depth + 1

\* Count the activation, check the guardrails; a literal returns at once.
Begin(n) ==
    IF depth + 1 > Stack THEN Throw(n, "D1011") /\ depth' = depth + 1
    ELSE IF late THEN Throw(n, "D1012") /\ depth' = depth + 1
    ELSE /\ UNCHANGED <<thrown, rejection>>
         /\ IF Kind[n] = "literal"
            THEN Is(n, "done") /\ UNCHANGED depth
            ELSE Is(n, "active") /\ depth' = depth + 1

\* Mutant: an entry refused by the signal gives back what it never counted.
Enter_AbortDecrements(n) ==
    /\ MayEnter(n)
    /\ IF aborted THEN Throw(n, "abort") /\ depth' = depth - 1 ELSE Begin(n)
    /\ UNCHANGED <<aborted, late, outcome>>

Enter(n) ==
    /\ MayEnter(n)
    /\ IF aborted THEN Throw(n, "abort") /\ UNCHANGED depth ELSE Begin(n)
    /\ UNCHANGED <<aborted, late, outcome>>

\* The entry that lets timers and abort events run before it goes on.
Yield(n) ==
    /\ MayEnter(n) /\ ~aborted
    /\ Is(n, "yielding")
    /\ UNCHANGED <<thrown, rejection, depth, aborted, late, outcome>>

\* Mutants: the signal is not looked at again after the wait; a wait that the
\* signal interrupts is never resumed.
Resume_Unchecked(n) ==
    /\ status[n] = "yielding"
    /\ Begin(n)
    /\ UNCHANGED <<aborted, late, outcome>>
Resume_NotIfAborted(n) ==
    /\ status[n] = "yielding" /\ ~aborted
    /\ Begin(n)
    /\ UNCHANGED <<aborted, late, outcome>>

Resume(n) ==
    /\ status[n] = "yielding"
    /\ IF aborted THEN Throw(n, "abort") /\ UNCHANGED depth ELSE Begin(n)
    /\ UNCHANGED <<aborted, late, outcome>>

\* A node whose operands do not all have to be evaluated may return early.
MayReturn(n) ==
    /\ status[n] = "active"
    /\ \A m \in Operands(n) :
         status[m] \in {"done"} \cup (IF Kind[n] = "sequential" THEN {"new"} ELSE {})

Return(n) ==
    /\ MayReturn(n)
    /\ Is(n, "done")
    /\ depth' = depth - 1
    /\ UNCHANGED <<thrown, rejection, aborted, late, outcome>>

\* A language error of the node itself.
Fail(n) ==
    /\ status[n] = "active" /\ rejection[n] = "none"
    /\ \A m \in Operands(n) : status[m] \in {"new", "done"}
    /\ Throw(n, "error")
    /\ UNCHANGED <<depth, aborted, late, outcome>>

\* Mutant: every error of the inner evaluation is an error of $eval.
Reclassify_Always(n) == IF Kind[n] = "eval" THEN "D3121" ELSE rejection[n]

\* $eval hides the error of its tree behind its own, but never an abort.
Reclassify(n) ==
    IF Kind[n] # "eval" THEN rejection[n]
    ELSE IF aborted THEN "abort" ELSE "D3121"

\* The first rejection ends the node; the other operands of a parallel node
\* have all been started and go on.
MayReject(n) ==
    /\ status[n] = "active" /\ rejection[n] # "none"
    /\ Kind[n] = "parallel" => \A m \in Operands(n) : status[m] # "new"

Reject(n) ==
    /\ MayReject(n)
    /\ Throw(n, Reclassify(n))
    /\ UNCHANGED <<depth, aborted, late, outcome>>

MayDeliver == outcome = "pending" /\ status[Root] \in {"done", "threw"}

\* Mutant: the signal is not looked at before delivery.
Deliver_Unchecked ==
    /\ MayDeliver
    /\ outcome' = IF status[Root] = "threw" THEN thrown[Root] ELSE "value"
    /\ UNCHANGED <<status, thrown, rejection, depth, aborted, late>>

Deliver ==
    /\ MayDeliver
    /\ outcome' = IF status[Root] = "threw" THEN thrown[Root]
                  ELSE IF aborted THEN "abort" ELSE "value"
    /\ UNCHANGED <<status, thrown, rejection, depth, aborted, late>>

Abort ==
    /\ ~aborted /\ aborted' = TRUE
    /\ UNCHANGED <<status, thrown, rejection, depth, late, outcome>>

DeadlinePasses ==
    /\ ~late /\ late' = TRUE
    /\ UNCHANGED <<status, thrown, rejection, depth, aborted, outcome>>

Step ==
    \/ \E n \in Nodes : Enter(n) \/ Yield(n) \/ Resume(n) \/ Return(n) \/ Fail(n) \/ Reject(n)
    \/ Deliver

Next == Step \/ Abort \/ DeadlinePasses

\* Runnable microtasks and timers of the evaluation are run.
Spec == Init /\ [][Next]_vars /\ WF_vars(Step)
-----------------------------------------------------------------------------
\* The guardrail bounds the nesting of live activations, and no way out gives
\* back more than was taken, which would let later ones in.
NestingBounded ==
    /\ depth >= 0
    /\ \A n \in Nodes : status[n] = "active" => Level[n] <= Stack

\* The shared counter comes back to zero when the evaluation succeeds,
\* whatever was entered in parallel or skipped: the budget is not eaten up.
BalancedOnSuccess == outcome = "value" => depth = 0

\* Work does not go on past an abort: no activation begins, not even one that
\* was waiting for the event loop when the signal fired, and the value of one
\* that had ended is not delivered.
AbortEndsWork ==
    [][aborted =>
         /\ \A n \in Nodes : status'[n] = "active" => status[n] = "active"
         /\ outcome' = "value" => outcome = "value"]_vars

\* $eval never turns an abort into an expression error.
AbortKeepsItsCode ==
    \A n \in Nodes : thrown[n] = "D3121" => rejection[n] # "abort"

\* The caller's promise settles and every activation ends, those left behind
\* by the rejection of a parallel sibling included.
Settled == outcome # "pending" /\ \A n \in Nodes : status[n] \notin {"active", "yielding"}
Settles == <>[]Settled

\* guardrails.md:19, jsonata.js:2027: D1011 is a stack that has grown beyond
\* the limit, that is, an activation nested more deeply than the limit.
StackErrorMeansNesting ==
    outcome = "D1011" => \E n \in Nodes : thrown[n] = "D1011" /\ Level[n] > Stack

=============================================================================
