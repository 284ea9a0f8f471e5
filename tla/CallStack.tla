------------------------------ MODULE CallStack ------------------------------
(***************************************************************************)
(* The recursive evaluator of go/internal/engine/internal/evaluator: Eval  *)
(* walks the syntax tree on the Go stack, callFunction applies a function  *)
(* value and turns calls in tail position into iterations of a loop (the   *)
(* trampoline), higher-order builtins and $eval call back into both.       *)
(*                                                                         *)
(* The Go stack is an explicit sequence of frames.  Data is abstracted:    *)
(* which branch a condition takes, which function a callee denotes, how    *)
(* often a builtin applies its callback and whether an operator fails are  *)
(* choices.                                                                *)
(***************************************************************************)
EXTENDS Naturals, Sequences, FiniteSets

CONSTANTS
    Nodes, Root,
    Kind,        \* "leaf", "parent", "list", "block", "condition", "bind", "call", "chain"
    Kids,        \* operands in order; a call: callee, then arguments
    Pairs,       \* keys and values of the group attached to a node
    Callee,      \* the functions that the callee of a call may denote
    Lambdas, Body,        \* user functions and their bodies
    Builtins, Callbacks,  \* builtins and the functions they may apply
    Evals, Tree,          \* $eval, one for each expression it is given
    Undefined,   \* the undefined value, as a function
    MaxDepth,    \* callCounter.max
    MaxIter,     \* counter.max * 10000 in the code
    MaxEval,     \* maxEvalDepth
    MaxApply     \* bound: callbacks of one application of a builtin

Fns == Lambdas \cup Builtins \cup Evals \cup {Undefined}

ASSUME LimitAssumption == {MaxDepth, MaxIter, MaxEval, MaxApply} \subseteq Nat

ASSUME FunctionAssumption ==
    /\ Undefined \notin Lambdas \cup Builtins \cup Evals
    /\ Lambdas \cap Builtins = {} /\ Lambdas \cap Evals = {} /\ Builtins \cap Evals = {}
    /\ Body \in [Lambdas -> Nodes] /\ Tree \in [Evals -> Nodes]
    /\ Callbacks \in [Builtins -> SUBSET Fns]

ASSUME TreeAssumption ==
    /\ Root \in Nodes
    /\ Kids \in [Nodes -> Seq(Nodes)] /\ Pairs \in [Nodes -> Seq(Nodes)]
    /\ Callee \in [Nodes -> SUBSET Fns]
    /\ \A n \in Nodes : /\ Kind[n] = "bind" => Len(Kids[n]) = 1
                        /\ Kind[n] = "condition" => Len(Kids[n]) \in 2..3

VARIABLES
    stack,      \* activations of evalNode, evalGroupBy and callFunction
    result,     \* what the activation that ended last returned
    depth,      \* callCounter.depth
    evalDepth,  \* callCounter.evalDepth
    cancelled   \* the context has been cancelled

vars == <<stack, result, depth, evalDepth, cancelled>>

Frames == [is : {"node", "group", "call"}, at : Nodes, fn : Fns, step : Nat, busy : BOOLEAN]
Codes == {"error", "S0217", "T1005", "T1006", "D3121", "U1001", "cancelled", "U_VALUE_LIMIT"}

Running == [is |-> "running", code |-> "", fn |-> Undefined]
Value == [is |-> "value", code |-> "", fn |-> Undefined]
Error(code) == [is |-> "error", code |-> code, fn |-> Undefined]
TailCall(f) == [is |-> "tail", code |-> "", fn |-> f]
Results == {Running, Value} \cup {Error(c) : c \in Codes} \cup {TailCall(l) : l \in Lambdas}

Init ==
    /\ stack = <<>> /\ result = Value
    /\ depth = 0 /\ evalDepth = 0
    /\ cancelled = FALSE
-----------------------------------------------------------------------------
(* Tail positions: tailcall.go.                                            *)

\* Mutant: the else branch is not in tail position.
TailKids_ThenOnly(n) ==
    CASE Kind[n] = "condition" -> {Kids[n][2]}
      [] Kind[n] = "block" -> {Kids[n][i] : i \in {Len(Kids[n])} \ {0}}
      [] Kind[n] = "bind" -> {Kids[n][1]}
      [] OTHER -> {}

TailKids(n) ==
    CASE Kind[n] = "condition" -> {Kids[n][i] : i \in 2..Len(Kids[n])}
      [] Kind[n] = "block" -> {Kids[n][i] : i \in {Len(Kids[n])} \ {0}}
      [] Kind[n] = "bind" -> {Kids[n][1]}
      [] OTHER -> {}

Closed(S) ==
    /\ \A f \in Lambdas : Body[f] \in S
    /\ \A m \in S : TailKids(m) \subseteq S

\* The nodes that the walk from the bodies reaches: the least set that holds
\* the bodies and is closed.  The walk does not look at groups.
Marked == {n \in Nodes : \A S \in SUBSET Nodes : Closed(S) => n \in S}

\* Mutant: every call is marked.
Thunk_AnyCall(n) == Kind[n] = "call"

Thunk(n) == Kind[n] = "call" /\ n \in Marked

\* What the result of a tail call passes on its way to the end of the body:
\* the marked calls, and what has one of them in tail position.
Upward(S) == \A m \in Nodes : Thunk(m) \/ TailKids(m) \cap S # {} => m \in S
Carriers == {n \in Marked : \A S \in SUBSET Nodes : Upward(S) => n \in S}

\* The syntax is a tree: each of them stands in one place.
ASSUME PlaceAssumption ==
    \A n \in Carriers :
        /\ n # Root /\ \A e \in Evals : Tree[e] # n
        /\ \A m \in Nodes : \A i \in DOMAIN Pairs[m] : Pairs[m][i] # n
        /\ \A m, p \in Nodes : \A i \in DOMAIN Kids[m], j \in DOMAIN Kids[p] :
             Kids[m][i] = n /\ Kids[p][j] = n => m = p /\ i = j
        /\ \A l \in Lambdas, m \in Nodes : \A i \in DOMAIN Kids[m] : Body[l] = n => Kids[m][i] # n

\* No group is in the way of a tail call.
UngroupedTails == \A n \in Carriers : Pairs[n] = <<>>
-----------------------------------------------------------------------------
(* Frames.                                                                 *)
Top == stack[Len(stack)]
Below == SubSeq(stack, 1, Len(stack) - 1)

NodeFrame(n) == [is |-> "node", at |-> n, fn |-> Undefined, step |-> 0, busy |-> FALSE]
Visit(n) == IF Pairs[n] = <<>> THEN NodeFrame(n) ELSE [NodeFrame(n) EXCEPT !.is = "group"]
CallFrame(f, n) == [is |-> "call", at |-> n, fn |-> f, step |-> 0, busy |-> FALSE]

At(what) == stack # <<>> /\ Top.is = what /\ result = Running
Returned(what) == stack # <<>> /\ Top.is = what /\ result # Running

\* Eval looks at the context before it enters a node.
Enter(frame, below) ==
    IF cancelled THEN stack' = below /\ result' = Error("cancelled")
    ELSE stack' = Append(below, frame) /\ result' = Running

\* callFunction enters without a look of its own: its loop has it.
EnterCall(f, below) == stack' = Append(below, CallFrame(f, Top.at)) /\ result' = Running

Leave(r) == stack' = Below /\ result' = r

With(frame) == Append(Below, frame)
Stepped == [Top EXCEPT !.step = @ + 1]

\* The position of the callee among the operands of a call.
CalleeAt(n) == IF Kind[n] = "chain" THEN 2 ELSE 1

IsCallNode(n) == Kind[n] \in {"call", "chain"}
-----------------------------------------------------------------------------
(* One action per step of a frame.                                         *)

\* Mutant: evaluations share the counter of the builtin environment.
Start_SharedCounter ==
    /\ stack = <<>>
    /\ cancelled' = FALSE
    /\ stack' = <<Visit(Root)>> /\ result' = Running
    /\ UNCHANGED <<depth, evalDepth>>

\* evalCore: an evaluation has a counter and a context of its own.
Start ==
    /\ stack = <<>>
    /\ cancelled' = FALSE
    /\ stack' = <<Visit(Root)>> /\ result' = Running
    /\ depth' = 0 /\ evalDepth' = 0

\* The operands that a node frame may evaluate next.
Operands(fr) ==
    LET kids == Kids[fr.at] IN
    IF Kind[fr.at] = "condition"
    THEN IF fr.step = 0 THEN {1} ELSE IF fr.step = 1 THEN 2..Len(kids) ELSE {}
    ELSE {fr.step + 1} \cap (1..Len(kids))

\* A node evaluates its next operand.
Descend ==
    /\ At("node") /\ ~Top.busy
    /\ \E i \in Operands(Top) : Enter(Visit(Kids[Top.at][i]), With(Stepped))
    /\ UNCHANGED <<depth, evalDepth, cancelled>>

\* A group evaluates the node without its group, then its keys and values:
\* each at most once here, none without items, no value for an absent key.
DescendGroup ==
    /\ At("group")
    /\ IF Top.step = 0 THEN Enter(NodeFrame(Top.at), With(Stepped))
       ELSE \E i \in Top.step..Len(Pairs[Top.at]) :
              Enter(Visit(Pairs[Top.at][i]), With([Top EXCEPT !.step = i + 1]))
    /\ UNCHANGED <<depth, evalDepth, cancelled>>

\* A node with nothing left to evaluate, other than a call, has its value or
\* an error of its own.  A condition without an else branch may end early.
Finish ==
    /\ \/ /\ At("node") /\ ~IsCallNode(Top.at)
          /\ \/ Operands(Top) = {}
             \/ Kind[Top.at] = "condition" /\ Top.step = 1 /\ Len(Kids[Top.at]) = 2
       \/ At("group") /\ Top.step > 0
    /\ \/ Leave(Value)
       \/ Kind[Top.at] = "parent" /\ Leave(Error("S0217"))
       \/ (Top.is = "group" \/ Kind[Top.at] = "list") /\ Leave(Error("error"))
    /\ UNCHANGED <<depth, evalDepth, cancelled>>

\* The result of the operand just evaluated is the result of the node: the
\* last expression of a block, a branch, the right side of a binding, a call.
HandsOn(fr) ==
    /\ fr.is = "node"
    /\ \/ Kind[fr.at] = "block" /\ fr.step = Len(Kids[fr.at])
       \/ Kind[fr.at] = "condition" /\ fr.step = 2
       \/ Kind[fr.at] = "bind"
       \/ IsCallNode(fr.at) /\ fr.busy

\* A value or a sentinel reaches a node.
Receive ==
    /\ Returned("node") /\ result.is \in {"value", "tail"}
    /\ IF HandsOn(Top) THEN Leave(result)
       ELSE /\ result' = Running
            /\ IF IsCallNode(Top.at) /\ Top.step = CalleeAt(Top.at)
               THEN \E f \in Callee[Top.at] : stack' = With([Top EXCEPT !.fn = f])
               ELSE stack' = stack
    /\ UNCHANGED <<depth, evalDepth, cancelled>>

\* The callee is a name that is bound only as a variable.
NoDefinition ==
    /\ Returned("node") /\ result = Value
    /\ Kind[Top.at] = "call" /\ Top.step = 1 /\ ~Top.busy
    /\ Undefined \in Callee[Top.at]
    /\ Leave(Error("T1005"))
    /\ UNCHANGED <<depth, evalDepth, cancelled>>

\* It reaches a group, to which it is an item.
ReceiveGroup ==
    /\ Returned("group") /\ result.is \in {"value", "tail"}
    /\ result' = Running
    /\ UNCHANGED <<stack, depth, evalDepth, cancelled>>

\* An error ends the node, unless it is the parent operator used as a callee.
Propagate ==
    /\ Returned("node") \/ Returned("group")
    /\ result.is = "error"
    /\ IF /\ Top.is = "node" /\ Kind[Top.at] = "call"
          /\ Top.step = 1 /\ ~Top.busy /\ result.code = "S0217"
       THEN stack' = With([Top EXCEPT !.fn = Undefined]) /\ result' = Running
       ELSE Leave(result)
    /\ UNCHANGED <<depth, evalDepth, cancelled>>

\* Callee and arguments are there: a tail call of a lambda is left to the
\* trampoline, any other call is made here.
Invoke ==
    /\ At("node") /\ IsCallNode(Top.at)
    /\ Top.step = Len(Kids[Top.at]) /\ ~Top.busy
    /\ IF Thunk(Top.at) /\ Top.fn \in Lambdas
       THEN Leave(TailCall(Top.fn))
       ELSE EnterCall(Top.fn, With([Top EXCEPT !.busy = TRUE]))
    /\ UNCHANGED <<depth, evalDepth, cancelled>>

-----------------------------------------------------------------------------
(* callFunction: each turn of its loop looks at the context and applies fn. *)
Applying(fns) == At("call") /\ ~Top.busy /\ ~cancelled /\ Top.fn \in fns

CallRefused ==
    /\ At("call") /\ ~Top.busy
    /\ \/ Top.fn = Undefined /\ Leave(Error("T1006"))
       \/ cancelled /\ Top.fn # Undefined /\ Leave(Error("cancelled"))
    /\ UNCHANGED <<depth, evalDepth, cancelled>>

\* Mutant: the refused call gives back the level it did not take.
ApplyLambda_GivesBack ==
    /\ Applying(Lambdas)
    /\ IF depth + 1 > MaxDepth THEN Leave(Error("U1001")) /\ depth' = depth - 1
       ELSE /\ Enter(Visit(Body[Top.fn]), With([Top EXCEPT !.busy = TRUE]))
            /\ depth' = depth + 1
    /\ UNCHANGED <<evalDepth, cancelled>>

\* The body of a lambda, one level deeper.
ApplyLambda ==
    /\ Applying(Lambdas)
    /\ IF depth + 1 > MaxDepth THEN Leave(Error("U1001")) /\ UNCHANGED depth
       ELSE /\ Enter(Visit(Body[Top.fn]), With([Top EXCEPT !.busy = TRUE]))
            /\ depth' = depth + 1
    /\ UNCHANGED <<evalDepth, cancelled>>

\* Arguments that the signature or $eval rejects, a text that $eval cannot
\* parse, or arguments that make the result undefined.
ArgumentsEnd ==
    /\ Applying(Lambdas \cup Evals)
    /\ Leave(Error("error")) \/ Leave(Value)
    /\ UNCHANGED <<depth, evalDepth, cancelled>>

\* $eval parses its argument and evaluates the tree in the same context.
ApplyEval ==
    /\ Applying(Evals)
    /\ IF evalDepth + 1 > MaxEval THEN Leave(Error("D3121")) /\ UNCHANGED evalDepth
       ELSE /\ Enter(Visit(Tree[Top.fn]), With([Top EXCEPT !.busy = TRUE]))
            /\ evalDepth' = evalDepth + 1
    /\ UNCHANGED <<depth, cancelled>>

ApplyBuiltin ==
    /\ Applying(Builtins)
    /\ stack' = With([Top EXCEPT !.busy = TRUE, !.step = 0])
    /\ UNCHANGED <<result, depth, evalDepth, cancelled>>

\* A builtin applies a function it was given, once for each item.
Callback ==
    /\ At("call") /\ Top.busy /\ Top.fn \in Builtins /\ Top.step < MaxApply
    /\ \E f \in Callbacks[Top.fn] : EnterCall(f, With(Stepped))
    /\ UNCHANGED <<depth, evalDepth, cancelled>>

ReturnBuiltin ==
    /\ At("call") /\ Top.busy /\ Top.fn \in Builtins
    /\ Leave(Value) \/ Leave(Error("error"))
    /\ UNCHANGED <<depth, evalDepth, cancelled>>

\* The callback has returned to the builtin.
BackToBuiltin ==
    /\ Returned("call") /\ Top.fn \in Builtins
    /\ IF result.is = "error" THEN Leave(result)
       ELSE result' = Running /\ UNCHANGED stack
    /\ UNCHANGED <<depth, evalDepth, cancelled>>

\* Mutant: turns are not counted.
BackToLambda_Uncounted ==
    /\ Returned("call") /\ Top.fn \in Lambdas
    /\ depth' = depth - 1
    /\ IF result.is # "tail" THEN Leave(result)
       ELSE /\ stack' = With([Top EXCEPT !.fn = result.fn, !.busy = FALSE])
            /\ result' = Running
    /\ UNCHANGED <<evalDepth, cancelled>>

\* The body has returned: its level is given back, and a tail call is the
\* next turn of the loop.
BackToLambda ==
    /\ Returned("call") /\ Top.fn \in Lambdas
    /\ depth' = depth - 1
    /\ IF result.is # "tail" THEN Leave(result)
       ELSE IF Top.step + 1 > MaxIter THEN Leave(Error("U1001"))
       ELSE /\ stack' = With([Stepped EXCEPT !.fn = result.fn, !.busy = FALSE])
            /\ result' = Running
    /\ UNCHANGED <<evalDepth, cancelled>>

\* Mutant: $eval reports every error of the tree as its own.
BackToEval_HidesAll ==
    /\ Returned("call") /\ Top.fn \in Evals
    /\ Leave(IF result.is = "error" THEN Error("D3121") ELSE result)
    /\ evalDepth' = evalDepth - 1
    /\ UNCHANGED <<depth, cancelled>>

BackToEval ==
    /\ Returned("call") /\ Top.fn \in Evals
    /\ Leave(IF result \in {Error("T1005"), Error("T1006")} THEN Error("D3121") ELSE result)
    /\ evalDepth' = evalDepth - 1
    /\ UNCHANGED <<depth, cancelled>>
-----------------------------------------------------------------------------
\* The calls on a stack that are executing one of the given functions.
Executes(fr, fns) == fr.is = "call" /\ fr.busy /\ fr.fn \in fns
Executing(s, fns) == {i \in DOMAIN s : Executes(s[i], fns)}
Level(s, fns) == Cardinality(Executing(s, fns))

\* A value beyond the nesting budget: InternalizeValue panics, the deferred
\* calls run, and evalCore turns the panic into an error.
Panic ==
    /\ stack # <<>> /\ result = Value
    /\ stack' = <<>> /\ result' = Error("U_VALUE_LIMIT")
    /\ evalDepth' = evalDepth - Level(stack, Evals)
    /\ UNCHANGED <<depth, cancelled>>

Cancel ==
    /\ stack # <<>> /\ ~cancelled
    /\ cancelled' = TRUE
    /\ UNCHANGED <<stack, result, depth, evalDepth>>

Step ==
    \/ Descend \/ DescendGroup \/ Finish \/ Receive \/ NoDefinition
    \/ ReceiveGroup \/ Propagate \/ Invoke \/ CallRefused \/ ApplyLambda \/ ArgumentsEnd \/ ApplyEval
    \/ ApplyBuiltin \/ Callback \/ ReturnBuiltin
    \/ BackToBuiltin \/ BackToLambda \/ BackToEval

Next == Start \/ Step \/ Panic \/ Cancel

\* A goroutine that evaluates keeps running.
Spec == Init /\ [][Next]_vars /\ WF_vars(Step)
-----------------------------------------------------------------------------
TypeOK ==
    /\ stack \in Seq(Frames)
    /\ result \in Results
    /\ depth \in Nat /\ evalDepth \in Nat
    /\ cancelled \in BOOLEAN

\* While an evaluation runs, each counter is exactly the nesting it bounds:
\* no path out of a call, and no earlier evaluation, leaves it off by one.
CountersAreNesting ==
    stack # <<>> => depth = Level(stack, Lambdas) /\ evalDepth = Level(stack, Evals)

\* A function called as the last thing another does takes no stack: between
\* two bodies on the stack some node still has work to do.
TailCallsTakeNoStack ==
    \A i, j \in Executing(stack, Lambdas) :
        i < j => \E k \in i + 1..j - 1 : ~HandsOn(stack[k]) \/ Kind[stack[k].at] = "chain"

\* tailcall.go:3: the sentinel of a tail call is caught by the trampoline, and
\* is handed on by everything on its way there.
SentinelReachesTrampoline ==
    [][result.is = "tail" => result' = result \/ (stack # <<>> /\ Top.is = "call")]_vars

\* A cancellation on its way out is not turned into an error of the language.
CancellationSurfaces ==
    [][result = Error("cancelled") /\ stack # <<>> => result' = result]_vars

\* Every evaluation ends, endless recursion of either kind included.
EveryEvaluationEnds == stack # <<>> ~> stack = <<>>

=============================================================================
