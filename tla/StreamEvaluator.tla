--------------------------- MODULE StreamEvaluator ---------------------------
(***************************************************************************)
(* The streaming evaluator of go/internal/engine/stream.go: goroutines     *)
(* call Add, Replace, Remove and Reset under a mutex, while others call    *)
(* EvalMany, which takes no lock: it loads the published expressions, then *)
(* looks up, or builds and stores, a plan in the BoundedCache.             *)
(*                                                                         *)
(* A value is known by the expression that computed it.  Indices count     *)
(* from 1.  Each goroutine makes one call.                                 *)
(***************************************************************************)
EXTENDS BoundedCache

CONSTANTS
    Exprs,       \* compiled expressions
    FastExprs,   \* those with a path, comparison or function fast path
    Nil,         \* a removed expression, an absent plan, an undefined value
    Initial,     \* expressions given to NewStreamEvaluator
    Mutators, Readers,
    Operations,  \* which of "add", "replace", "remove", "reset" are called
    Schemas,     \* schema keys; "" disables caching
    IndexLists,  \* arguments exprIndices
    Indices      \* arguments of Replace and Remove

VARIABLES
    exprs,                             \* the published slice
    mu,                                \* holder of se.mu, or Nil
    mpc, op, old,                      \* a mutator's progress, call and loaded slice
    rpc, req, view, plan, results,     \* a reader's progress, call and locals
    calm, held, overlapped             \* history, read by properties only

evalVars == <<rpc, req, view, plan, results>>
mutVars == <<mpc, op, old>>
history == <<calm, held, overlapped>>
vars == <<exprs, mu, cacheVars, mutVars, evalVars, history>>

InRange(list, idx) == idx \in 1..Len(list)

\* Mutant: plans for different index lists share a key.
PlanCacheKey_SchemaOnly(schema, indices) == [schema |-> schema, indices |-> Len(indices)]

PlanCacheKey(schema, indices) == [schema |-> schema, indices |-> indices]

\* Keys and Plans of the cache.
CacheKeys == {PlanCacheKey(s, l) : s \in Schemas, l \in IndexLists}

Plan == UNION {[1..n -> FastExprs \cup {Nil}] : n \in {0} \cup {Len(l) : l \in IndexLists}}

ASSUME StreamAssumption ==
    /\ FastExprs \subseteq Exprs /\ Nil \notin Exprs /\ Nil \notin Mutators
    /\ Initial \in Seq(Exprs \cup {Nil})
    /\ \A l \in IndexLists : l \in Seq(Int)
    /\ Keys = CacheKeys /\ Plans = Plan

\* buildPlan: the fast path, if any, of each expression asked for.
BuildPlan(list, indices) ==
    [i \in 1..Len(indices) |->
        IF InRange(list, indices[i]) /\ list[indices[i]] \in FastExprs
        THEN list[indices[i]] ELSE Nil]

Init ==
    /\ exprs = Initial /\ mu = Nil
    /\ CacheInit
    /\ mpc = [m \in Mutators |-> "idle"]
    /\ op = [m \in Mutators |-> Nil]
    /\ old = [m \in Mutators |-> <<>>]
    /\ rpc = [r \in Readers |-> "idle"]
    /\ req = [r \in Readers |-> Nil]
    /\ view = [r \in Readers |-> <<>>]
    /\ plan = [r \in Readers |-> <<>>]
    /\ results = [r \in Readers |-> <<>>]
    /\ calm = [r \in Readers |-> FALSE]
    /\ held = {<<i, Initial[i]>> : i \in 1..Len(Initial)}
    /\ overlapped = FALSE
-----------------------------------------------------------------------------
(* Add, Replace, Remove, Reset: lock and load, store, invalidate and unlock *)

Calls == [kind : Operations \cap {"add"}, expr : Exprs]
    \cup [kind : Operations \cap {"replace"}, idx : Indices, expr : Exprs]
    \cup [kind : Operations \cap {"remove"}, idx : Indices]
    \cup [kind : Operations \cap {"reset"}]

Legal(call, list) ==
    call.kind \in {"replace", "remove"} => InRange(list, call.idx)

Apply(call, list) ==
    CASE call.kind = "add"     -> Append(list, call.expr)
      [] call.kind = "replace" -> [list EXCEPT ![call.idx] = call.expr]
      [] call.kind = "remove"  -> [list EXCEPT ![call.idx] = Nil]
      [] call.kind = "reset"   -> <<>>

\* Mutant: the mutex is not taken.
Lock_Unlocked(m) == UNCHANGED mu

Lock(m) == mu = Nil /\ mu' = m

Begin(m) ==
    /\ mpc[m] = "idle"
    /\ Lock(m)
    /\ \E call \in Calls :
         /\ op' = [op EXCEPT ![m] = call]
         /\ mpc' = [mpc EXCEPT ![m] = IF Legal(call, exprs) THEN "locked" ELSE "refused"]
    /\ old' = [old EXCEPT ![m] = exprs]
    /\ calm' = [r \in Readers |-> FALSE]
    /\ UNCHANGED <<exprs, cacheVars, evalVars, held, overlapped>>

\* Unlock; the locals of the call are gone.
Return(m) ==
    /\ mpc' = [mpc EXCEPT ![m] = "done"]
    /\ op' = [op EXCEPT ![m] = Nil]
    /\ old' = [old EXCEPT ![m] = <<>>]
    /\ mu' = Nil

\* An index out of range: the error returns and the mutex is released.
Refused(m) ==
    /\ mpc[m] = "refused"
    /\ Return(m)
    /\ UNCHANGED <<exprs, cacheVars, evalVars, history>>

Store(m) ==
    /\ mpc[m] = "locked"
    /\ exprs' = Apply(op[m], old[m])
    /\ mpc' = [mpc EXCEPT ![m] = "stored"]
    /\ held' = held \cup {<<i, exprs'[i]>> : i \in 1..Len(exprs')}
    /\ overlapped' = (overlapped \/ \E r \in Readers : rpc[r] \in {"loaded", "missed"})
    /\ UNCHANGED <<mu, cacheVars, op, old, evalVars, calm>>

\* Mutant: Remove leaves the plans alone.
Clear_NotOnRemove(m) ==
    IF op[m].kind = "remove" THEN UNCHANGED cacheVars ELSE Invalidate

Clear(m) == Invalidate

InvalidateAndUnlock(m) ==
    /\ mpc[m] = "stored"
    /\ Clear(m)
    /\ Return(m)
    /\ UNCHANGED <<exprs, evalVars, history>>
-----------------------------------------------------------------------------
(* EvalMany                                                                *)

Load(r) ==
    /\ rpc[r] = "idle"
    /\ \E s \in Schemas, l \in IndexLists :
         req' = [req EXCEPT ![r] = [schema |-> s, indices |-> l]]
    /\ view' = [view EXCEPT ![r] = exprs]
    /\ rpc' = [rpc EXCEPT ![r] = "loaded"]
    /\ calm' = [calm EXCEPT ![r] = (mu = Nil)]
    /\ UNCHANGED <<exprs, mu, cacheVars, mutVars, plan, results,
                   held, overlapped>>

CacheKey(r) == PlanCacheKey(req[r].schema, req[r].indices)

Hit(r) ==
    /\ rpc[r] = "loaded" /\ req[r].schema # "" /\ Cached(CacheKey(r))
    /\ plan' = [plan EXCEPT ![r] = Get(CacheKey(r))]
    /\ rpc' = [rpc EXCEPT ![r] = "planned"]
    /\ UNCHANGED <<exprs, mu, cacheVars, mutVars, req, view, results, history>>

\* A miss, or caching disabled: the plan is built from the slice loaded before.
Build(r) ==
    /\ rpc[r] = "loaded"
    /\ req[r].schema = "" \/ ~Cached(CacheKey(r))
    /\ plan' = [plan EXCEPT ![r] = BuildPlan(view[r], req[r].indices)]
    /\ rpc' = [rpc EXCEPT ![r] = IF req[r].schema = "" THEN "planned" ELSE "missed"]
    /\ UNCHANGED <<exprs, mu, cacheVars, mutVars, req, view, results, history>>

SetPlan(r) ==
    /\ rpc[r] = "missed"
    /\ Set(CacheKey(r), plan[r])
    /\ rpc' = [rpc EXCEPT ![r] = "planned"]
    /\ UNCHANGED <<exprs, mu, mutVars, req, view, plan, results, history>>

\* Mutant: the plan is asked before the removed expression is skipped.
Value_PlanFirst(r, i, fast) ==
    LET idx == req[r].indices[i] IN
    IF fast /\ plan[r][i] # Nil THEN plan[r][i]
    ELSE IF InRange(view[r], idx) THEN view[r][idx] ELSE Nil

\* One turn of the loop: skipped, answered by the plan, or fully evaluated
\* when there is no fast path or it does not resolve on the data.
Value(r, i, fast) ==
    LET idx == req[r].indices[i] IN
    IF ~InRange(view[r], idx) \/ view[r][idx] = Nil THEN Nil
    ELSE IF fast /\ plan[r][i] # Nil THEN plan[r][i]
    ELSE view[r][idx]

Evaluate(r) ==
    /\ rpc[r] = "planned"
    /\ \E fast \in [1..Len(req[r].indices) -> BOOLEAN] :
         results' = [results EXCEPT ![r] =
                       [i \in 1..Len(req[r].indices) |-> Value(r, i, fast[i])]]
    /\ rpc' = [rpc EXCEPT ![r] = "done"]
    /\ plan' = [plan EXCEPT ![r] = <<>>]
    /\ UNCHANGED <<exprs, mu, cacheVars, mutVars, req, view, history>>

\* A cancelled context or an evaluation error: no results.
Fail(r) ==
    /\ rpc[r] = "planned"
    /\ rpc' = [rpc EXCEPT ![r] = "done"]
    /\ plan' = [plan EXCEPT ![r] = <<>>]
    /\ UNCHANGED <<exprs, mu, cacheVars, mutVars, req, view, results, history>>

Next ==
    \/ \E m \in Mutators : Begin(m) \/ Refused(m) \/ Store(m) \/ InvalidateAndUnlock(m)
    \/ \E r \in Readers : Load(r) \/ Hit(r) \/ Build(r) \/ SetPlan(r) \/ Evaluate(r) \/ Fail(r)

Spec == Init /\ [][Next]_vars
-----------------------------------------------------------------------------
\* The same expression, or nothing, at the same index of a list.
At(list, idx) == IF InRange(list, idx) THEN list[idx] ELSE Nil

\* A mutation applies to the expressions its predecessor published: none is
\* lost, and the index Add returns is the index of its expression.
UpdatesAreAtomic ==
    [][exprs' # exprs => \E m \in Mutators : /\ mpc[m] = "locked"
                                             /\ exprs' = Apply(op[m], exprs)]_vars

\* A result comes from an expression that was registered at the index asked
\* for: plans for other schemas or index lists are never mixed up.
NoForeignResult ==
    \A r \in Readers : \A i \in 1..Len(results[r]) :
        results[r][i] # Nil => <<req[r].indices[i], results[r][i]>> \in held

\* A call that starts after Remove or Reset returned, with no mutation until
\* it ends, gets nothing for a removed index, whatever plan the cache holds.
RemovedIsUndefined ==
    \A r \in Readers : calm[r] =>
        \A i \in 1..Len(results[r]) :
            At(exprs, req[r].indices[i]) = Nil => results[r][i] = Nil

\* As long as no store fell between a call's load of the expressions and its
\* use of the cache, every cached plan matches the published expressions
\* except while the mutator that replaced them is about to invalidate.
PlansFollowExpressions ==
    ~overlapped /\ (\A m \in Mutators : mpc[m] # "stored") =>
        \A i \in 1..Len(snapshot) :
            snapshot[i].plan = BuildPlan(exprs, snapshot[i].key.indices)

\* stream.go:151-154: EvalMany calls that follow Replace (Add, Remove) rebuild
\* the plan with the new expression: a call that no mutation overlaps returns
\* the values of the published expressions.
SubsequentCallsRebuildPlans ==
    \A r \in Readers : calm[r] =>
        \A i \in 1..Len(results[r]) : results[r][i] = At(exprs, req[r].indices[i])

=============================================================================
