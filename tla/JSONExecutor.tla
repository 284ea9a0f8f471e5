---------------------------- MODULE JSONExecutor ----------------------------
(***************************************************************************)
(* The Go executor of go/internal/engine/json_executor.go: goroutines call *)
(* Evaluate concurrently on one instance.  They share the compile cache,   *)
(* read and written under a mutex but filled by compilations that run      *)
(* outside it.  A call goes through phases; its context may expire at any  *)
(* moment and is looked at between phases.                                 *)
(***************************************************************************)
EXTENDS Naturals, Sequences, FiniteSets

CONSTANTS
    Calls,        \* calls of Evaluate
    Texts,        \* expression texts
    BadTexts,     \* those that do not compile
    MaxCompiled,  \* option MaxCompiledExpressions
    None

ASSUME MaxCompiledAssumption == MaxCompiled \in Nat \ {0}

VARIABLES
    keys,      \* texts in the order they were cached
    compiled,  \* the expression cached for each text, or None
    pc,        \* phase each call is in
    text,      \* its expression text
    mine,      \* the *Expression it works with
    expired,   \* its context is done
    verdict    \* what it returned

cacheVars == <<keys, compiled>>
callVars == <<pc, text, mine, expired, verdict>>
vars == <<cacheVars, callVars>>

\* An *Expression is known by its text and the call that compiled it.
Expression == [text : Texts, by : Calls]

ASSUME NoneAssumption == None \notin Texts /\ None \notin Expression

Phases == {"idle", "lookup", "compile", "bind", "evaluate", "encode", "done"}
Verdicts == {"none", "value", "undefined", "error", "expired"}

Init ==
    /\ keys = <<>> /\ compiled = [x \in Texts |-> None]
    /\ pc = [c \in Calls |-> "idle"]
    /\ text = [c \in Calls |-> None]
    /\ mine = [c \in Calls |-> None]
    /\ expired = [c \in Calls |-> FALSE]
    /\ verdict = [c \in Calls |-> "none"]

Return(c, what) ==
    /\ pc' = [pc EXCEPT ![c] = "done"]
    /\ verdict' = [verdict EXCEPT ![c] = what]

\* Mutant: the context is not looked at after the phase.
Proceed_Unchecked(c, phase) ==
    pc' = [pc EXCEPT ![c] = phase] /\ UNCHANGED verdict

\* The check of ctx.Err() that ends a phase.
Proceed(c, phase) ==
    IF expired[c] THEN Return(c, "expired")
    ELSE pc' = [pc EXCEPT ![c] = phase] /\ UNCHANGED verdict
-----------------------------------------------------------------------------
Evaluate(c, x) ==
    /\ pc[c] = "idle"
    /\ text' = [text EXCEPT ![c] = x]
    /\ Proceed(c, "lookup")
    /\ UNCHANGED <<cacheVars, mine, expired>>

\* Input, bindings or expression exceed their byte budget, or a phase fails.
\* The error wins over the context, which is looked at after success only.
Fail(c) ==
    /\ pc[c] \in {"lookup", "bind", "evaluate", "encode"}
    /\ Return(c, "error")
    /\ UNCHANGED <<cacheVars, text, mine, expired>>

\* compile(): the first critical section.
Lookup(c) ==
    /\ pc[c] = "lookup"
    /\ mine' = [mine EXCEPT ![c] = compiled[text[c]]]
    /\ IF compiled[text[c]] # None THEN Proceed(c, "bind")
       ELSE pc' = [pc EXCEPT ![c] = "compile"] /\ UNCHANGED verdict
    /\ UNCHANGED <<cacheVars, text, expired>>

CompileFails(c) ==
    /\ pc[c] = "compile" /\ text[c] \in BadTexts
    /\ Return(c, "error")
    /\ UNCHANGED <<cacheVars, text, mine, expired>>

\* Mutants: the newest text makes room; the evicted expression stays.
Remember_DropsNewest(x, e) ==
    LET full == Len(keys) = MaxCompiled IN
    /\ keys' = Append(IF full THEN SubSeq(keys, 1, Len(keys) - 1) ELSE keys, x)
    /\ compiled' = [y \in Texts |-> IF y = x THEN e
                                   ELSE IF full /\ y = keys[Len(keys)] THEN None
                                   ELSE compiled[y]]
Remember_KeepsEvicted(x, e) ==
    /\ keys' = Append(IF Len(keys) = MaxCompiled THEN Tail(keys) ELSE keys, x)
    /\ compiled' = [compiled EXCEPT ![x] = e]

Remember(x, e) ==
    LET full == Len(keys) = MaxCompiled IN
    /\ keys' = Append(IF full THEN Tail(keys) ELSE keys, x)
    /\ compiled' = [y \in Texts |-> IF y = x THEN e
                                   ELSE IF full /\ y = Head(keys) THEN None
                                   ELSE compiled[y]]

\* Mutants: a call that was not first keeps the expression it compiled; a full
\* cache is left alone and asked for what it does not hold.
Insert_ReturnsOwn(c) ==
    /\ pc[c] = "compile" /\ text[c] \notin BadTexts
    /\ LET e == [text |-> text[c], by |-> c]
       IN /\ mine' = [mine EXCEPT ![c] = e]
          /\ IF compiled[text[c]] # None THEN UNCHANGED cacheVars ELSE Remember(text[c], e)
    /\ Proceed(c, "bind")
    /\ UNCHANGED <<text, expired>>
Insert_NotIfFull(c) ==
    /\ pc[c] = "compile" /\ text[c] \notin BadTexts
    /\ IF compiled[text[c]] # None \/ Len(keys) = MaxCompiled
       THEN mine' = [mine EXCEPT ![c] = compiled[text[c]]] /\ UNCHANGED cacheVars
       ELSE LET e == [text |-> text[c], by |-> c]
            IN mine' = [mine EXCEPT ![c] = e] /\ Remember(text[c], e)
    /\ Proceed(c, "bind")
    /\ UNCHANGED <<text, expired>>

\* compile(): compilation succeeded, and the second critical section.
Insert(c) ==
    /\ pc[c] = "compile" /\ text[c] \notin BadTexts
    /\ LET x == text[c]
           e == [text |-> x, by |-> c]
       IN IF compiled[x] # None
          THEN mine' = [mine EXCEPT ![c] = compiled[x]] /\ UNCHANGED cacheVars
          ELSE mine' = [mine EXCEPT ![c] = e] /\ Remember(x, e)
    /\ Proceed(c, "bind")
    /\ UNCHANGED <<text, expired>>

Bind(c) ==
    /\ pc[c] = "bind"
    /\ Proceed(c, "evaluate")
    /\ UNCHANGED <<cacheVars, text, mine, expired>>

\* The evaluator looks at the context, too, and returns its error.
Run(c) ==
    /\ pc[c] = "evaluate"
    /\ IF expired[c] THEN Return(c, "expired")
       ELSE \/ pc' = [pc EXCEPT ![c] = "encode"] /\ UNCHANGED verdict
            \/ Return(c, "undefined")
    /\ UNCHANGED <<cacheVars, text, mine, expired>>

Encode(c) ==
    /\ pc[c] = "encode"
    /\ Return(c, IF expired[c] THEN "expired" ELSE "value")
    /\ UNCHANGED <<cacheVars, text, mine, expired>>

\* The caller cancels, or the timeout elapses.
Expire(c) ==
    /\ pc[c] # "done" /\ ~expired[c]
    /\ expired' = [expired EXCEPT ![c] = TRUE]
    /\ UNCHANGED <<cacheVars, pc, text, mine, verdict>>

Step(c) ==
    \/ \E x \in Texts : Evaluate(c, x)
    \/ Lookup(c) \/ CompileFails(c) \/ Insert(c)
    \/ Bind(c) \/ Run(c) \/ Encode(c) \/ Fail(c)

Next == \E c \in Calls : Step(c) \/ Expire(c)

Spec == Init /\ [][Next]_vars
-----------------------------------------------------------------------------
TypeOK ==
    /\ keys \in Seq(Texts) /\ compiled \in [Texts -> Expression \cup {None}]
    /\ pc \in [Calls -> Phases] /\ text \in [Calls -> Texts \cup {None}]
    /\ mine \in [Calls -> Expression \cup {None}]
    /\ expired \in [Calls -> BOOLEAN] /\ verdict \in [Calls -> Verdicts]

\* The list of texts and the map agree, no text is listed twice, and the
\* cache is within its budget.
CacheConsistent ==
    /\ \A x \in Texts : compiled[x] # None <=> \E i \in 1..Len(keys) : keys[i] = x
    /\ \A i, j \in 1..Len(keys) : keys[i] = keys[j] => i = j
    /\ Len(keys) <= MaxCompiled

\* A call never works with the expression of another text, however lookups,
\* compilations and evictions of other calls interleave with its own.
OwnExpression ==
    /\ \A c \in Calls : mine[c] # None => mine[c].text = text[c]
    /\ \A c \in Calls : pc[c] \in {"bind", "evaluate", "encode"} => mine[c] # None

\* Calls that compile the same text at the same time end up sharing one
\* expression: the one in the cache when a call leaves compile().
CompilationsConverge ==
    [][\A c \in Calls : pc[c] \in {"lookup", "compile"} /\ pc'[c] = "bind" =>
         mine'[c] = compiled'[text[c]]]_vars

\* Cancellation is cooperative: a call whose context has expired finishes the
\* phase it is in, starts no other, and returns no value.
ExpiryEndsCall ==
    [][\A c \in Calls : expired[c] /\ pc'[c] # pc[c] =>
         \/ pc[c] = "lookup" /\ pc'[c] = "compile"
         \/ pc'[c] = "done" /\ verdict'[c] \in {"error", "expired"}]_vars

\* The compile cache is a bounded first-in first-out cache of expressions.
Compilations == INSTANCE FIFOCache WITH
    Keys <- Texts, Plans <- Expression, Size <- MaxCompiled,
    content <- [i \in 1..Len(keys) |-> [key |-> keys[i], plan |-> compiled[keys[i]]]]
ImplementsFIFO == Compilations!Spec

=============================================================================
