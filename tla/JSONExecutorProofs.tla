------------------------- MODULE JSONExecutorProofs -------------------------
(***************************************************************************)
(* Proofs about the Go executor: for any number of calls, texts and cache  *)
(* entries, the compile cache is consistent and a call works with the      *)
(* expression of its own text.                                             *)
(***************************************************************************)
EXTENDS JSONExecutor, DataFacts

\* What the properties need to be inductive: an expression is cached under
\* its own text, and a call has a text from Evaluate on and no expression
\* before.
Filed == \A x \in Texts : compiled[x] # None => compiled[x].text = x

CallState ==
    \A c \in Calls :
      /\ pc[c] \notin {"idle", "done"} => text[c] \in Texts
      /\ pc[c] = "idle" => mine[c] = None

IInv == TypeOK /\ CacheConsistent /\ OwnExpression /\ Filed /\ CallState
-----------------------------------------------------------------------------
\* The initial state satisfies the inductive invariant.
LEMMA InitInv == Init => IInv
  BY NoneAssumption, MaxCompiledAssumption
  DEF Init, IInv, TypeOK, CacheConsistent, OwnExpression, Filed, CallState, Phases, Verdicts

\* Storing an expression under a text the cache does not hold keeps the list
\* and the map in agreement and within the budget.
LEMMA RememberKeepsCache ==
    ASSUME keys \in Seq(Texts), compiled \in [Texts -> Expression \cup {None}],
           CacheConsistent, Filed,
           NEW x \in Texts, NEW e \in Expression, e.text = x,
           compiled[x] = None, Remember(x, e)
    PROVE  /\ keys' \in Seq(Texts) /\ compiled' \in [Texts -> Expression \cup {None}]
           /\ CacheConsistent' /\ Filed'
           /\ compiled'[x] = e
<1>1. e # None /\ MaxCompiled \in Nat \ {0} /\ Len(keys) \in Nat
  BY NoneAssumption, MaxCompiledAssumption
<1>2. compiled'[x] = e
  BY DEF Remember
<1>3. compiled' \in [Texts -> Expression \cup {None}]
  BY DEF Remember
<1>4. Filed'
  BY <1>1 DEF Remember, Filed
<1>5. \A i \in 1..Len(keys) : keys[i] # x /\ keys[i] \in Texts
  BY DEF CacheConsistent
<1>6. CASE Len(keys) = MaxCompiled
  <2>1. keys # <<>> /\ Head(keys) = keys[1]
    BY <1>1, <1>6
  <2>2. keys' = Append(Tail(keys), x)
    BY <1>6 DEF Remember
  <2>3. /\ keys' \in Seq(Texts) /\ Len(keys') = Len(keys)
        /\ \A i \in 1..(Len(keys) - 1) : keys'[i] = keys[i + 1]
        /\ keys'[Len(keys)] = x
    BY <2>1, <2>2, ShiftAppend
  <2>4. \A y \in Texts : compiled'[y] = IF y = x THEN e
                                        ELSE IF y = keys[1] THEN None ELSE compiled[y]
    BY <1>6, <2>1 DEF Remember
  <2>5. ASSUME NEW y \in Texts
        PROVE  compiled'[y] # None <=> \E i \in 1..Len(keys') : keys'[i] = y
    <3>1. CASE y = x
      BY <1>1, <1>2, <1>6, <2>3, <3>1
    <3>2. CASE y # x /\ y = keys[1]
      <4>1. compiled'[y] = None
        BY <2>4, <3>2
      <4>2. \A i \in 1..(Len(keys) - 1) : keys'[i] # keys[1]
        BY <1>1, <1>6, <2>3 DEF CacheConsistent
      <4> QED  BY <1>1, <2>3, <3>2, <4>1, <4>2
    <3>3. CASE y # x /\ y # keys[1]
      <4>1. compiled'[y] # None <=> \E i \in 1..Len(keys) : keys[i] = y
        BY <2>4, <3>3 DEF CacheConsistent
      <4>2. ASSUME NEW i \in 1..Len(keys), keys[i] = y
            PROVE  \E j \in 1..Len(keys') : keys'[j] = y
        <5>1. i # 1 /\ i - 1 \in 1..(Len(keys) - 1) /\ i - 1 \in 1..Len(keys')
          BY <1>1, <2>3, <3>3, <4>2
        <5>2. keys'[i - 1] = y
          BY <2>3, <4>2, <5>1
        <5> QED  BY <5>1, <5>2
      <4>3. ASSUME NEW j \in 1..Len(keys'), keys'[j] = y
            PROVE  \E i \in 1..Len(keys) : keys[i] = y
        <5>1. j \in 1..(Len(keys) - 1)
          BY <1>1, <2>3, <3>3, <4>3
        <5>2. keys[j + 1] = y /\ j + 1 \in 1..Len(keys)
          BY <1>1, <2>3, <4>3, <5>1
        <5> QED  BY <5>2
      <4> QED  BY <4>1, <4>2, <4>3
    <3> QED  BY <3>1, <3>2, <3>3
  <2>6. ASSUME NEW i \in 1..Len(keys'), NEW j \in 1..Len(keys'), keys'[i] = keys'[j]
        PROVE  i = j
    BY <1>1, <1>5, <1>6, <2>3, <2>6 DEF CacheConsistent
  <2>7. CacheConsistent'
    BY <1>1, <1>6, <2>3, <2>5, <2>6 DEF CacheConsistent
  <2> QED  BY <1>2, <1>3, <1>4, <2>3, <2>7
<1>7. CASE Len(keys) # MaxCompiled
  <2>1. keys' = Append(keys, x)
    BY <1>7 DEF Remember
  <2>2. /\ keys' \in Seq(Texts) /\ Len(keys') = Len(keys) + 1
        /\ \A i \in 1..Len(keys) : keys'[i] = keys[i]
        /\ keys'[Len(keys) + 1] = x
    BY <2>1, PlainAppend
  <2>3. \A y \in Texts : compiled'[y] = IF y = x THEN e ELSE compiled[y]
    BY <1>7 DEF Remember
  <2>4. ASSUME NEW y \in Texts
        PROVE  compiled'[y] # None <=> \E i \in 1..Len(keys') : keys'[i] = y
    <3>1. CASE y = x
      BY <1>1, <2>2, <2>3, <3>1
    <3>2. CASE y # x
      BY <1>1, <2>2, <2>3, <3>2 DEF CacheConsistent
    <3> QED  BY <3>1, <3>2
  <2>5. ASSUME NEW i \in 1..Len(keys'), NEW j \in 1..Len(keys'), keys'[i] = keys'[j]
        PROVE  i = j
    BY <1>1, <1>5, <2>2, <2>5 DEF CacheConsistent
  <2>6. Len(keys') <= MaxCompiled
    BY <1>1, <1>7, <2>2 DEF CacheConsistent
  <2> QED  BY <1>2, <1>3, <1>4, <2>2, <2>4, <2>5, <2>6 DEF CacheConsistent
<1> QED  BY <1>6, <1>7

\* A step of one call keeps every part of the inductive invariant.
LEMMA StepInv ==
    ASSUME IInv, NEW c \in Calls, Step(c)
    PROVE  IInv'
<1> USE NoneAssumption DEF IInv, Return, Proceed, cacheVars
<1>1. CASE \E x \in Texts : Evaluate(c, x)
  BY <1>1 DEF Evaluate, TypeOK, CacheConsistent, OwnExpression, Filed, CallState, Phases, Verdicts
<1>2. CASE Lookup(c)
  BY <1>2 DEF Lookup, TypeOK, CacheConsistent, OwnExpression, Filed, CallState, Phases, Verdicts
<1>3. CASE CompileFails(c)
  BY <1>3 DEF CompileFails, TypeOK, CacheConsistent, OwnExpression, Filed, CallState, Phases, Verdicts
<1>4. CASE Insert(c)
  <2> DEFINE x == text[c]
             e == [text |-> x, by |-> c]
  <2>1. x \in Texts /\ e \in Expression /\ e.text = x /\ pc[c] = "compile"
    BY <1>4 DEF Insert, CallState, Expression
  <2>2. CASE compiled[x] # None
    <3>1. mine' = [mine EXCEPT ![c] = compiled[x]] /\ keys' = keys /\ compiled' = compiled
      BY <1>4, <2>2 DEF Insert
    <3>2. compiled[x] \in Expression /\ compiled[x].text = x
      BY <2>1, <2>2 DEF TypeOK, Filed
    <3>3. CacheConsistent' /\ Filed'
      BY <3>1 DEF CacheConsistent, Filed
    <3> QED
      BY <1>4, <2>1, <2>2, <3>1, <3>2, <3>3
      DEF Insert, TypeOK, OwnExpression, CallState, Phases, Verdicts
  <2>3. CASE compiled[x] = None
    <3>1. mine' = [mine EXCEPT ![c] = e] /\ Remember(x, e)
      BY <1>4, <2>3 DEF Insert
    <3>2. /\ keys' \in Seq(Texts) /\ compiled' \in [Texts -> Expression \cup {None}]
          /\ CacheConsistent' /\ Filed'
      BY <2>1, <2>3, <3>1, RememberKeepsCache DEF TypeOK
    <3>3. text' = text /\ expired' = expired /\ Proceed(c, "bind")
      BY <1>4 DEF Insert
    <3>4. TypeOK'
      BY <2>1, <3>1, <3>2, <3>3 DEF TypeOK, Proceed, Phases, Verdicts
    <3>5. OwnExpression' /\ CallState'
      BY <2>1, <3>1, <3>3 DEF TypeOK, OwnExpression, CallState, Proceed
    <3> QED  BY <3>2, <3>4, <3>5
  <2> QED  BY <2>2, <2>3
<1>5. CASE Bind(c)
  BY <1>5 DEF Bind, TypeOK, CacheConsistent, OwnExpression, Filed, CallState, Phases, Verdicts
<1>6. CASE Run(c)
  BY <1>6 DEF Run, TypeOK, CacheConsistent, OwnExpression, Filed, CallState, Phases, Verdicts
<1>7. CASE Encode(c)
  BY <1>7 DEF Encode, TypeOK, CacheConsistent, OwnExpression, Filed, CallState, Phases, Verdicts
<1>8. CASE Fail(c)
  BY <1>8 DEF Fail, TypeOK, CacheConsistent, OwnExpression, Filed, CallState, Phases, Verdicts
<1> QED
  BY <1>1, <1>2, <1>3, <1>4, <1>5, <1>6, <1>7, <1>8 DEF Step

\* So do a context that expires and a stutter.
LEMMA ExpireInv ==
    ASSUME IInv, NEW c \in Calls, Expire(c)
    PROVE  IInv'
<1> USE DEF Expire, cacheVars
<1>1. TypeOK'
  BY DEF IInv, TypeOK
<1>2. CacheConsistent' /\ Filed'
  BY DEF IInv, CacheConsistent, Filed
<1>3. OwnExpression' /\ CallState'
  BY DEF IInv, OwnExpression, CallState
<1> QED
  BY <1>1, <1>2, <1>3 DEF IInv

LEMMA StutterInv ==
    ASSUME IInv, UNCHANGED vars
    PROVE  IInv'
<1> USE DEF vars, cacheVars, callVars
<1>1. TypeOK'
  BY DEF IInv, TypeOK
<1>2. CacheConsistent' /\ Filed'
  BY DEF IInv, CacheConsistent, Filed
<1>3. OwnExpression' /\ CallState'
  BY DEF IInv, OwnExpression, CallState
<1> QED
  BY <1>1, <1>2, <1>3 DEF IInv

\* The inductive invariant holds in every reachable state.
THEOREM InductiveInvariant == Spec => []IInv
<1>1. IInv /\ [Next]_vars => IInv'
  BY StepInv, ExpireInv, StutterInv DEF Next
<1> QED
  BY InitInv, <1>1, PTL DEF Spec

\* Every variable keeps its type.
THEOREM TypeCorrect == Spec => []TypeOK
<1>1. IInv => TypeOK
  BY DEF IInv
<1> QED
  BY InductiveInvariant, <1>1, PTL

\* json_executor.go keeps its list of texts and its map of expressions in
\* agreement, without a duplicate and within MaxCompiledExpressions, although
\* goroutines compile outside the lock.
THEOREM CacheIsConsistent == Spec => []CacheConsistent
<1>1. IInv => CacheConsistent
  BY DEF IInv
<1> QED
  BY InductiveInvariant, <1>1, PTL

\* A call of Evaluate never works with the expression of another text.
THEOREM CallsOwnExpression == Spec => []OwnExpression
<1>1. IInv => OwnExpression
  BY DEF IInv
<1> QED
  BY InductiveInvariant, <1>1, PTL
-----------------------------------------------------------------------------
\* Goroutines that compile the same text at the same time leave compile()
\* with the expression the cache holds then.
THEOREM CompilationsDoConverge == Spec => CompilationsConverge
<1> DEFINE Converge == \A c \in Calls :
             pc[c] \in {"lookup", "compile"} /\ pc'[c] = "bind" => mine'[c] = compiled'[text[c]]
<1>1. ASSUME IInv, Next, NEW c \in Calls, pc[c] \in {"lookup", "compile"}, pc'[c] = "bind"
      PROVE  mine'[c] = compiled'[text[c]]
  <2>1. PICK d \in Calls : Step(d) \/ Expire(d)
    BY <1>1 DEF Next
  <2>2. d = c /\ (Lookup(c) \/ Insert(c))
    BY <1>1, <2>1
    DEF IInv, TypeOK, Step, Expire, Evaluate, Lookup, CompileFails, Insert, Bind, Run, Encode,
        Fail, Return, Proceed
  <2>3. CASE Lookup(c)
    BY <1>1, <2>3 DEF IInv, TypeOK, Lookup, cacheVars
  <2>4. CASE Insert(c)
    <3>1. text[c] \in Texts
      BY <1>1 DEF IInv, CallState
    <3> QED
      BY <1>1, <2>4, <3>1 DEF IInv, TypeOK, Insert, Remember, cacheVars
  <2> QED  BY <2>2, <2>3, <2>4
<1>2. IInv /\ [Next]_vars => [Converge]_vars
  BY <1>1
<1> QED
  BY InductiveInvariant, <1>2, PTL DEF CompilationsConverge, Spec

\* A call whose context has expired starts no further phase and returns no
\* value: Evaluate looks at the context between its phases.
THEOREM ExpiryDoesEndCall == Spec => ExpiryEndsCall
<1> DEFINE Ends == \A c \in Calls : expired[c] /\ pc'[c] # pc[c] =>
             \/ pc[c] = "lookup" /\ pc'[c] = "compile"
             \/ pc'[c] = "done" /\ verdict'[c] \in {"error", "expired"}
<1>1. ASSUME IInv, Next, NEW c \in Calls, expired[c], pc'[c] # pc[c]
      PROVE  \/ pc[c] = "lookup" /\ pc'[c] = "compile"
             \/ pc'[c] = "done" /\ verdict'[c] \in {"error", "expired"}
  <2>1. PICK d \in Calls : Step(d) \/ Expire(d)
    BY <1>1 DEF Next
  <2>2. d = c /\ Step(c)
    BY <1>1, <2>1
    DEF IInv, TypeOK, Step, Expire, Evaluate, Lookup, CompileFails, Insert, Bind, Run, Encode,
        Fail, Return, Proceed
  <2> QED
    BY <1>1, <2>2
    DEF IInv, TypeOK, Step, Evaluate, Lookup, CompileFails, Insert, Bind, Run, Encode,
        Fail, Return, Proceed
<1>2. IInv /\ [Next]_vars => [Ends]_vars
  BY <1>1
<1> QED
  BY InductiveInvariant, <1>2, PTL DEF ExpiryEndsCall, Spec
-----------------------------------------------------------------------------
\* The cache as the abstract specification sees it.
View(list, map) == [i \in 1..Len(list) |-> [key |-> list[i], plan |-> map[list[i]]]]
Stored == [key : Texts, plan : Expression]

\* It is a sequence, entry for entry the list of texts.
LEMMA ViewIsSeq ==
    ASSUME NEW list \in Seq(Texts), NEW map \in [Texts -> Expression \cup {None}],
           \A i \in 1..Len(list) : map[list[i]] # None
    PROVE  /\ View(list, map) \in Seq(Stored) /\ Len(View(list, map)) = Len(list)
           /\ \A i \in 1..Len(list) :
                View(list, map)[i] = [key |-> list[i], plan |-> map[list[i]]]
<1>1. Len(list) \in Nat /\ \A i \in 1..Len(list) : list[i] \in Texts
  OBVIOUS
<1>2. View(list, map) \in [1..Len(list) -> Stored]
  BY <1>1 DEF View, Stored
<1> QED
  BY <1>1, <1>2, FunctionIsSeq DEF View

\* Storing an expression is a Put of the first-in first-out cache.
LEMMA RememberPuts ==
    ASSUME IInv, NEW x \in Texts, NEW e \in Expression, e.text = x,
           compiled[x] = None, Remember(x, e)
    PROVE  Compilations!Put(x, e)
<1> DEFINE entry == [key |-> x, plan |-> e]
           V == View(keys, compiled)
           W == View(keys', compiled')
           kept == IF Len(V) = MaxCompiled THEN Tail(V) ELSE V
<1>1. /\ keys' \in Seq(Texts) /\ compiled' \in [Texts -> Expression \cup {None}]
      /\ CacheConsistent' /\ compiled'[x] = e
  BY RememberKeepsCache DEF IInv, TypeOK
<1>2. /\ V \in Seq(Stored) /\ Len(V) = Len(keys)
      /\ \A i \in 1..Len(keys) : V[i] = [key |-> keys[i], plan |-> compiled[keys[i]]]
  BY ViewIsSeq DEF IInv, TypeOK, CacheConsistent
<1>3. /\ W \in Seq(Stored) /\ Len(W) = Len(keys')
      /\ \A i \in 1..Len(keys') : W[i] = [key |-> keys'[i], plan |-> compiled'[keys'[i]]]
  <2>1. \A i \in 1..Len(keys') : compiled'[keys'[i]] # None
    BY <1>1 DEF CacheConsistent
  <2> QED  BY <1>1, <2>1, ViewIsSeq
<1>4. entry \in Stored /\ entry.key = x /\ entry.plan = e
  BY DEF Stored
<1>5. \A i \in 1..Len(keys) : keys[i] \in Texts /\ keys[i] # x
  BY DEF IInv, TypeOK, CacheConsistent
<1>6. \A i \in 1..Len(V) : V[i].key # x
  <2> HIDE DEF V
  <2>1. ASSUME NEW i \in 1..Len(V)
        PROVE  V[i].key # x
    <3>1. i \in 1..Len(keys)
      BY <1>2
    <3>2. V[i] = [key |-> keys[i], plan |-> compiled[keys[i]]]
      BY <1>2, <3>1
    <3> QED  BY <1>5, <3>1, <3>2
  <2> QED  BY <2>1
<1>7. W = Append(kept, entry)
  <2> USE <1>4, <1>5
  <2> MaxCompiled \in Nat \ {0} /\ Len(keys) \in Nat /\ Len(keys) <= MaxCompiled
    BY MaxCompiledAssumption DEF IInv, TypeOK, CacheConsistent
  <2>1. CASE Len(keys) = MaxCompiled
    <3>1. /\ Append(Tail(V), entry) \in Seq(Stored)
          /\ Len(Append(Tail(V), entry)) = Len(V)
          /\ \A i \in 1..(Len(V) - 1) : Append(Tail(V), entry)[i] = V[i + 1]
          /\ Append(Tail(V), entry)[Len(V)] = entry
      <4>1. V # <<>>
        BY <1>2, <2>1
      <4> QED  BY <1>2, <4>1, ShiftAppend
    <3>2. /\ Len(keys') = Len(keys) /\ keys'[Len(keys)] = x
          /\ \A i \in 1..(Len(keys) - 1) : keys'[i] = keys[i + 1]
      <4>1. keys # <<>> /\ keys' = Append(Tail(keys), x)
        BY <2>1 DEF Remember
      <4> QED  BY <4>1, ShiftAppend DEF IInv, TypeOK
    <3>3. \A y \in Texts : y # x /\ y # keys[1] => compiled'[y] = compiled[y]
      BY <2>1 DEF Remember
    <3>4. ASSUME NEW i \in 1..(Len(keys) - 1)
          PROVE  W[i] = V[i + 1]
      <4>1. i + 1 \in 1..Len(keys) /\ i \in 1..Len(keys') /\ 1 \in 1..Len(keys) /\ i + 1 # 1
        BY <3>2
      <4>2. keys[i + 1] # keys[1] /\ keys[i + 1] # x /\ keys[i + 1] \in Texts
        BY <4>1 DEF IInv, CacheConsistent
      <4>3. compiled'[keys'[i]] = compiled[keys[i + 1]]
        BY <3>2, <3>3, <4>2
      <4>4. V[i + 1] = [key |-> keys[i + 1], plan |-> compiled[keys[i + 1]]]
        BY <1>2, <4>1
      <4>5. W[i] = [key |-> keys'[i], plan |-> compiled'[keys'[i]]]
        BY <1>3, <4>1
      <4> QED  BY <3>2, <4>3, <4>4, <4>5
    <3>5. W[Len(keys)] = entry
      BY <1>1, <1>3, <2>1, <3>2
    <3>6. W = Append(Tail(V), entry)
      <4> HIDE DEF V, W, entry
      <4>1. \A i \in 1..Len(W) : W[i] = Append(Tail(V), entry)[i]
        BY <1>2, <1>3, <3>1, <3>2, <3>4, <3>5
      <4>2. Len(W) = Len(Append(Tail(V), entry))
        BY <1>2, <1>3, <3>1, <3>2
      <4> QED  BY <1>3, <3>1, <4>1, <4>2, SeqEqual
    <3> QED  BY <1>2, <2>1, <3>6
  <2>2. CASE Len(keys) # MaxCompiled
    <3>1. /\ Append(V, entry) \in Seq(Stored)
          /\ Len(Append(V, entry)) = Len(V) + 1
          /\ \A i \in 1..Len(V) : Append(V, entry)[i] = V[i]
          /\ Append(V, entry)[Len(V) + 1] = entry
      BY <1>2, PlainAppend
    <3>2. /\ Len(keys') = Len(keys) + 1 /\ keys'[Len(keys) + 1] = x
          /\ \A i \in 1..Len(keys) : keys'[i] = keys[i]
      <4>1. keys' = Append(keys, x)
        BY <2>2 DEF Remember
      <4> QED  BY <4>1, PlainAppend DEF IInv, TypeOK
    <3>3. \A y \in Texts : y # x => compiled'[y] = compiled[y]
      BY <2>2 DEF Remember
    <3>4. ASSUME NEW i \in 1..Len(keys)
          PROVE  W[i] = V[i]
      <4>1. i \in 1..Len(keys') /\ keys'[i] = keys[i]
        BY <3>2
      <4>2. keys[i] \in Texts /\ keys[i] # x
        BY <1>5
      <4>3. compiled'[keys'[i]] = compiled[keys[i]]
        BY <3>3, <4>1, <4>2
      <4>4. V[i] = [key |-> keys[i], plan |-> compiled[keys[i]]]
        BY <1>2
      <4>5. W[i] = [key |-> keys'[i], plan |-> compiled'[keys'[i]]]
        BY <1>3, <4>1
      <4> QED  BY <4>1, <4>3, <4>4, <4>5
    <3>5. W[Len(keys) + 1] = entry
      BY <1>1, <1>3, <3>2
    <3>6. W = Append(V, entry)
      <4> HIDE DEF V, W, entry
      <4>1. \A i \in 1..Len(W) : W[i] = Append(V, entry)[i]
        BY <1>2, <1>3, <3>1, <3>2, <3>4, <3>5
      <4> QED  BY <1>2, <1>3, <3>1, <3>2, <4>1, SeqEqual
    <3> QED  BY <1>2, <2>2, <3>6
  <2> QED  BY <2>1, <2>2
<1> QED
  BY <1>6, <1>7 DEF Compilations!Put, Compilations!Holds, View

\* Whatever calls do, the compile cache of json_executor.go is a bounded
\* first-in first-out cache: the first expression stored for a text stands
\* until it is the oldest and a new text needs its place.
THEOREM CacheIsFIFO == Spec => ImplementsFIFO
<1>1. Init => Compilations!Init
  BY DEF Init, Compilations!Init
<1>2. ASSUME IInv, [Next]_vars
      PROVE  [Compilations!Next]_(View(keys, compiled))
  <2>1. CASE UNCHANGED <<keys, compiled>>
    BY <2>1 DEF View
  <2>2. CASE \E c \in Calls : Insert(c) /\ compiled[text[c]] = None
    <3>1. PICK c \in Calls : Insert(c) /\ compiled[text[c]] = None
      BY <2>2
    <3>2. /\ text[c] \in Texts
          /\ [text |-> text[c], by |-> c] \in Expression
          /\ Remember(text[c], [text |-> text[c], by |-> c])
      BY <1>2, <3>1 DEF Insert, IInv, CallState, Expression
    <3>3. PICK x \in Texts, e \in Expression :
            e.text = x /\ compiled[x] = None /\ Remember(x, e)
      BY <3>1, <3>2 DEF Remember
    <3>4. Compilations!Put(x, e)
      BY <1>2, <3>3, RememberPuts
    <3> QED  BY <3>4 DEF Compilations!Next
  <2> QED
    BY <1>2, <2>1, <2>2
    DEF Next, Step, vars, cacheVars, Evaluate, Lookup, CompileFails, Insert, Bind, Run,
        Encode, Fail, Expire
<1> QED
  BY InductiveInvariant, <1>1, <1>2, PTL DEF Spec, ImplementsFIFO, Compilations!Spec, View

=============================================================================
