------------------------ MODULE StreamEvaluatorProofs ------------------------
(***************************************************************************)
(* Concurrent mutations and evaluations, for any number of goroutines,     *)
(* expressions, schemas and plans: no update is lost, no result belongs to *)
(* another index, a removal is seen, and a plan is stale only if a store   *)
(* overlapped an evaluation.                                               *)
(*                                                                         *)
(* First their plan cache, alone: for every capacity, the ring and the     *)
(* published snapshot agree, and what readers see is a first-in first-out  *)
(* cache.                                                                  *)
(***************************************************************************)
EXTENDS StreamEvaluator, DataFacts

-----------------------------------------------------------------------------
(* The plan cache                                                          *)

\* The three invariants TLC checks are inductive as they stand, together.
IInv == CacheTypeOK /\ SnapshotMatchesRing /\ KeysDistinct

\* NewBoundedCache never makes a ring without a place.
LEMMA CapacityType == Capacity \in Nat \ {0}
  BY MaxSchemasAssumption DEF Capacity

\* Place of the i-th oldest of n entries that end before h, in a ring of c.
Place(c, h, n, i) == IF h - n + i - 1 < 0 THEN h - n + i - 1 + c ELSE h - n + i - 1

\* The ring wraps around at most once: the index Set computes is that place.
LEMMA Wrap ==
    ASSUME NEW c \in Nat \ {0}, NEW h \in 0..(c - 1), NEW n \in 0..c, NEW i \in 1..n
    PROVE  /\ (h - n + c + i - 1) % c = Place(c, h, n, i)
           /\ Place(c, h, n, i) \in 0..(c - 1)
  BY DEF Place

LEMMA OldestPlace ==
    ASSUME NEW h \in 0..(Capacity - 1), NEW n \in 0..Capacity, NEW i \in 1..n
    PROVE  /\ (Oldest(h, n) + i - 1) % Capacity = Place(Capacity, h, n, i)
           /\ Place(Capacity, h, n, i) \in 0..(Capacity - 1)
  BY CapacityType, Wrap DEF Oldest

\* The position after h.
LEMMA NextPlace ==
    ASSUME NEW c \in Nat \ {0}, NEW h \in 0..(c - 1)
    PROVE  /\ (h + 1) % c = IF h + 1 = c THEN 0 ELSE h + 1
           /\ (h + 1) % c \in 0..(c - 1)
  OBVIOUS

\* The initial state satisfies the invariants.
LEMMA InitInv == CacheInit => IInv
<1> SUFFICES ASSUME CacheInit PROVE IInv
  OBVIOUS
<1> USE CapacityType DEF CacheInit
<1>1. CacheTypeOK
  BY DEF CacheTypeOK
<1>2. SnapshotMatchesRing /\ KeysDistinct
  BY DEF SnapshotMatchesRing, KeysDistinct
<1> QED
  BY <1>1, <1>2 DEF IInv

\* So does every invalidated cache.
LEMMA InvalidateInv ==
    ASSUME IInv, Invalidate
    PROVE  IInv' /\ snapshot' = <<>>
<1> USE CapacityType DEF Invalidate
<1>1. CacheTypeOK'
  BY DEF CacheTypeOK
<1>2. SnapshotMatchesRing' /\ KeysDistinct'
  BY DEF SnapshotMatchesRing, KeysDistinct
<1> QED
  BY <1>1, <1>2 DEF IInv

\* Storing a new key appends to what readers see, and makes room first if the
\* ring is full; the invariants are kept.
LEMMA SetAppends ==
    ASSUME IInv, NEW key \in Keys, NEW stored \in Plans, ~Cached(key), Set(key, stored)
    PROVE  /\ IInv'
           /\ snapshot' = Append(IF Len(snapshot) = Capacity THEN Tail(snapshot) ELSE snapshot,
                                 [key |-> key, plan |-> stored])
<1> DEFINE entry == [key |-> key, plan |-> stored]
           kept == IF Len(snapshot) = Capacity THEN Tail(snapshot) ELSE snapshot
<1>1. PICK h2, n2, r2 : h2 = head' /\ n2 = count' /\ r2 = entries'
  OBVIOUS
<1> DEFINE at(i) == Place(Capacity, head, count, i)
           at2(i) == Place(Capacity, h2, n2, i)
<1>2. /\ entry \in Entry /\ entry.key = key
      /\ head \in 0..(Capacity - 1) /\ count \in 0..Capacity
      /\ count < Capacity => head = count /\ \A i \in count..(Capacity - 1) : entries[i] = Empty
      /\ snapshot \in Seq(Entry) /\ Len(snapshot) = count
      /\ entries \in [0..(Capacity - 1) -> Entry \cup {Empty}]
      /\ Capacity \in Nat \ {0}
  BY CapacityType DEF IInv, CacheTypeOK, SnapshotMatchesRing, Entry
<1>3. /\ r2 = [entries EXCEPT ![head] = entry]
      /\ h2 = (head + 1) % Capacity
      /\ n2 = IF count < Capacity THEN count + 1 ELSE count
      /\ snapshot' = [i \in 1..n2 |-> r2[(Oldest(h2, n2) + i - 1) % Capacity]]
  BY <1>1 DEF Set
<1>4. h2 = IF head + 1 = Capacity THEN 0 ELSE head + 1
  BY <1>2, <1>3, NextPlace
<1>5. h2 \in 0..(Capacity - 1) /\ n2 \in 0..Capacity /\ n2 > 0
  BY <1>2, <1>3, <1>4
<1>6. /\ \A i \in 1..n2 :
           (Oldest(h2, n2) + i - 1) % Capacity = at2(i) /\ at2(i) \in 0..(Capacity - 1)
      /\ \A i \in 1..count : snapshot[i] = entries[at(i)] /\ at(i) \in 0..(Capacity - 1)
  <2>1. \A i \in 1..count : snapshot[i] = entries[(Oldest(head, count) + i - 1) % Capacity]
    BY DEF IInv, SnapshotMatchesRing
  <2> QED  BY <1>2, <1>5, <2>1, OldestPlace
\* The newest entry is at head, and the others are where they were.
<1>7. /\ at2(n2) = head
      /\ \A i \in 1..(n2 - 1) : /\ count - n2 + 1 + i \in 1..count
                                /\ at2(i) = at(count - n2 + 1 + i) /\ at2(i) # head
  <2>1. count < Capacity => head = count
    BY <1>2
  <2>2. /\ Place(Capacity, h2, n2, n2) = head
        /\ \A i \in 1..(n2 - 1) :
             /\ count - n2 + 1 + i \in 1..count
             /\ Place(Capacity, h2, n2, i) = Place(Capacity, head, count, count - n2 + 1 + i)
             /\ Place(Capacity, h2, n2, i) # head
    <3>1. /\ h2 \in Int /\ n2 \in Int /\ Capacity \in Nat \ {0}
          /\ head \in 0..(Capacity - 1) /\ count \in 0..Capacity
      BY <1>2, <1>5
    <3>2. n2 = IF count < Capacity THEN count + 1 ELSE count
      BY <1>3
    <3> HIDE DEF at, at2, kept, entry
    <3> QED  BY <1>4, <2>1, <3>1, <3>2 DEF Place
  <2> QED  BY <2>2
<1> HIDE DEF at, at2, kept, entry
<1>8. /\ kept \in Seq(Entry) /\ Len(kept) = n2 - 1
      /\ \A i \in 1..(n2 - 1) : kept[i] = snapshot[count - n2 + 1 + i]
  <2>1. CASE count = Capacity
    <3>1. snapshot # <<>>
      BY <1>2, <2>1
    <3>2. /\ Tail(snapshot) \in Seq(Entry) /\ Len(Tail(snapshot)) = Len(snapshot) - 1
          /\ \A i \in 1..Len(Tail(snapshot)) : Tail(snapshot)[i] = snapshot[i + 1]
      BY <1>2, <3>1, HeadTailProperties
    <3> QED  BY <1>2, <1>3, <2>1, <3>2 DEF kept
  <2>2. CASE count # Capacity
    BY <1>2, <1>3, <2>2 DEF kept
  <2> QED  BY <2>1, <2>2
<1>9. \A i \in 1..(n2 - 1) : r2[at2(i)] = kept[i]
  <2> TAKE i \in 1..(n2 - 1)
  <2>1. i \in 1..n2 /\ at2(i) # head
    BY <1>5, <1>7
  <2>2. r2[at2(i)] = entries[at2(i)]
    BY <1>2, <1>3, <1>6, <2>1
  <2>3. snapshot[count - n2 + 1 + i] = entries[at2(i)]
    BY <1>6, <1>7
  <2> QED  BY <1>8, <2>2, <2>3
<1>10. /\ Append(kept, entry) \in Seq(Entry) /\ Len(Append(kept, entry)) = n2
       /\ \A i \in 1..(n2 - 1) : Append(kept, entry)[i] = kept[i]
       /\ Append(kept, entry)[n2] = entry
  <2>1. /\ Append(kept, entry) \in Seq(Entry)
        /\ Len(Append(kept, entry)) = Len(kept) + 1
        /\ \A i \in 1..Len(kept) : Append(kept, entry)[i] = kept[i]
        /\ Append(kept, entry)[Len(kept) + 1] = entry
    BY <1>2, <1>8, PlainAppend
  <2>2. Len(kept) + 1 = n2
    BY <1>5, <1>8
  <2> QED  BY <1>8, <2>1, <2>2
<1>11. snapshot' \in Seq(Entry) /\ Len(snapshot') = n2 /\ snapshot' = Append(kept, entry)
  <2>1. \A i \in 1..n2 : r2[at2(i)] = Append(kept, entry)[i]
    <3> TAKE i \in 1..n2
    <3>1. i = n2 \/ i \in 1..(n2 - 1)
      BY <1>5
    <3>2. r2[at2(n2)] = entry
      BY <1>2, <1>3, <1>7
    <3> QED  BY <1>9, <1>10, <3>1, <3>2
  <2>2. \A i \in 1..n2 : r2[at2(i)] \in Entry
    BY <1>5, <1>10, <2>1
  <2>3. snapshot' \in [1..n2 -> Entry] /\ \A i \in 1..n2 : snapshot'[i] = r2[at2(i)]
    BY <1>3, <1>6, <2>2
  <2>4. snapshot' \in Seq(Entry) /\ Len(snapshot') = n2
    BY <1>5, <2>3, FunctionIsSeq
  <2>5. snapshot' = Append(kept, entry)
    BY <1>10, <2>1, <2>3, <2>4, SeqEqual
  <2> QED  BY <2>4, <2>5
<1>12. CacheTypeOK'
  <2>1. r2 \in [0..(Capacity - 1) -> Entry \cup {Empty}]
    BY <1>2, <1>3
  <2> QED  BY <1>1, <1>5, <1>11, <2>1 DEF CacheTypeOK
<1>13. SnapshotMatchesRing'
  <2>1. \A i \in 1..n2 : snapshot'[i] = r2[(Oldest(h2, n2) + i - 1) % Capacity]
    BY <1>3
  <2>2. n2 < Capacity => h2 = n2 /\ \A i \in n2..(Capacity - 1) : r2[i] = Empty
    BY <1>2, <1>3, <1>4
  <2> QED  BY <1>1, <1>11, <2>1, <2>2 DEF SnapshotMatchesRing
<1>14. KeysDistinct'
  <2>1. \A i \in 1..(n2 - 1) : /\ count - n2 + 1 + i \in 1..count
                               /\ snapshot'[i] = snapshot[count - n2 + 1 + i]
    BY <1>7, <1>8, <1>10, <1>11
  <2>2. snapshot'[n2].key = key
    BY <1>2, <1>10, <1>11
  <2>3. \A k \in 1..count : snapshot[k].key # key
    BY <1>2 DEF Cached
  <2>4. ASSUME NEW i \in 1..n2, NEW j \in 1..n2, snapshot'[i].key = snapshot'[j].key
        PROVE  i = j
    <3>1. (i = n2 \/ i \in 1..(n2 - 1)) /\ (j = n2 \/ j \in 1..(n2 - 1))
      BY <1>5
    <3>2. CASE i \in 1..(n2 - 1) /\ j \in 1..(n2 - 1)
      <4>1. count - n2 + 1 + i = count - n2 + 1 + j
        BY <1>2, <2>1, <2>4, <3>2 DEF IInv, KeysDistinct
      <4> QED  BY <1>2, <1>5, <4>1
    <3>3. CASE ~(i \in 1..(n2 - 1) /\ j \in 1..(n2 - 1))
      BY <2>1, <2>2, <2>3, <2>4, <3>1, <3>3
    <3> QED  BY <3>2, <3>3
  <2> QED  BY <1>11, <2>4 DEF KeysDistinct
<1> QED
  BY <1>11, <1>12, <1>13, <1>14 DEF IInv, kept, entry

\* Every step keeps the invariants.
LEMMA NextInv == IInv /\ [CacheNext]_cacheVars => IInv'
<1> SUFFICES ASSUME IInv, [CacheNext]_cacheVars PROVE IInv'
  OBVIOUS
<1>1. CASE UNCHANGED cacheVars
  BY <1>1 DEF cacheVars, IInv, CacheTypeOK, SnapshotMatchesRing, KeysDistinct
<1>2. CASE Invalidate
  BY <1>2, InvalidateInv
<1>3. ASSUME NEW key \in Keys, NEW stored \in Plans, Set(key, stored)
      PROVE  IInv'
  <2>1. CASE Cached(key)
    BY <1>1, <1>3, <2>1 DEF Set
  <2>2. CASE ~Cached(key)
    BY <1>3, <2>2, SetAppends
  <2> QED  BY <2>1, <2>2
<1> QED
  BY <1>1, <1>2, <1>3 DEF CacheNext

\* The invariants hold in every reachable state.
THEOREM InductiveInvariant == CacheSpec => []IInv
  BY InitInv, NextInv, PTL DEF CacheSpec

\* Every variable keeps its type, whatever capacity was asked for.
THEOREM CacheTypeCorrect == CacheSpec => []CacheTypeOK
<1>1. IInv => CacheTypeOK
  BY DEF IInv
<1> QED
  BY InductiveInvariant, <1>1, PTL

\* The snapshot bounded_cache.go publishes lists exactly the live part of its
\* ring, oldest first, however often head has wrapped around.
THEOREM SnapshotAlwaysMatches == CacheSpec => []SnapshotMatchesRing
<1>1. IInv => SnapshotMatchesRing
  BY DEF IInv
<1> QED
  BY InductiveInvariant, <1>1, PTL

\* A key is cached at most once.
THEOREM KeysAlwaysDistinct == CacheSpec => []KeysDistinct
<1>1. IInv => KeysDistinct
  BY DEF IInv
<1> QED
  BY InductiveInvariant, <1>1, PTL

\* What readers of bounded_cache.go see is a first-in first-out cache.
THEOREM CacheIsFIFO == CacheSpec => ImplementsFIFO
<1>1. CacheInit => FIFO!Init
  BY DEF CacheInit, FIFO!Init
<1>2. ASSUME IInv, [CacheNext]_cacheVars
      PROVE  [FIFO!Next]_snapshot
  <2>1. CASE UNCHANGED cacheVars
    BY <2>1 DEF cacheVars
  <2>2. CASE Invalidate
    BY <2>2 DEF Invalidate, FIFO!Next, FIFO!Clear
  <2>3. ASSUME NEW key \in Keys, NEW stored \in Plans, Set(key, stored)
        PROVE  [FIFO!Next]_snapshot
    <3>1. CASE Cached(key)
      BY <2>3, <3>1 DEF Set, cacheVars
    <3>2. CASE ~Cached(key)
      <4>1. snapshot' = Append(IF Len(snapshot) = Capacity THEN Tail(snapshot) ELSE snapshot,
                               [key |-> key, plan |-> stored])
        BY <1>2, <2>3, <3>2, SetAppends
      <4>2. FIFO!Put(key, stored)
        BY <3>2, <4>1 DEF FIFO!Put, FIFO!Holds, Cached
      <4> QED  BY <4>2 DEF FIFO!Next
    <3> QED  BY <3>1, <3>2
  <2> QED  BY <1>2, <2>1, <2>2, <2>3 DEF CacheNext
<1> QED
  BY InductiveInvariant, <1>1, <1>2, PTL DEF CacheSpec, ImplementsFIFO, FIFO!Spec

-----------------------------------------------------------------------------
(* The evaluator                                                           *)

List == Seq(Exprs \cup {Nil})
Request == [schema : Schemas, indices : IndexLists]

TypeOK ==
    /\ exprs \in List /\ mu \in Mutators \cup {Nil}
    /\ mpc \in [Mutators -> {"idle", "locked", "refused", "stored", "done"}]
    /\ op \in [Mutators -> Calls \cup {Nil}]
    /\ old \in [Mutators -> List]
    /\ rpc \in [Readers -> {"idle", "loaded", "missed", "planned", "done"}]
    /\ req \in [Readers -> Request \cup {Nil}]
    /\ view \in [Readers -> List]
    /\ plan \in [Readers -> Plan \cup {<<>>}]
    /\ results \in [Readers -> List]
    /\ calm \in [Readers -> BOOLEAN] /\ overlapped \in BOOLEAN
    /\ \A r \in Readers : /\ rpc[r] # "idle" => req[r] \in Request
                          /\ rpc[r] # "done" => results[r] = <<>>

\* The mutex: whoever is in the critical section holds it, and has loaded what
\* is published.
Mutex ==
    \A m \in Mutators :
        /\ mpc[m] \in {"locked", "refused", "stored"} => mu = m
        /\ mpc[m] = "locked" => old[m] = exprs /\ op[m] \in Calls /\ Legal(op[m], old[m])

\* What a plan has for an index was registered there, by the history h.
KnownIn(h, p, indices) ==
    /\ Len(p) = Len(indices)
    /\ \A i \in 1..Len(p) : p[i] # Nil => <<indices[i], p[i]>> \in h
\* So was what a list has.
RegisteredIn(h, list) == \A i \in 1..Len(list) : <<i, list[i]>> \in h

Provenance ==
    /\ RegisteredIn(held, exprs)
    /\ \A r \in Readers : /\ RegisteredIn(held, view[r])
                          /\ rpc[r] \in {"missed", "planned"} => KnownIn(held, plan[r], req[r].indices)
    /\ \A i \in 1..Len(snapshot) : KnownIn(held, snapshot[i].plan, snapshot[i].key.indices)
    /\ NoForeignResult

\* A call that no mutation overlaps so far has what is published.
Calm ==
    /\ \A r \in Readers : calm[r] => mu = Nil /\ view[r] = exprs
    /\ RemovedIsUndefined

\* What is about to be stored was built from what is published, if nothing was
\* stored meanwhile.
BuiltFresh ==
    \A r \in Readers :
        /\ ~overlapped /\ rpc[r] \in {"loaded", "missed"} => view[r] = exprs
        /\ rpc[r] = "missed" => plan[r] = BuildPlan(view[r], req[r].indices)

Fresh == BuiltFresh /\ PlansFollowExpressions

\* The inductive invariant; IInv is that of the cache.
StreamInv == IInv /\ TypeOK /\ Mutex /\ Provenance /\ Calm /\ Fresh
-----------------------------------------------------------------------------
(* Plans, keys and lists.                                                  *)

LEMMA PlanType ==
    ASSUME NEW list \in List, NEW l \in IndexLists
    PROVE  /\ BuildPlan(list, l) \in Plan /\ BuildPlan(list, l) \in Plans
           /\ Len(BuildPlan(list, l)) = Len(l) /\ Len(l) \in Nat
           /\ \A i \in 1..Len(l) : BuildPlan(list, l)[i] # Nil =>
                 InRange(list, l[i]) /\ BuildPlan(list, l)[i] = list[l[i]]
<1>1. Len(l) \in Nat
  BY StreamAssumption
<1>2. BuildPlan(list, l) \in [1..Len(l) -> FastExprs \cup {Nil}]
  BY DEF BuildPlan
<1>3. BuildPlan(list, l) \in Plan
  BY <1>2 DEF Plan
<1>4. Len(BuildPlan(list, l)) = Len(l)
  BY <1>1, <1>2, FunctionIsSeq
<1>5. \A i \in 1..Len(l) : BuildPlan(list, l)[i] # Nil =>
         InRange(list, l[i]) /\ BuildPlan(list, l)[i] = list[l[i]]
  BY DEF BuildPlan
<1>6. QED
  BY <1>1, <1>3, <1>4, <1>5, StreamAssumption

\* A plan is a sequence of fast expressions and gaps.
LEMMA PlanElements ==
    ASSUME NEW p \in Plan
    PROVE  p \in Seq(FastExprs \cup {Nil}) /\ Len(p) \in Nat
<1>1. PICK n \in {0} \cup {Len(l) : l \in IndexLists} : p \in [1..n -> FastExprs \cup {Nil}]
  BY DEF Plan
<1>2. n \in Nat
  BY StreamAssumption
<1>3. QED
  BY <1>1, <1>2, FunctionIsSeq

LEMMA KeyType ==
    ASSUME NEW q \in Request
    PROVE  /\ q.schema \in Schemas /\ q.indices \in IndexLists
           /\ PlanCacheKey(q.schema, q.indices) \in Keys
           /\ PlanCacheKey(q.schema, q.indices).indices = q.indices
  BY StreamAssumption DEF Request, PlanCacheKey, CacheKeys

LEMMA ApplyType ==
    ASSUME NEW list \in List, NEW call \in Calls, Legal(call, list)
    PROVE  Apply(call, list) \in List
<1>1. CASE call.kind = "add"
  BY <1>1 DEF Calls, Apply, List
<1>2. CASE call.kind = "replace"
  BY <1>2 DEF Calls, Apply, List, Legal, InRange
<1>3. CASE call.kind = "remove"
  BY <1>3 DEF Calls, Apply, List, Legal, InRange
<1>4. CASE call.kind = "reset"
  BY <1>4 DEF Calls, Apply, List
<1>5. QED
  BY <1>1, <1>2, <1>3, <1>4 DEF Calls

LEMMA KnownFromRegistered ==
    ASSUME NEW list \in List, NEW l \in IndexLists, NEW h, RegisteredIn(h, list)
    PROVE  KnownIn(h, BuildPlan(list, l), l)
  BY PlanType DEF KnownIn, RegisteredIn, InRange
-----------------------------------------------------------------------------
(* The cache within the evaluator.                                         *)

\* What Set adds to the snapshot, if anything, is the new entry.
LEMMA SetEntries ==
    ASSUME IInv, NEW key \in Keys, NEW p \in Plans, Set(key, p)
    PROVE  /\ IInv'
           /\ \A j \in 1..Len(snapshot') :
                 \/ \E i \in 1..Len(snapshot) : snapshot'[j] = snapshot[i]
                 \/ snapshot'[j] = [key |-> key, plan |-> p]
<1>1. snapshot \in Seq(Entry) /\ [key |-> key, plan |-> p] \in Entry
  BY DEF IInv, CacheTypeOK, Entry
<1>2. CASE Cached(key)
  BY <1>2 DEF Set, cacheVars, IInv, CacheTypeOK, SnapshotMatchesRing, KeysDistinct
<1>3. CASE ~Cached(key) /\ Len(snapshot) # Capacity
  BY <1>1, <1>3, SetAppends, PlainAppend
<1>4. CASE ~Cached(key) /\ Len(snapshot) = Capacity
  <2>1. snapshot # <<>> /\ snapshot' = Append(Tail(snapshot), [key |-> key, plan |-> p]) /\ IInv'
    BY <1>4, SetAppends, CapacityType
  <2>2. QED
    BY <1>1, <2>1, ShiftAppend
<1>5. QED
  BY <1>2, <1>3, <1>4

\* What every step does to the cache: nothing, clearing, or storing the plan a
\* goroutine has built under the key of its request.
LEMMA CacheSteps ==
    ASSUME IInv, TypeOK, [Next]_vars
    PROVE  \/ UNCHANGED cacheVars
           \/ Invalidate
           \/ \E r \in Readers : /\ rpc[r] = "missed" /\ SetPlan(r)
                                 /\ CacheKey(r) \in Keys /\ plan[r] \in Plans
<1>1. ASSUME NEW r \in Readers, SetPlan(r)
      PROVE  rpc[r] = "missed" /\ CacheKey(r) \in Keys /\ plan[r] \in Plans
  <2>1. rpc[r] = "missed" /\ req[r] \in Request
    BY <1>1 DEF SetPlan, TypeOK
  <2>2. <<>> \in Plan
    BY DEF Plan
  <2>3. QED
    BY <2>1, <2>2, KeyType, StreamAssumption DEF CacheKey, TypeOK
<1>2. ASSUME NEW m \in Mutators, Begin(m) \/ Refused(m) \/ Store(m)
      PROVE  UNCHANGED cacheVars
  BY <1>2 DEF Begin, Refused, Store
<1>3. ASSUME NEW m \in Mutators, InvalidateAndUnlock(m)
      PROVE  Invalidate
  BY <1>3 DEF InvalidateAndUnlock, Clear
<1>4. ASSUME NEW r \in Readers, Load(r) \/ Hit(r) \/ Build(r) \/ Evaluate(r) \/ Fail(r)
      PROVE  UNCHANGED cacheVars
  BY <1>4 DEF Load, Hit, Build, Evaluate, Fail
<1>5. QED
  BY <1>1, <1>2, <1>3, <1>4 DEF Next, vars

LEMMA CacheInvStep ==
    ASSUME IInv, TypeOK, [Next]_vars
    PROVE  IInv' /\ [CacheNext]_cacheVars
<1>1. CASE UNCHANGED cacheVars
  BY <1>1, NextInv
<1>2. CASE Invalidate
  BY <1>2, InvalidateInv DEF CacheNext
<1>3. ASSUME NEW r \in Readers, SetPlan(r), CacheKey(r) \in Keys, plan[r] \in Plans
      PROVE  IInv' /\ [CacheNext]_cacheVars
  BY <1>3, SetEntries DEF SetPlan, CacheNext
<1>4. QED
  BY <1>1, <1>2, <1>3, CacheSteps
-----------------------------------------------------------------------------
(* Types and the mutex.                                                    *)

\* A hit is an entry with the key asked for.
LEMMA HitEntry ==
    ASSUME NEW key, Cached(key)
    PROVE  \E i \in 1..Len(snapshot) : snapshot[i].key = key /\ Get(key) = snapshot[i].plan
  BY DEF Cached, Get

LEMMA TypeStep ==
    ASSUME StreamInv, [Next]_vars
    PROVE  TypeOK'
<1> USE DEF StreamInv
<1>1. ASSUME NEW m \in Mutators, Begin(m) PROVE TypeOK'
  BY <1>1 DEF Begin, Lock, TypeOK, evalVars
<1>2. ASSUME NEW m \in Mutators, Refused(m) \/ InvalidateAndUnlock(m) PROVE TypeOK'
  <2>1. <<>> \in List
    BY DEF List
  <2>2. QED
    BY <1>2, <2>1 DEF Refused, InvalidateAndUnlock, Return, TypeOK, evalVars, history
<1>3. ASSUME NEW m \in Mutators, Store(m) PROVE TypeOK'
  <2>1. exprs' \in List
    BY <1>3, ApplyType DEF Store, Mutex, TypeOK
  <2>2. QED
    BY <1>3, <2>1 DEF Store, TypeOK, evalVars
<1>4. ASSUME NEW r \in Readers, Load(r) PROVE TypeOK'
  BY <1>4 DEF Load, TypeOK, mutVars, Request
<1>5. ASSUME NEW r \in Readers, Hit(r) PROVE TypeOK'
  <2>1. Get(CacheKey(r)) \in Plan
    <3>1. ASSUME NEW i \in 1..Len(snapshot) PROVE snapshot[i].plan \in Plan
      <4>1. snapshot \in Seq(Entry)
        BY DEF IInv, CacheTypeOK
      <4>2. snapshot[i] \in Entry
        BY <3>1, <4>1
      <4>3. QED
        BY <4>2, StreamAssumption DEF Entry
    <3>2. Cached(CacheKey(r))
      BY <1>5 DEF Hit
    <3>3. QED
      BY <3>1, <3>2, HitEntry
  <2>2. QED
    BY <1>5, <2>1 DEF Hit, TypeOK, mutVars, history
<1>6. ASSUME NEW r \in Readers, Build(r) PROVE TypeOK'
  <2>1. BuildPlan(view[r], req[r].indices) \in Plan
    BY <1>6, PlanType, KeyType DEF Build, TypeOK
  <2>2. QED
    BY <1>6, <2>1 DEF Build, TypeOK, mutVars, history
<1>7. ASSUME NEW r \in Readers, SetPlan(r) \/ Fail(r) PROVE TypeOK'
  <2>1. <<>> \in Plan \cup {<<>>}
    OBVIOUS
  <2>2. UNCHANGED <<exprs, mu, mutVars, req, view, results, history>> /\ rpc[r] # "done"
    BY <1>7 DEF SetPlan, Fail
  <2>3. plan' \in [Readers -> Plan \cup {<<>>}]
    BY <1>7, <2>1 DEF SetPlan, Fail, TypeOK
  <2>4. rpc' \in [Readers -> {"idle", "loaded", "missed", "planned", "done"}]
        /\ \A q \in Readers : /\ rpc'[q] # "idle" => rpc[q] # "idle"
                              /\ rpc'[q] # "done" => rpc[q] # "done"
    BY <1>7 DEF SetPlan, Fail, TypeOK
  <2>5. QED
    BY <2>2, <2>3, <2>4 DEF TypeOK, mutVars, history
<1>8. ASSUME NEW r \in Readers, Evaluate(r) PROVE TypeOK'
  <2>1. rpc[r] = "planned" /\ req[r] \in Request /\ req[r].indices \in IndexLists /\ Len(req[r].indices) \in Nat
    BY <1>8, KeyType, StreamAssumption DEF Evaluate, TypeOK
  <2>2. Len(plan[r]) = Len(req[r].indices)
    BY <2>1 DEF Provenance, KnownIn
  <2>3. plan[r] \in Seq(FastExprs \cup {Nil})
    <3>1. plan[r] \in Plan \cup {<<>>}
      BY DEF TypeOK
    <3>2. <<>> \in Seq(FastExprs \cup {Nil})
      OBVIOUS
    <3>3. QED
      BY <3>1, <3>2, PlanElements
  <2>4. \A i \in 1..Len(req[r].indices) : plan[r][i] \in Exprs \cup {Nil}
    BY <2>1, <2>2, <2>3, StreamAssumption
  <2>5. ASSUME NEW i \in 1..Len(req[r].indices), NEW fast \in BOOLEAN PROVE Value(r, i, fast) \in Exprs \cup {Nil}
    BY <2>4 DEF Value, InRange, TypeOK, List
  <2>6. PICK fast \in [1..Len(req[r].indices) -> BOOLEAN] :
          results' = [results EXCEPT ![r] = [i \in 1..Len(req[r].indices) |-> Value(r, i, fast[i])]]
    BY <1>8 DEF Evaluate
  <2>7. [i \in 1..Len(req[r].indices) |-> Value(r, i, fast[i])] \in List
    BY <2>1, <2>5, FunctionIsSeq DEF List
  <2>8. QED
    BY <1>8, <2>6, <2>7 DEF Evaluate, TypeOK, mutVars, history
<1>9. CASE UNCHANGED vars
  BY <1>9 DEF vars, mutVars, evalVars, history, TypeOK
<1>10. QED
  BY <1>1, <1>2, <1>3, <1>4, <1>5, <1>6, <1>7, <1>8, <1>9 DEF Next

LEMMA MutexStep ==
    ASSUME StreamInv, [Next]_vars
    PROVE  Mutex'
<1> USE DEF StreamInv
<1>1. ASSUME NEW m \in Mutators, Begin(m) PROVE Mutex'
  BY <1>1, StreamAssumption DEF Begin, Lock, Mutex, TypeOK
<1>2. ASSUME NEW m \in Mutators, Refused(m) \/ InvalidateAndUnlock(m) PROVE Mutex'
  BY <1>2, StreamAssumption DEF Refused, InvalidateAndUnlock, Return, Mutex, TypeOK
<1>3. ASSUME NEW m \in Mutators, Store(m) PROVE Mutex'
  BY <1>3 DEF Store, Mutex, TypeOK
<1>4. ASSUME NEW r \in Readers, Load(r) \/ Hit(r) \/ Build(r) \/ SetPlan(r) \/ Evaluate(r) \/ Fail(r) PROVE Mutex'
  BY <1>4 DEF Load, Hit, Build, SetPlan, Evaluate, Fail, Mutex, mutVars
<1>5. CASE UNCHANGED vars
  BY <1>5 DEF vars, mutVars, Mutex
<1>6. QED
  BY <1>1, <1>2, <1>3, <1>4, <1>5 DEF Next
-----------------------------------------------------------------------------
(* Where results come from.                                                *)

LEMMA HeldGrows ==
    ASSUME [Next]_vars
    PROVE  held \subseteq held'
  BY DEF Next, vars, history, Begin, Refused, Store, InvalidateAndUnlock, Load, Hit, Build, SetPlan, Evaluate, Fail

\* What has been known stays known.
LEMMA KnownStays ==
    ASSUME NEW h, NEW h2, h \subseteq h2
    PROVE  /\ \A p, l : KnownIn(h, p, l) => KnownIn(h2, p, l)
           /\ \A list : RegisteredIn(h, list) => RegisteredIn(h2, list)
  BY DEF KnownIn, RegisteredIn

\* The plans of the snapshot.
LEMMA SnapshotKnown ==
    ASSUME StreamInv, [Next]_vars
    PROVE  \A i \in 1..Len(snapshot') : KnownIn(held', snapshot'[i].plan, snapshot'[i].key.indices)
<1> USE DEF StreamInv
<1>1. CASE UNCHANGED cacheVars
  <2>1. snapshot' = snapshot /\ held \subseteq held'
    BY <1>1, HeldGrows DEF cacheVars
  <2>2. \A p, l : KnownIn(held, p, l) => KnownIn(held', p, l)
    BY <2>1, KnownStays
  <2>3. QED
    BY <2>1, <2>2 DEF Provenance
<1>2. CASE Invalidate
  BY <1>2 DEF Invalidate
<1>3. ASSUME NEW r \in Readers, rpc[r] = "missed", SetPlan(r), CacheKey(r) \in Keys, plan[r] \in Plans,
             NEW j \in 1..Len(snapshot')
      PROVE  KnownIn(held', snapshot'[j].plan, snapshot'[j].key.indices)
  <2>1. \/ \E i \in 1..Len(snapshot) : snapshot'[j] = snapshot[i]
        \/ snapshot'[j] = [key |-> CacheKey(r), plan |-> plan[r]]
    BY <1>3, SetEntries DEF SetPlan
  <2>2. held' = held
    BY <1>3 DEF SetPlan, history
  <2>3. KnownIn(held, plan[r], req[r].indices) /\ req[r] \in Request
    BY <1>3 DEF Provenance, TypeOK
  <2>4. CacheKey(r).indices = req[r].indices
    BY <2>3, KeyType DEF CacheKey
  <2>5. CASE \E i \in 1..Len(snapshot) : snapshot'[j] = snapshot[i]
    BY <2>2, <2>5 DEF Provenance
  <2>6. CASE snapshot'[j] = [key |-> CacheKey(r), plan |-> plan[r]]
    BY <2>2, <2>3, <2>4, <2>6
  <2>7. QED
    BY <2>1, <2>5, <2>6
<1>4. QED
  BY <1>1, <1>2, <1>3, CacheSteps

\* A plan in hand.
LEMMA PlanKnown ==
    ASSUME StreamInv, [Next]_vars, NEW r \in Readers, rpc'[r] \in {"missed", "planned"}
    PROVE  KnownIn(held', plan'[r], req'[r].indices)
<1> USE DEF StreamInv
<1>1. CASE rpc[r] \in {"missed", "planned"} /\ plan'[r] = plan[r] /\ req'[r] = req[r]
  BY <1>1, HeldGrows, KnownStays DEF Provenance
<1>2. CASE Hit(r)
  <2>1. Cached(CacheKey(r)) /\ plan'[r] = Get(CacheKey(r)) /\ req' = req /\ held' = held /\ req[r] \in Request
    BY <1>2 DEF Hit, TypeOK, history
  <2>2. PICK i \in 1..Len(snapshot) : snapshot[i].key = CacheKey(r) /\ plan'[r] = snapshot[i].plan
    BY <2>1, HitEntry
  <2>3. snapshot[i].key.indices = req[r].indices
    BY <2>1, <2>2, KeyType DEF CacheKey
  <2>4. QED
    BY <2>1, <2>2, <2>3 DEF Provenance
<1>3. CASE Build(r)
  <2>1. plan'[r] = BuildPlan(view[r], req[r].indices) /\ req' = req /\ held' = held /\ req[r] \in Request
    BY <1>3 DEF Build, TypeOK, history
  <2>2. KnownIn(held, BuildPlan(view[r], req[r].indices), req[r].indices)
    BY <2>1, KeyType, KnownFromRegistered DEF Provenance, TypeOK
  <2>3. QED
    BY <2>1, <2>2
<1>4. QED
  <2>1. ASSUME NEW q \in Readers, Load(q) \/ Hit(q) \/ Build(q) \/ SetPlan(q) \/ Evaluate(q) \/ Fail(q), ~Hit(r), ~Build(r)
        PROVE  rpc[r] \in {"missed", "planned"} /\ plan'[r] = plan[r] /\ req'[r] = req[r]
    BY <2>1 DEF Load, Hit, Build, SetPlan, Evaluate, Fail, TypeOK
  <2>2. ASSUME NEW m \in Mutators, Begin(m) \/ Refused(m) \/ Store(m) \/ InvalidateAndUnlock(m)
        PROVE  rpc[r] \in {"missed", "planned"} /\ plan'[r] = plan[r] /\ req'[r] = req[r]
    BY <2>2 DEF Begin, Refused, Store, InvalidateAndUnlock, evalVars
  <2>3. CASE UNCHANGED vars
    BY <1>1, <2>3 DEF vars, evalVars
  <2>4. QED
    BY <1>1, <1>2, <1>3, <2>1, <2>2, <2>3 DEF Next

\* A value of the loop was registered at the index asked for.
LEMMA ValueRegistered ==
    ASSUME StreamInv, NEW r \in Readers, rpc[r] = "planned", NEW i \in 1..Len(req[r].indices), NEW fast \in BOOLEAN,
           Value(r, i, fast) # Nil
    PROVE  <<req[r].indices[i], Value(r, i, fast)>> \in held
<1> USE DEF StreamInv
<1>1. KnownIn(held, plan[r], req[r].indices) /\ RegisteredIn(held, view[r])
  BY DEF Provenance
<1>2. CASE fast /\ plan[r][i] # Nil
  BY <1>1, <1>2 DEF Value, KnownIn
<1>3. CASE ~(fast /\ plan[r][i] # Nil)
  BY <1>1, <1>3 DEF Value, InRange, RegisteredIn
<1>4. QED
  BY <1>2, <1>3

LEMMA ResultsKnown ==
    ASSUME StreamInv, [Next]_vars
    PROVE  NoForeignResult'
<1> USE DEF StreamInv
<1>1. ASSUME NEW r \in Readers, NEW i \in 1..Len(results'[r]), results'[r][i] # Nil,
             results'[r] = results[r], req'[r] = req[r]
      PROVE  <<req'[r].indices[i], results'[r][i]>> \in held'
  BY <1>1, HeldGrows DEF Provenance, NoForeignResult
<1>2. ASSUME NEW q \in Readers, Load(q) PROVE NoForeignResult'
  <2>1. results[q] = <<>> /\ results' = results
    BY <1>2 DEF Load, TypeOK
  <2>2. \A r \in Readers \ {q} : req'[r] = req[r]
    BY <1>2 DEF Load, TypeOK
  <2>3. QED
    BY <1>1, <2>1, <2>2 DEF NoForeignResult
<1>3. ASSUME NEW q \in Readers, Evaluate(q) PROVE NoForeignResult'
  <2>1. PICK fast \in [1..Len(req[q].indices) -> BOOLEAN] :
          results' = [results EXCEPT ![q] = [i \in 1..Len(req[q].indices) |-> Value(q, i, fast[i])]]
    BY <1>3 DEF Evaluate
  <2>2. req' = req /\ rpc[q] = "planned" /\ held' = held /\ \A r \in Readers \ {q} : results'[r] = results[r]
    BY <1>3, <2>1 DEF Evaluate, TypeOK, history
  <2>3. results'[q] = [i \in 1..Len(req[q].indices) |-> Value(q, i, fast[i])]
    BY <2>1 DEF TypeOK
  <2>4. Len(req[q].indices) \in Nat /\ Len(results'[q]) = Len(req[q].indices)
    <3>1. req[q].indices \in IndexLists
      BY <2>2, KeyType DEF TypeOK
    <3>2. Len(req[q].indices) \in Nat
      BY <3>1, StreamAssumption
    <3>3. QED
      BY <2>3, <3>2
  <2>5. ASSUME NEW i \in 1..Len(results'[q]), results'[q][i] # Nil
        PROVE  <<req'[q].indices[i], results'[q][i]>> \in held'
    <3>1. results'[q][i] = Value(q, i, fast[i]) /\ fast[i] \in BOOLEAN /\ i \in 1..Len(req[q].indices)
      BY <2>3, <2>4
    <3>2. QED
      BY <2>2, <2>5, <3>1, ValueRegistered
  <2>6. QED
    BY <1>1, <2>2, <2>5 DEF NoForeignResult
<1>4. CASE UNCHANGED <<results, req>>
  BY <1>1, <1>4 DEF NoForeignResult
<1>5. QED
  BY <1>2, <1>3, <1>4 DEF Next, vars, evalVars, Begin, Refused, Store, InvalidateAndUnlock, Hit, Build, SetPlan, Fail

LEMMA ProvenanceStep ==
    ASSUME StreamInv, [Next]_vars
    PROVE  Provenance'
<1> USE DEF StreamInv
<1>0. \A list : RegisteredIn(held, list) => RegisteredIn(held', list)
  BY HeldGrows, KnownStays
<1>1. RegisteredIn(held', exprs')
  <2>1. CASE \E m \in Mutators : Store(m)
    BY <2>1 DEF Store, RegisteredIn
  <2>2. CASE UNCHANGED exprs
    BY <1>0, <2>2 DEF Provenance
  <2>3. QED
    BY <2>1, <2>2 DEF Next, vars, Begin, Refused, InvalidateAndUnlock, Load, Hit, Build, SetPlan, Evaluate, Fail
<1>2. ASSUME NEW r \in Readers PROVE RegisteredIn(held', view'[r])
  <2>1. view'[r] = view[r] \/ view'[r] = exprs
    BY DEF Next, vars, evalVars, Begin, Refused, Store, InvalidateAndUnlock, Load, Hit, Build, SetPlan, Evaluate, Fail, TypeOK
  <2>2. QED
    BY <1>0, <2>1 DEF Provenance
<1>3. QED
  BY <1>1, <1>2, PlanKnown, SnapshotKnown, ResultsKnown DEF Provenance
-----------------------------------------------------------------------------
(* Calls that no mutation overlaps.                                        *)

\* Inside the critical section no call is calm.
LEMMA BusyIsNotCalm ==
    ASSUME StreamInv, NEW m \in Mutators, mpc[m] \in {"locked", "refused", "stored"}
    PROVE  \A r \in Readers : ~calm[r]
  BY StreamAssumption DEF StreamInv, Mutex, Calm

LEMMA CalmStep ==
    ASSUME StreamInv, [Next]_vars
    PROVE  Calm'
<1> USE DEF StreamInv
<1>1. ASSUME NEW m \in Mutators, Begin(m) PROVE Calm'
  BY <1>1 DEF Begin, Calm, RemovedIsUndefined
<1>2. ASSUME NEW m \in Mutators, Refused(m) \/ Store(m) \/ InvalidateAndUnlock(m) PROVE Calm'
  <2>1. calm' = calm /\ \A r \in Readers : ~calm[r]
    BY <1>2, BusyIsNotCalm DEF Refused, Store, InvalidateAndUnlock, history
  <2>2. QED
    BY <2>1 DEF Calm, RemovedIsUndefined
<1>3. ASSUME NEW q \in Readers, Load(q) PROVE Calm'
  <2>1. exprs' = exprs /\ mu' = mu /\ results' = results /\ results[q] = <<>>
        /\ view'[q] = exprs /\ calm'[q] = (mu = Nil)
    BY <1>3 DEF Load, TypeOK
  <2>2. \A r \in Readers \ {q} : view'[r] = view[r] /\ calm'[r] = calm[r] /\ req'[r] = req[r]
    BY <1>3 DEF Load, TypeOK
  <2>3. \A r \in Readers : calm'[r] => mu' = Nil /\ view'[r] = exprs'
    BY <2>1, <2>2 DEF Calm
  <2>4. ASSUME NEW r \in Readers, calm'[r], NEW i \in 1..Len(results'[r]), At(exprs', req'[r].indices[i]) = Nil
        PROVE  results'[r][i] = Nil
    <3>1. r # q
      BY <2>1
    <3>2. QED
      BY <2>1, <2>2, <2>4, <3>1 DEF Calm, RemovedIsUndefined, At, InRange
  <2>5. QED
    BY <2>3, <2>4 DEF Calm, RemovedIsUndefined, At, InRange
<1>4. ASSUME NEW q \in Readers, Evaluate(q) PROVE Calm'
  <2>1. UNCHANGED <<exprs, mu, req, view, calm>>
    BY <1>4 DEF Evaluate, history
  <2>2. PICK fast \in [1..Len(req[q].indices) -> BOOLEAN] :
          results' = [results EXCEPT ![q] = [i \in 1..Len(req[q].indices) |-> Value(q, i, fast[i])]]
    BY <1>4 DEF Evaluate
  <2>3. results'[q] = [i \in 1..Len(req[q].indices) |-> Value(q, i, fast[i])]
        /\ \A r \in Readers \ {q} : results'[r] = results[r]
    BY <2>2 DEF TypeOK
  <2>4. Len(req[q].indices) \in Nat /\ Len(results'[q]) = Len(req[q].indices)
    <3>1. req[q].indices \in IndexLists
      BY <1>4, KeyType DEF Evaluate, TypeOK
    <3>2. Len(req[q].indices) \in Nat
      BY <3>1, StreamAssumption
    <3>3. QED
      BY <2>3, <3>2
  <2>5. ASSUME calm[q], NEW i \in 1..Len(results'[q]), At(exprs, req[q].indices[i]) = Nil
        PROVE  results'[q][i] = Nil
    <3>1. view[q] = exprs
      BY <2>5 DEF Calm
    <3>2. results'[q][i] = Value(q, i, fast[i])
      BY <2>3, <2>4
    <3>3. QED
      BY <2>5, <3>1, <3>2 DEF Value, At, InRange
  <2>6. \A r \in Readers : calm[r] => \A i \in 1..Len(results'[r]) :
          At(exprs, req[r].indices[i]) = Nil => results'[r][i] = Nil
    <3>1. ASSUME NEW r \in Readers \ {q}, calm[r], NEW i \in 1..Len(results'[r]), At(exprs, req[r].indices[i]) = Nil
          PROVE  results'[r][i] = Nil
      BY <2>3, <3>1 DEF Calm, RemovedIsUndefined
    <3>2. QED
      BY <2>5, <3>1
  <2>7. RemovedIsUndefined'
    BY <2>1, <2>6 DEF RemovedIsUndefined, At, InRange
  <2>8. \A r \in Readers : calm'[r] => mu' = Nil /\ view'[r] = exprs'
    BY <2>1 DEF Calm
  <2>9. QED
    BY <2>7, <2>8 DEF Calm
<1>5. ASSUME UNCHANGED <<exprs, mu, req, view, results, calm>> PROVE Calm'
  BY <1>5 DEF Calm, RemovedIsUndefined, At, InRange
<1>6. QED
  BY <1>1, <1>2, <1>3, <1>4, <1>5 DEF Next, vars, evalVars, history, Hit, Build, SetPlan, Fail
-----------------------------------------------------------------------------
(* Plans and the expressions they were built from.                         *)

LEMMA BuiltFreshStep ==
    ASSUME StreamInv, [Next]_vars
    PROVE  BuiltFresh'
<1> USE DEF StreamInv
<1>0. BuiltFresh
  BY DEF Fresh
<1>1. ASSUME NEW m \in Mutators, Store(m) PROVE BuiltFresh'
  BY <1>0, <1>1 DEF Store, BuiltFresh, evalVars, BuildPlan, InRange
<1>2. ASSUME NEW m \in Mutators, Begin(m) \/ Refused(m) \/ InvalidateAndUnlock(m) PROVE BuiltFresh'
  BY <1>0, <1>2 DEF Begin, Refused, InvalidateAndUnlock, BuiltFresh, evalVars, history, BuildPlan, InRange
<1>3. ASSUME NEW q \in Readers, Load(q) PROVE BuiltFresh'
  <2>1. exprs' = exprs /\ overlapped' = overlapped /\ plan' = plan /\ rpc'[q] = "loaded" /\ view'[q] = exprs
    BY <1>3 DEF Load, TypeOK
  <2>2. \A r \in Readers \ {q} : rpc'[r] = rpc[r] /\ view'[r] = view[r] /\ req'[r] = req[r]
    BY <1>3 DEF Load, TypeOK
  <2>3. ASSUME NEW r \in Readers, rpc'[r] = "missed" PROVE plan'[r] = BuildPlan(view'[r], req'[r].indices)
    BY <1>0, <2>1, <2>2, <2>3 DEF BuiltFresh
  <2>4. ASSUME NEW r \in Readers, ~overlapped', rpc'[r] \in {"loaded", "missed"} PROVE view'[r] = exprs'
    BY <1>0, <2>1, <2>2, <2>4 DEF BuiltFresh
  <2>5. QED
    BY <2>3, <2>4 DEF BuiltFresh, BuildPlan, InRange
<1>4. ASSUME NEW q \in Readers, Build(q) PROVE BuiltFresh'
  <2>1. UNCHANGED <<exprs, overlapped, view, req>>
    BY <1>4 DEF Build, history
  <2>2. rpc[q] = "loaded" /\ plan'[q] = BuildPlan(view[q], req[q].indices)
    BY <1>4 DEF Build, TypeOK
  <2>3. \A r \in Readers \ {q} : rpc'[r] = rpc[r] /\ plan'[r] = plan[r]
    BY <1>4 DEF Build, TypeOK
  <2>4. ASSUME NEW r \in Readers, rpc'[r] = "missed" PROVE plan'[r] = BuildPlan(view'[r], req'[r].indices)
    BY <1>0, <2>1, <2>2, <2>3, <2>4 DEF BuiltFresh
  <2>5. ASSUME NEW r \in Readers, ~overlapped', rpc'[r] \in {"loaded", "missed"} PROVE view'[r] = exprs'
    BY <1>0, <2>1, <2>2, <2>3, <2>5 DEF BuiltFresh
  <2>6. QED
    BY <2>4, <2>5 DEF BuiltFresh, BuildPlan, InRange
<1>5. ASSUME NEW q \in Readers, Hit(q) \/ SetPlan(q) \/ Evaluate(q) \/ Fail(q) PROVE BuiltFresh'
  <2>1. UNCHANGED <<exprs, overlapped, view, req>>
    BY <1>5 DEF Hit, SetPlan, Evaluate, Fail, history
  <2>2. \A r \in Readers : rpc'[r] \in {"loaded", "missed"} => rpc'[r] = rpc[r] /\ plan'[r] = plan[r]
    BY <1>5 DEF Hit, SetPlan, Evaluate, Fail, TypeOK
  <2>3. QED
    BY <1>0, <2>1, <2>2 DEF BuiltFresh, BuildPlan, InRange
<1>6. CASE UNCHANGED vars
  BY <1>0, <1>6 DEF vars, evalVars, history, BuiltFresh, BuildPlan, InRange
<1>7. QED
  BY <1>1, <1>2, <1>3, <1>4, <1>5, <1>6 DEF Next

LEMMA PlansFollowStep ==
    ASSUME StreamInv, [Next]_vars
    PROVE  PlansFollowExpressions'
<1> USE DEF StreamInv
<1>1. ASSUME NEW m \in Mutators, Store(m) PROVE PlansFollowExpressions'
  BY <1>1 DEF Store, PlansFollowExpressions, TypeOK
<1>2. ASSUME NEW m \in Mutators, InvalidateAndUnlock(m) PROVE PlansFollowExpressions'
  BY <1>2 DEF InvalidateAndUnlock, Clear, Invalidate, PlansFollowExpressions
<1>3. ASSUME NEW r \in Readers, SetPlan(r), ~overlapped, \A m \in Mutators : mpc[m] # "stored",
             NEW j \in 1..Len(snapshot')
      PROVE  snapshot'[j].plan = BuildPlan(exprs, snapshot'[j].key.indices)
  <2>1. rpc[r] = "missed" /\ Set(CacheKey(r), plan[r]) /\ req[r] \in Request
    BY <1>3 DEF SetPlan, TypeOK
  <2>2. view[r] = exprs /\ plan[r] = BuildPlan(exprs, req[r].indices)
    BY <1>3, <2>1 DEF Fresh, BuiltFresh
  <2>3. CacheKey(r) \in Keys /\ CacheKey(r).indices = req[r].indices /\ plan[r] \in Plans
    BY <2>1, <2>2, KeyType, PlanType DEF CacheKey, TypeOK
  <2>4. \/ \E i \in 1..Len(snapshot) : snapshot'[j] = snapshot[i]
        \/ snapshot'[j] = [key |-> CacheKey(r), plan |-> plan[r]]
    BY <1>3, <2>1, <2>3, SetEntries
  <2>5. CASE \E i \in 1..Len(snapshot) : snapshot'[j] = snapshot[i]
    BY <1>3, <2>5 DEF Fresh, PlansFollowExpressions
  <2>6. CASE snapshot'[j] = [key |-> CacheKey(r), plan |-> plan[r]]
    BY <2>2, <2>3, <2>6
  <2>7. QED
    BY <2>4, <2>5, <2>6
<1>4. ASSUME NEW r \in Readers, SetPlan(r) PROVE PlansFollowExpressions'
  <2>1. UNCHANGED <<exprs, mpc, overlapped>>
    BY <1>4 DEF SetPlan, mutVars, history
  <2>2. QED
    BY <1>3, <1>4, <2>1 DEF PlansFollowExpressions, BuildPlan, InRange
<1>5. ASSUME UNCHANGED <<exprs, snapshot, overlapped>>,
             \A m \in Mutators : mpc[m] = "stored" => mpc'[m] = "stored"
      PROVE  PlansFollowExpressions'
  BY <1>5 DEF Fresh, PlansFollowExpressions, BuildPlan, InRange
<1>6. ASSUME NEW m \in Mutators, Begin(m) \/ Refused(m) PROVE PlansFollowExpressions'
  <2>1. UNCHANGED <<exprs, snapshot, overlapped>>
    BY <1>6 DEF Begin, Refused, cacheVars, history
  <2>2. \A k \in Mutators : mpc[k] = "stored" => mpc'[k] = "stored"
    BY <1>6 DEF Begin, Refused, Return, TypeOK
  <2>3. QED
    BY <1>5, <2>1, <2>2
<1>7. ASSUME NEW r \in Readers, Load(r) \/ Hit(r) \/ Build(r) \/ Evaluate(r) \/ Fail(r) PROVE PlansFollowExpressions'
  BY <1>5, <1>7 DEF Load, Hit, Build, Evaluate, Fail, cacheVars, mutVars, history
<1>8. CASE UNCHANGED vars
  BY <1>5, <1>8 DEF vars, cacheVars, mutVars, history
<1>9. QED
  BY <1>1, <1>2, <1>4, <1>6, <1>7, <1>8 DEF Next
-----------------------------------------------------------------------------
(* The theorems.                                                           *)

LEMMA Initially ==
    ASSUME Init
    PROVE  StreamInv
<1> USE DEF Init
<1>1. IInv
  BY InitInv
<1>2. TypeOK
  <2>1. <<>> \in List /\ exprs \in List
    BY StreamAssumption DEF List
  <2>2. results \in [Readers -> List] /\ view \in [Readers -> List] /\ old \in [Mutators -> List]
    BY <2>1
  <2>3. QED
    BY <2>1, <2>2 DEF TypeOK
<1>3. Mutex
  BY DEF Mutex
<1>4. Provenance
  <2>1. Len(snapshot) = 0
    BY DEF CacheInit
  <2>2. RegisteredIn(held, exprs)
    BY DEF RegisteredIn
  <2>3. \A r \in Readers : RegisteredIn(held, view[r])
    BY DEF RegisteredIn
  <2>4. QED
    BY <2>1, <2>2, <2>3 DEF Provenance, NoForeignResult
<1>5. Calm
  BY DEF Calm, RemovedIsUndefined
<1>6. Fresh
  BY DEF Fresh, BuiltFresh, PlansFollowExpressions, CacheInit
<1>7. QED
  BY <1>1, <1>2, <1>3, <1>4, <1>5, <1>6 DEF StreamInv

LEMMA Step ==
    ASSUME StreamInv, [Next]_vars
    PROVE  StreamInv' /\ [CacheNext]_cacheVars
<1>1. IInv' /\ [CacheNext]_cacheVars
  BY CacheInvStep DEF StreamInv
<1>2. TypeOK' /\ Mutex' /\ Provenance' /\ Calm' /\ Fresh'
  BY TypeStep, MutexStep, ProvenanceStep, CalmStep, BuiltFreshStep, PlansFollowStep DEF Fresh
<1>3. QED
  BY <1>1, <1>2 DEF StreamInv

\* The invariant holds in every reachable state.
THEOREM StreamInvariant == Spec => []StreamInv
<1>1. Init => StreamInv
  BY Initially
<1>2. StreamInv /\ [Next]_vars => StreamInv'
  BY Step
<1>3. QED
  BY <1>1, <1>2, PTL DEF Spec

\* Every result comes from an expression registered at the index asked for:
\* the plan cache of stream.go never answers for other indices.
THEOREM ResultsAreTheirOwn == Spec => []NoForeignResult
<1>1. StreamInv => NoForeignResult
  BY DEF StreamInv, Provenance
<1>2. QED
  BY <1>1, StreamInvariant, PTL

\* EvalMany gives nothing for an expression removed before it started,
\* whatever plan it finds.
THEOREM RemovalsAreSeen == Spec => []RemovedIsUndefined
<1>1. StreamInv => RemovedIsUndefined
  BY DEF StreamInv, Calm
<1>2. QED
  BY <1>1, StreamInvariant, PTL

\* A cached plan is stale only between a store and its invalidation, or after
\* a store overlapped an EvalMany that built a plan.
THEOREM StalenessNeedsOverlap == Spec => []PlansFollowExpressions
<1>1. StreamInv => PlansFollowExpressions
  BY DEF StreamInv, Fresh
<1>2. QED
  BY <1>1, StreamInvariant, PTL

\* Add, Replace, Remove and Reset apply to what is published: the mutex makes
\* their load and store one step, and no update is lost.
THEOREM NoUpdateIsLost == Spec => UpdatesAreAtomic
<1> DEFINE Atomic == exprs' # exprs => \E m \in Mutators : /\ mpc[m] = "locked"
                                                           /\ exprs' = Apply(op[m], exprs)
<1>1. StreamInv /\ [Next]_vars => [Atomic]_vars
  <2> SUFFICES ASSUME StreamInv, [Next]_vars, exprs' # exprs
               PROVE  \E m \in Mutators : mpc[m] = "locked" /\ exprs' = Apply(op[m], exprs)
    OBVIOUS
  <2>1. PICK m \in Mutators : Store(m)
    BY DEF Next, vars, Begin, Refused, InvalidateAndUnlock, Load, Hit, Build, SetPlan, Evaluate, Fail
  <2>2. QED
    BY <2>1 DEF Store, StreamInv, Mutex
<1>2. QED
  BY <1>1, StreamInvariant, PTL DEF Spec, UpdatesAreAtomic

\* Whatever the goroutines do, the cache they share takes only the steps of the
\* cache: what is proved of it holds in the evaluator.
THEOREM EvaluatorUsesTheCache == Spec => CacheSpec
<1>1. Init => CacheInit
  BY DEF Init
<1>2. StreamInv /\ [Next]_vars => [CacheNext]_cacheVars
  BY Step
<1>3. QED
  BY <1>1, <1>2, StreamInvariant, PTL DEF Spec, CacheSpec

\* In particular it is a FIFO cache for them.
THEOREM StreamCacheIsFIFO == Spec => ImplementsFIFO
  BY EvaluatorUsesTheCache, CacheIsFIFO, PTL
=============================================================================
