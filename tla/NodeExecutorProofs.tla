-------------------------- MODULE NodeExecutorProofs --------------------------
(***************************************************************************)
(* Proofs about the worker pool, for any number of calls, workers, slots   *)
(* and callers of close(): its invariants, its action properties, that it  *)
(* implements the bounded executor, and that it comes to rest.             *)
(***************************************************************************)
EXTENDS NodeExecutor, DataFacts, FiniteSetTheorems

Distinct(q) == \A i, j \in 1..Len(q) : q[i] = q[j] => i = j

\* Appending a new element to a queue.
LEMMA AppendElement ==
    ASSUME NEW S, NEW q \in Seq(S), NEW t \in S, t \notin Elements(q), Distinct(q)
    PROVE  /\ Append(q, t) \in Seq(S) /\ Distinct(Append(q, t))
           /\ Elements(Append(q, t)) = Elements(q) \cup {t}
<1>1. /\ Append(q, t) \in Seq(S) /\ Len(Append(q, t)) = Len(q) + 1 /\ Len(q) \in Nat
      /\ \A i \in 1..Len(q) : Append(q, t)[i] = q[i]
      /\ Append(q, t)[Len(q) + 1] = t
  BY PlainAppend
<1> DEFINE r == Append(q, t)
<1> HIDE DEF r
<1>2. Distinct(r)
  BY <1>1 DEF Distinct, Elements, r
<1>3. \A x : x \in Elements(r) <=> x \in Elements(q) \cup {t}
  <2>1. ASSUME NEW x, x \in Elements(r) PROVE x \in Elements(q) \cup {t}
    BY <1>1, <2>1 DEF Elements, r
  <2>2. ASSUME NEW x, x \in Elements(q) PROVE x \in Elements(r)
    <3>1. PICK i \in 1..Len(q) : q[i] = x
      BY <2>2 DEF Elements
    <3>2. i \in 1..Len(r) /\ r[i] = x
      BY <1>1, <3>1 DEF r
    <3> QED  BY <3>2 DEF Elements
  <2>3. t \in Elements(r)
    <3>1. Len(q) + 1 \in 1..Len(r) /\ r[Len(q) + 1] = t
      BY <1>1 DEF r
    <3> QED  BY <3>1 DEF Elements
  <2> QED  BY <2>1, <2>2, <2>3
<1> QED
  BY <1>1, <1>2, <1>3 DEF r

\* Taking the head off a queue.
LEMMA TailElements ==
    ASSUME NEW S, NEW q \in Seq(S), q # <<>>, Distinct(q)
    PROVE  /\ Tail(q) \in Seq(S) /\ Distinct(Tail(q))
           /\ Head(q) \in S /\ Head(q) \in Elements(q)
           /\ Elements(Tail(q)) = Elements(q) \ {Head(q)}
<1>1. /\ Tail(q) \in Seq(S) /\ Len(Tail(q)) = Len(q) - 1 /\ Len(q) \in Nat /\ Len(q) > 0
      /\ \A i \in 1..Len(Tail(q)) : Tail(q)[i] = q[i + 1]
      /\ Head(q) = q[1] /\ Head(q) \in S
  BY HeadTailProperties
<1> DEFINE r == Tail(q)
           h == Head(q)
<1> HIDE DEF r, h
<1>2. Distinct(r)
  BY <1>1 DEF Distinct, r
<1>3. h \in Elements(q)
  BY <1>1 DEF Elements, h
<1>4. \A x : x \in Elements(r) <=> x \in Elements(q) \ {h}
  <2>1. ASSUME NEW x, x \in Elements(r) PROVE x \in Elements(q) \ {h}
    <3>1. PICK i \in 1..Len(r) : r[i] = x
      BY <2>1 DEF Elements
    <3>2. i + 1 \in 1..Len(q) /\ q[i + 1] = x /\ q[1] = h /\ 1 \in 1..Len(q) /\ i + 1 # 1
      BY <1>1, <3>1 DEF r, h
    <3> QED  BY <3>2 DEF Elements, Distinct
  <2>2. ASSUME NEW x, x \in Elements(q), x # h PROVE x \in Elements(r)
    <3>1. PICK i \in 1..Len(q) : q[i] = x
      BY <2>2 DEF Elements
    <3>2. i - 1 \in 1..Len(r) /\ r[i - 1] = x
      BY <1>1, <2>2, <3>1 DEF r, h
    <3> QED  BY <3>2 DEF Elements
  <2> QED  BY <2>1, <2>2
<1> QED
  BY <1>1, <1>2, <1>3, <1>4 DEF r, h

\* settle() takes its task, and nothing else, out of the queue.
LEMMA WithoutElement ==
    ASSUME NEW S, NEW q \in Seq(S), NEW t, Distinct(q)
    PROVE  /\ Without(q, t) \in Seq(S) /\ Distinct(Without(q, t))
           /\ Elements(Without(q, t)) = Elements(q) \ {t}
<1>1. CASE t \notin Elements(q)
  BY <1>1 DEF Without
<1>2. CASE t \in Elements(q)
  <2> DEFINE k == CHOOSE i \in 1..Len(q) : q[i] = t
             r == Without(q, t)
             front == SubSeq(q, 1, k - 1)
             back == SubSeq(q, k + 1, Len(q))
  <2>1. k \in 1..Len(q) /\ q[k] = t /\ Len(q) \in Nat
    BY <1>2 DEF Elements
  <2> HIDE DEF k
  <2>2. r = front \o back
    BY <1>2 DEF Without, RemoveAt, k
  <2>3. \A i \in 1..Len(q) : q[i] \in S
    OBVIOUS
  <2>4. /\ front \in Seq(S) /\ Len(front) = k - 1
        /\ \A i \in 1..(k - 1) : front[i] = q[i]
    <3>1. 1 \in Int /\ k - 1 \in Int /\ \A i \in 1..(k - 1) : q[i] \in S
      BY <2>1, <2>3
    <3>2. /\ front \in Seq(S) /\ Len(front) = IF 1 <= k - 1 THEN (k - 1) - 1 + 1 ELSE 0
          /\ \A i \in 1..((k - 1) - 1 + 1) : front[i] = q[1 + i - 1]
      BY <3>1, SubSeqProperties
    <3> QED  BY <2>1, <3>2
  <2>5. /\ back \in Seq(S) /\ Len(back) = Len(q) - k
        /\ \A i \in 1..(Len(q) - k) : back[i] = q[k + i]
    <3>1. k + 1 \in Int /\ Len(q) \in Int /\ \A i \in (k + 1)..Len(q) : q[i] \in S
      BY <2>1, <2>3
    <3>2. /\ back \in Seq(S) /\ Len(back) = IF k + 1 <= Len(q) THEN Len(q) - (k + 1) + 1 ELSE 0
          /\ \A i \in 1..(Len(q) - (k + 1) + 1) : back[i] = q[(k + 1) + i - 1]
      BY <3>1, SubSeqProperties
    <3> QED  BY <2>1, <3>2
  <2> HIDE DEF front, back, r
  <2>6. /\ r \in Seq(S) /\ Len(r) = Len(q) - 1
        /\ \A i \in 1..(Len(q) - 1) : r[i] = IF i < k THEN q[i] ELSE q[i + 1]
    <3>1. /\ r \in Seq(S) /\ Len(r) = Len(front) + Len(back)
          /\ \A i \in 1..(Len(front) + Len(back)) :
               r[i] = IF i <= Len(front) THEN front[i] ELSE back[i - Len(front)]
      BY <2>2, <2>4, <2>5, ConcatProperties
    <3>2. Len(front) + Len(back) = Len(q) - 1
      BY <2>1, <2>4, <2>5
    <3>3. ASSUME NEW i \in 1..(Len(q) - 1)
          PROVE  r[i] = IF i < k THEN q[i] ELSE q[i + 1]
      <4>1. CASE i < k
        BY <2>1, <2>4, <3>1, <3>2, <4>1
      <4>2. CASE ~(i < k)
        <5>1. i - (k - 1) \in 1..(Len(q) - k) /\ k + (i - (k - 1)) = i + 1
          BY <2>1, <4>2
        <5>2. r[i] = back[i - (k - 1)]
          BY <2>1, <2>4, <3>1, <3>2, <4>2
        <5>3. back[i - (k - 1)] = q[i + 1]
          BY <2>5, <5>1
        <5> QED  BY <4>2, <5>2, <5>3
      <4> QED  BY <4>1, <4>2
    <3> QED  BY <3>1, <3>2, <3>3
  <2>7. Distinct(r)
    <3> SUFFICES ASSUME NEW i \in 1..Len(r), NEW j \in 1..Len(r), r[i] = r[j]
                 PROVE  i = j
      BY DEF Distinct
    <3> DEFINE up(m) == IF m < k THEN m ELSE m + 1
    <3>1. up(i) \in 1..Len(q) /\ up(j) \in 1..Len(q) /\ q[up(i)] = q[up(j)]
      BY <2>1, <2>6
    <3>2. up(i) = up(j)
      BY <3>1 DEF Distinct
    <3> QED  BY <2>1, <2>6, <3>2
  <2>8. \A x : x \in Elements(r) <=> x \in Elements(q) \ {t}
    <3>1. ASSUME NEW x, x \in Elements(r) PROVE x \in Elements(q) \ {t}
      <4>1. PICK i \in 1..Len(r) : r[i] = x
        BY <3>1 DEF Elements
      <4> DEFINE up == IF i < k THEN i ELSE i + 1
      <4>2. up \in 1..Len(q) /\ q[up] = x /\ up # k
        BY <2>1, <2>6, <4>1
      <4> QED  BY <2>1, <4>2 DEF Elements, Distinct
    <3>2. ASSUME NEW x, x \in Elements(q), x # t PROVE x \in Elements(r)
      <4>1. PICK i \in 1..Len(q) : q[i] = x
        BY <3>2 DEF Elements
      <4> DEFINE down == IF i < k THEN i ELSE i - 1
      <4>2. down \in 1..Len(r) /\ r[down] = x
        BY <2>1, <2>6, <3>2, <4>1
      <4> QED  BY <4>2 DEF Elements
    <3> QED  BY <3>1, <3>2
  <2> QED  BY <2>6, <2>7, <2>8 DEF r
<1> QED
  BY <1>1, <1>2

-----------------------------------------------------------------------------
\* What the properties need to be inductive.
Finite == IsFiniteSet(slots) /\ IsFiniteSet(tasks)

\* TaskAccounting, element by element.
Accounting ==
    /\ \A t \in Tasks : t \in tasks <=> t \in Elements(queue) \/ \E s \in slots : running[s] = t
    /\ \A t \in tasks : outcome[t] = "none"
    /\ Distinct(queue)
    /\ \A s \in slots : running[s] \notin Elements(queue)
    /\ \A r, s \in slots : running[r] = running[s] /\ running[r] # None => r = s

\* A slot id that names no slot carries nothing over to its next use.
Unused == \A s \in SlotIds : s \notin slots =>
              running[s] = None /\ retiring[s] = "none" /\ mail[s].id = None

\* Only a living thread evaluates.
Working == \A s \in SlotIds : job[s] # None => thread[s] = "alive"

\* From the first close() on nothing is queued and no slot is added, so a
\* close() still awaits every slot there is.
Closing ==
    /\ closed => queue = <<>>
    /\ \A c \in Closers : /\ closer[c] # "idle" => closed /\ slots \subseteq awaiting[c]
                          /\ closer[c] = "resolved" => awaiting[c] = {}

IInv == /\ TypeOK /\ Finite /\ Accounting /\ PoolBound /\ PendingBound /\ NoAbandonedWork
        /\ RepliesMatch /\ WorkConserving /\ Unused /\ Working /\ Closing

\* The element-wise form is the one TLC checks.
LEMMA AccountingIsTaskAccounting == TypeOK /\ Accounting => TaskAccounting
<1> SUFFICES ASSUME TypeOK, Accounting PROVE TaskAccounting
  OBVIOUS
<1>1. \A t : t \in tasks <=> t \in Elements(queue) \cup ({running[s] : s \in slots} \ {None})
  BY NoneAssumption DEF TypeOK, Accounting, Elements
<1> QED
  BY <1>1 DEF Accounting, TaskAccounting, Distinct

\* A set below its bound has room for one more element.
LEMMA OneMore ==
    ASSUME NEW S, IsFiniteSet(S), NEW x, NEW m \in Nat, Cardinality(S) < m
    PROVE  IsFiniteSet(S \cup {x}) /\ Cardinality(S \cup {x}) <= m
<1>1. Cardinality(S) \in Nat
  BY FS_CardinalityType
<1>2. /\ IsFiniteSet(S \cup {x})
      /\ Cardinality(S \cup {x}) = IF x \in S THEN Cardinality(S) ELSE Cardinality(S) + 1
  BY FS_AddElement
<1> QED
  BY <1>1, <1>2

\* A part of a bounded set is within the bound.
LEMMA NoMore ==
    ASSUME NEW S, IsFiniteSet(S), NEW T \in SUBSET S, NEW m \in Nat, Cardinality(S) <= m
    PROVE  IsFiniteSet(T) /\ Cardinality(T) <= m
  BY FS_Subset, FS_CardinalityType

\* The initial state satisfies the inductive invariant.
LEMMA InitInv == Init => IInv
<1> SUFFICES ASSUME Init PROVE IInv
  OBVIOUS
<1> USE DEF Init
<1>1. TypeOK
  <2>1. mail \in [SlotIds -> [id : Tasks \cup {None}, reply : Replies \cup {"none"}]]
    BY DEF NoMail
  <2>2. queue \in Seq(Tasks) /\ outcome \in [Tasks -> Outcomes \cup {"none"}]
    OBVIOUS
  <2>3. retiring \in [SlotIds -> Reasons \cup {"none"}]
    OBVIOUS
  <2> QED  BY <2>1, <2>2, <2>3 DEF TypeOK
<1>2. Finite /\ PendingBound
  BY FS_EmptySet, MaxPendingAssumption DEF Finite, PendingBound
<1>3. PoolBound
  BY FS_EmptySet, MaxWorkersAssumption DEF PoolBound
<1>4. Accounting
  BY DEF Accounting, Elements, Distinct
<1>5. NoAbandonedWork /\ RepliesMatch /\ WorkConserving /\ Unused /\ Working /\ Closing
  BY DEF NoAbandonedWork, RepliesMatch, WorkConserving, Unused, Working, Closing, NoMail
<1> QED
  BY <1>1, <1>2, <1>3, <1>4, <1>5 DEF IInv
-----------------------------------------------------------------------------
\* evaluate() admits a call.
LEMMA AcceptInv ==
    ASSUME IInv, NEW t \in Tasks, Accept(t)
    PROVE  IInv'
<1> USE DEF IInv, Accept, Admits, threadVars, closeVars
<1>1. /\ Append(queue, t) \in Seq(Tasks) /\ Distinct(Append(queue, t))
      /\ Elements(Append(queue, t)) = Elements(queue) \cup {t}
  BY AppendElement DEF TypeOK, Accounting
<1>2. TypeOK'
  BY <1>1 DEF TypeOK
<1>3. Finite' /\ PendingBound'
  <2>1. IsFiniteSet(tasks \cup {t}) /\ Cardinality(tasks \cup {t}) <= MaxPending
    BY OneMore, MaxPendingAssumption DEF Finite
  <2> QED  BY <2>1 DEF Finite, PendingBound
<1>4. Accounting'
  BY <1>1 DEF Accounting, TypeOK
<1>5. PoolBound' /\ NoAbandonedWork' /\ RepliesMatch' /\ Unused' /\ Working'
  BY DEF PoolBound, NoAbandonedWork, RepliesMatch, Unused, Working
<1>6. WorkConserving' /\ Closing'
  BY DEF WorkConserving, Closing
<1> QED
  BY <1>2, <1>3, <1>4, <1>5, <1>6

\* evaluate() refuses a call.
LEMMA RefuseInv ==
    ASSUME IInv, NEW t \in Tasks, Refuse(t)
    PROVE  IInv'
<1> USE DEF IInv, Refuse, threadVars, closeVars
<1>1. TypeOK'
  BY DEF TypeOK, Outcomes
<1>2. Accounting'
  BY DEF Accounting, TypeOK
<1>3. /\ Finite' /\ PendingBound' /\ PoolBound' /\ NoAbandonedWork' /\ RepliesMatch'
      /\ Unused' /\ Working'
  BY DEF Finite, PendingBound, PoolBound, NoAbandonedWork, RepliesMatch, Unused, Working
<1>4. WorkConserving' /\ Closing'
  BY DEF WorkConserving, Closing
<1> QED
  BY <1>1, <1>2, <1>3, <1>4

\* Settling a task that no slot runs keeps the books.
LEMMA SettleQueued ==
    ASSUME IInv, NEW t \in tasks, NEW how \in Outcomes,
           \A s \in slots : running[s] # t, Settle(t, how),
           UNCHANGED <<closed, slots, running, retiring, threadVars, closeVars>>,
           pc' = "drain"
    PROVE  IInv'
<1> USE DEF IInv, Settle, threadVars, closeVars
<1>1. /\ queue' \in Seq(Tasks) /\ Distinct(queue')
      /\ Elements(queue') = Elements(queue) \ {t}
  BY WithoutElement DEF TypeOK, Accounting
<1>2. TypeOK'
  BY <1>1 DEF TypeOK
<1>3. Finite' /\ PendingBound'
  <2>1. IsFiniteSet(tasks \ {t}) /\ Cardinality(tasks \ {t}) <= MaxPending
    BY NoMore, MaxPendingAssumption DEF Finite, PendingBound
  <2> QED  BY <2>1 DEF Finite, PendingBound
<1>4. Accounting'
  BY <1>1 DEF Accounting, TypeOK
<1>5. PoolBound' /\ NoAbandonedWork' /\ RepliesMatch' /\ Unused' /\ Working'
  BY DEF PoolBound, NoAbandonedWork, RepliesMatch, Unused, Working, TypeOK
<1>6. WorkConserving' /\ Closing'
  <2>1. closed => queue' = <<>>
    BY DEF Closing, Without, Elements
  <2> QED  BY <2>1 DEF WorkConserving, Closing
<1> QED
  BY <1>2, <1>3, <1>4, <1>5, <1>6

\* Retiring slots touches neither the queue nor the tasks.
LEMMA RetireInv ==
    ASSUME IInv, NEW S \in SUBSET slots, NEW why \in Reasons, Retire(S, why),
           event' \in [SlotIds -> {"none", "error", "exit"}],
           UNCHANGED <<pc, closed, queue, tasks, outcome, slots, running, thread, job, closeVars>>
    PROVE  IInv'
<1> USE DEF IInv, Retire, closeVars
<1>1. TypeOK'
  BY DEF TypeOK, NoMail
<1>2. /\ Finite' /\ PendingBound' /\ PoolBound' /\ NoAbandonedWork' /\ Working'
  BY DEF Finite, PendingBound, PoolBound, NoAbandonedWork, Working
<1>3. Accounting'
  BY DEF Accounting
<1>4. RepliesMatch' /\ Unused'
  BY DEF RepliesMatch, Unused, NoMail, TypeOK
<1>5. WorkConserving' /\ Closing'
  BY DEF WorkConserving, Closing, TypeOK, Reasons
<1> QED
  BY <1>1, <1>2, <1>3, <1>4, <1>5

\* The timer or the abort listener of a pending task.
LEMMA CancelInv ==
    ASSUME IInv, NEW t \in Tasks, NEW why \in Cancellations, Cancel(t, why)
    PROVE  IInv'
<1>1. t \in tasks /\ why \in Reasons /\ why \in Outcomes
  BY DEF Cancel, MayCancel, Reasons, Outcomes
<1>2. CASE CancelQueued(t, why)
  BY <1>1, <1>2, SettleQueued DEF CancelQueued
<1>3. CASE CancelRunning(t, why)
  <2>1. PICK s \in slots : running[s] = t /\ Retire({s}, why)
    BY <1>3 DEF CancelRunning
  <2>2. event' \in [SlotIds -> {"none", "error", "exit"}]
    BY <1>3 DEF CancelRunning, IInv, TypeOK
  <2>3. {s} \in SUBSET slots /\ pc' = pc
    BY <1>3 DEF Cancel, MayCancel, CancelRunning
  <2> QED  BY <1>1, <1>3, <2>1, <2>2, <2>3, RetireInv DEF CancelRunning
<1> QED
  BY <1>2, <1>3 DEF Cancel, MayCancel

\* A lifecycle event of a worker thread.
LEMMA HandleEventInv ==
    ASSUME IInv, NEW s \in SlotIds, HandleEvent(s)
    PROVE  IInv'
<1>1. {s} \in SUBSET slots /\ "crash" \in Reasons /\ Retire({s}, "crash")
  BY DEF HandleEvent, Reasons
<1>2. event' \in [SlotIds -> {"none", "error", "exit"}]
  BY DEF HandleEvent, IInv, TypeOK
<1> QED
  BY <1>1, <1>2, RetireInv DEF HandleEvent

\* close(): what is queued settles, every slot is retired.
LEMMA CloseInv ==
    ASSUME IInv, NEW c \in Closers, Close(c)
    PROVE  IInv'
<1> USE DEF IInv, Close, Retire
<1>1. TypeOK'
  <2>1. /\ queue' \in Seq(Tasks) /\ tasks' \subseteq Tasks
        /\ outcome' \in [Tasks -> Outcomes \cup {"none"}]
    BY DEF TypeOK, Outcomes, Reasons
  <2>2. /\ retiring' \in [SlotIds -> Reasons \cup {"none"}]
        /\ mail' \in [SlotIds -> [id : Tasks \cup {None}, reply : Replies \cup {"none"}]]
    BY DEF TypeOK, NoMail, Reasons
  <2> QED  BY <2>1, <2>2 DEF TypeOK
<1>2. Finite' /\ PendingBound'
  <2>1. /\ IsFiniteSet(tasks \ Elements(queue))
        /\ Cardinality(tasks \ Elements(queue)) <= MaxPending
    BY NoMore, MaxPendingAssumption DEF Finite, PendingBound
  <2> QED  BY <2>1 DEF Finite, PendingBound
<1>3. Accounting'
  BY DEF Accounting, Elements, Distinct, TypeOK
<1>4. PoolBound' /\ NoAbandonedWork' /\ Working'
  BY DEF PoolBound, NoAbandonedWork, Working, Accounting
<1>5. RepliesMatch' /\ Unused'
  BY DEF RepliesMatch, Unused, NoMail, TypeOK
<1>6. WorkConserving' /\ Closing'
  BY DEF WorkConserving, Closing, TypeOK
<1> QED
  BY <1>1, <1>2, <1>3, <1>4, <1>5, <1>6

\* Steps that change neither the queue, the tasks nor the slots.
LEMMA CloseResolvesInv ==
    ASSUME IInv, NEW c \in Closers, CloseResolves(c)
    PROVE  IInv'
<1> USE DEF IInv, CloseResolves, MayResolve, hostVars, threadVars
<1>1. TypeOK' /\ Closing'
  BY DEF TypeOK, Closing
<1>2. Finite' /\ PendingBound' /\ PoolBound' /\ NoAbandonedWork' /\ Working' /\ Accounting'
  BY DEF Finite, PendingBound, PoolBound, NoAbandonedWork, Working, Accounting
<1>3. RepliesMatch' /\ Unused' /\ WorkConserving'
  BY DEF RepliesMatch, Unused, WorkConserving
<1> QED
  BY <1>1, <1>2, <1>3

LEMMA DrainStopInv ==
    ASSUME IInv, DrainStop
    PROVE  IInv'
<1> USE DEF IInv, DrainStop, hostVars, threadVars, closeVars
<1>1. TypeOK' /\ Closing'
  BY DEF TypeOK, Closing
<1>2. Finite' /\ PendingBound' /\ PoolBound' /\ NoAbandonedWork' /\ Working' /\ Accounting'
  BY DEF Finite, PendingBound, PoolBound, NoAbandonedWork, Working, Accounting
<1>3. RepliesMatch' /\ Unused'
  BY DEF RepliesMatch, Unused
<1>4. WorkConserving'
  <2> SUFFICES ASSUME queue # <<>>
               PROVE  /\ ~closed /\ Cardinality(slots) >= MaxWorkers
                      /\ \A s \in slots : running[s] # None \/ retiring[s] # "none"
    BY DEF WorkConserving
  <2>1. ~closed /\ MayAssign
    BY DEF Closing, MayAssign
  <2>2. \A s \in SlotIds : ~Idle(s)
    BY <2>1
  <2>3. ~(Cardinality(slots) < MaxWorkers)
    BY <2>1, <2>2 DEF MaySpawn
  <2>4. Cardinality(slots) \in Nat /\ MaxWorkers \in Nat
    BY FS_CardinalityType, MaxWorkersAssumption DEF Finite
  <2> QED  BY <2>1, <2>2, <2>3, <2>4 DEF Idle, TypeOK
<1> QED
  BY <1>1, <1>2, <1>3, <1>4
-----------------------------------------------------------------------------
\* drain() binds the head of the queue to a slot that is free, or is new.
LEMMA AssignInv ==
    ASSUME IInv, NEW s \in SlotIds, MayAssign, Assign(s),
           running[s] = None, retiring[s] = "none",
           slots' = slots \cup {s}, IsFiniteSet(slots'), Cardinality(slots') <= MaxWorkers,
           thread' \in [SlotIds -> {"off", "alive", "dead"}], thread'[s] # "off",
           \A r \in SlotIds : r # s => thread'[r] = thread[r],
           UNCHANGED <<pc, closed, tasks, outcome, event, closeVars>>
    PROVE  IInv'
<1> DEFINE h == Head(queue)
<1>1. /\ queue' \in Seq(Tasks) /\ Distinct(queue') /\ h \in Tasks /\ h \in Elements(queue)
      /\ Elements(queue') = Elements(queue) \ {h}
  BY TailElements DEF IInv, TypeOK, Accounting, MayAssign, Assign
<1>2. h \in tasks /\ h # None /\ running' = [running EXCEPT ![s] = h]
  BY <1>1, NoneAssumption DEF IInv, Accounting, Assign
<1>3. job[s] = None /\ mail[s].id = None
  BY NoneAssumption DEF IInv, NoAbandonedWork, RepliesMatch, Unused, TypeOK
<1>4. /\ \A r \in SlotIds : r # s => job'[r] = job[r] /\ mail'[r] = mail[r] /\ retiring'[r] = retiring[r]
      /\ job'[s] = None \/ (job'[s] = h /\ thread'[s] = "alive")
      /\ mail'[s].id = None
      /\ job' \in [SlotIds -> Tasks \cup {None}]
      /\ mail' \in [SlotIds -> [id : Tasks \cup {None}, reply : Replies \cup {"none"}]]
      /\ retiring' \in [SlotIds -> Reasons \cup {"none"}]
  <2>1. CASE /\ job' = [job EXCEPT ![s] = IF thread'[s] = "alive" THEN h ELSE None]
             /\ UNCHANGED <<retiring, mail>>
    BY <1>1, <1>3, <2>1 DEF IInv, TypeOK
  <2>2. CASE Retire({s}, "clone") /\ UNCHANGED job
    BY <1>3, <2>2 DEF IInv, TypeOK, Retire, NoMail, Reasons
  <2> QED  BY <2>1, <2>2 DEF Assign
<1> HIDE DEF h
<1>5. TypeOK'
  BY <1>1, <1>2, <1>4 DEF IInv, TypeOK, closeVars
<1>6. Finite' /\ PendingBound'
  BY DEF IInv, Finite, PendingBound
<1>7. Accounting'
  <2>1. \A t \in Tasks : t \in tasks' <=> t \in Elements(queue') \/ \E r \in slots' : running'[r] = t
    BY <1>1, <1>2, NoneAssumption DEF IInv, TypeOK, Accounting
  <2>2. \A r \in slots' : running'[r] \notin Elements(queue')
    BY <1>1, <1>2 DEF IInv, TypeOK, Accounting
  <2>3. \A r, q \in slots' : running'[r] = running'[q] /\ running'[r] # None => r = q
    BY <1>1, <1>2 DEF IInv, TypeOK, Accounting
  <2> QED  BY <1>1, <2>1, <2>2, <2>3 DEF IInv, Accounting
<1>8. PoolBound'
  BY DEF IInv, PoolBound, TypeOK
<1>9. NoAbandonedWork' /\ Working'
  BY <1>2, <1>4 DEF IInv, NoAbandonedWork, Working, TypeOK
<1>10. RepliesMatch' /\ Unused'
  BY <1>2, <1>4 DEF IInv, RepliesMatch, Unused, TypeOK
<1>11. WorkConserving' /\ Closing'
  BY DEF IInv, WorkConserving, Closing, MayAssign, closeVars
<1> QED
  BY <1>5, <1>6, <1>7, <1>8, <1>9, <1>10, <1>11 DEF IInv

LEMMA DrainReuseInv ==
    ASSUME IInv, NEW s \in SlotIds, DrainReuse(s)
    PROVE  IInv'
<1>1. /\ s \in slots /\ running[s] = None /\ retiring[s] = "none"
      /\ MayAssign /\ Assign(s) /\ slots' = slots /\ thread' = thread
      /\ UNCHANGED <<pc, closed, tasks, outcome, event, closeVars>>
  BY DEF DrainReuse, Idle
<1>2. slots' = slots \cup {s} /\ thread[s] # "off"
  BY <1>1 DEF IInv, PoolBound
<1>3. IsFiniteSet(slots') /\ Cardinality(slots') <= MaxWorkers
  BY <1>1 DEF IInv, Finite, PoolBound
<1>4. thread' \in [SlotIds -> {"off", "alive", "dead"}]
  BY <1>1 DEF IInv, TypeOK
<1> QED
  BY <1>1, <1>2, <1>3, <1>4, AssignInv

LEMMA DrainSpawnInv ==
    ASSUME IInv, NEW s \in SlotIds, DrainSpawn(s)
    PROVE  IInv'
<1>1. /\ s \notin slots /\ MaySpawn /\ MayAssign /\ Assign(s)
      /\ slots' = slots \cup {s} /\ thread' = [thread EXCEPT ![s] = "alive"]
      /\ UNCHANGED <<pc, closed, tasks, outcome, event, closeVars>>
  BY DEF DrainSpawn
<1>2. running[s] = None /\ retiring[s] = "none"
  BY <1>1 DEF IInv, Unused
<1>3. IsFiniteSet(slots \cup {s}) /\ Cardinality(slots \cup {s}) <= MaxWorkers
  BY <1>1, OneMore, MaxWorkersAssumption DEF IInv, Finite, MaySpawn
<1>4. /\ thread' \in [SlotIds -> {"off", "alive", "dead"}] /\ thread'[s] # "off"
      /\ \A r \in SlotIds : r # s => thread'[r] = thread[r]
  BY <1>1 DEF IInv, TypeOK
<1> QED
  BY <1>1, <1>2, <1>3, <1>4, AssignInv

\* No worker can be started: the head of the queue settles.
LEMMA DrainSpawnFailsInv ==
    ASSUME IInv, DrainSpawnFails
    PROVE  IInv'
<1>1. Head(queue) \in Elements(queue) /\ Head(queue) \in Tasks
  BY TailElements DEF IInv, TypeOK, Accounting, MayAssign, DrainSpawnFails
<1>2. PICK t \in tasks : t = Head(queue)
  BY <1>1 DEF IInv, Accounting
<1>3. \A s \in slots : running[s] # t
  BY <1>1, <1>2 DEF IInv, Accounting
<1>4. Settle(t, "spawn") /\ "spawn" \in Outcomes
  BY <1>2 DEF DrainSpawnFails, Settle, Outcomes
<1>5. UNCHANGED <<closed, slots, running, retiring, threadVars, closeVars>> /\ pc' = "drain"
  BY DEF DrainSpawnFails, MayAssign
<1> QED
  BY <1>2, <1>3, <1>4, <1>5, SettleQueued

\* A reply is dispatched.
LEMMA HandleMessageInv ==
    ASSUME IInv, NEW s \in SlotIds, HandleMessage(s)
    PROVE  IInv'
<1> DEFINE t == running[s]
<1>1. /\ s \in slots /\ t = mail[s].id /\ t # None /\ t \in Tasks /\ t \in tasks
      /\ t \notin Elements(queue) /\ job[s] = None
  BY DEF HandleMessage, IInv, TypeOK, Accounting, RepliesMatch
<1>2. queue' = queue /\ tasks' = tasks \ {t}
  BY <1>1 DEF HandleMessage, Settle, Without
<1>3. outcome' = [outcome EXCEPT ![t] = mail[s].reply]
  BY <1>1 DEF HandleMessage, Settle
<1>4. /\ running' = [running EXCEPT ![s] = None] /\ mail' = [mail EXCEPT ![s] = NoMail]
      /\ pc' = "drain"
      /\ UNCHANGED <<closed, slots, retiring, thread, job, event, closer, awaiting>>
  BY DEF HandleMessage, closeVars
<1> HIDE DEF t
<1>5. TypeOK'
  BY <1>1, <1>2, <1>3, <1>4 DEF IInv, TypeOK, NoMail, Outcomes
<1>6. Finite' /\ PendingBound'
  <2>1. IsFiniteSet(tasks \ {t}) /\ Cardinality(tasks \ {t}) <= MaxPending
    BY NoMore, MaxPendingAssumption DEF IInv, Finite, PendingBound
  <2> QED  BY <1>2, <1>4, <2>1 DEF IInv, Finite, PendingBound
<1>7. Accounting'
  <2>1. \A u \in Tasks :
          u \in tasks' <=> u \in Elements(queue') \/ \E r \in slots' : running'[r] = u
    <3>1. \A r \in slots : r # s => running[r] # t
      BY <1>1 DEF IInv, Accounting, t
    <3> QED  BY <1>1, <1>2, <1>4, <3>1, NoneAssumption DEF IInv, Accounting, TypeOK, t
  <2>2. (\A u \in tasks' : outcome'[u] = "none") /\ Distinct(queue')
    BY <1>2, <1>3 DEF IInv, Accounting, TypeOK
  <2>3. \A r \in slots' : running'[r] \notin Elements(queue')
    BY <1>2, <1>4, NoneAssumption DEF IInv, Accounting, TypeOK, Elements
  <2>4. \A r, q \in slots' : running'[r] = running'[q] /\ running'[r] # None => r = q
    BY <1>4 DEF IInv, Accounting, TypeOK
  <2> QED  BY <2>1, <2>2, <2>3, <2>4 DEF Accounting
<1>8. PoolBound' /\ NoAbandonedWork' /\ Working'
  BY <1>1, <1>2, <1>4 DEF IInv, PoolBound, NoAbandonedWork, Working, Accounting, TypeOK, t
<1>9. RepliesMatch' /\ Unused' /\ WorkConserving' /\ Closing'
  BY <1>2, <1>4 DEF IInv, RepliesMatch, Unused, NoMail, WorkConserving, Closing, TypeOK
<1> QED
  BY <1>5, <1>6, <1>7, <1>8, <1>9 DEF IInv

\* A thread has exited: its slot goes, and the task it ran settles.
LEMMA RetireEndsInv ==
    ASSUME IInv, NEW s \in SlotIds, RetireEnds(s)
    PROVE  IInv'
<1> DEFINE t == running[s]
<1>1. /\ s \in slots /\ thread[s] = "dead" /\ job[s] = None
      /\ t \in Tasks \cup {None} /\ (t # None => t \in tasks) /\ t \notin Elements(queue)
      /\ retiring[s] \in Reasons
  BY DEF RetireEnds, MayEnd, IInv, TypeOK, Accounting, Working
<1>2. /\ queue' = queue /\ tasks' = tasks \ {t}
      /\ outcome' = IF t = None THEN outcome ELSE [outcome EXCEPT ![t] = retiring[s]]
  BY <1>1, NoneAssumption DEF RetireEnds, MayEnd, SettleOf, Settle, Without, IInv, TypeOK
<1>3. /\ slots' = slots \ {s} /\ running' = [running EXCEPT ![s] = None]
      /\ retiring' = [retiring EXCEPT ![s] = "none"] /\ event' = [event EXCEPT ![s] = "none"]
      /\ mail' = [mail EXCEPT ![s] = NoMail] /\ thread' = [thread EXCEPT ![s] = "off"]
      /\ awaiting' = [c \in Closers |-> awaiting[c] \ {s}]
      /\ pc' = "drain" /\ UNCHANGED <<closed, job, closer>>
  BY DEF RetireEnds, MayEnd
<1> HIDE DEF t
<1>4. TypeOK'
  <2>1. outcome' \in [Tasks -> Outcomes \cup {"none"}]
    BY <1>1, <1>2 DEF IInv, TypeOK, Outcomes
  <2>2. mail' \in [SlotIds -> [id : Tasks \cup {None}, reply : Replies \cup {"none"}]]
    BY <1>3 DEF IInv, TypeOK, NoMail
  <2> QED  BY <1>2, <1>3, <2>1, <2>2 DEF IInv, TypeOK
<1>5. Finite' /\ PendingBound'
  <2>1. IsFiniteSet(tasks \ {t}) /\ Cardinality(tasks \ {t}) <= MaxPending
    BY NoMore, MaxPendingAssumption DEF IInv, Finite, PendingBound
  <2>2. IsFiniteSet(slots \ {s})
    BY FS_RemoveElement DEF IInv, Finite
  <2> QED  BY <1>2, <1>3, <2>1, <2>2 DEF Finite, PendingBound
<1>6. Accounting'
  <2>1. \A u \in Tasks :
          u \in tasks' <=> u \in Elements(queue') \/ \E r \in slots' : running'[r] = u
    <3>1. \A r \in slots : r # s /\ t # None => running[r] # t
      BY <1>1 DEF IInv, Accounting, t
    <3> QED  BY <1>1, <1>2, <1>3, <3>1, NoneAssumption DEF IInv, Accounting, TypeOK, t
  <2>2. (\A u \in tasks' : outcome'[u] = "none") /\ Distinct(queue')
    BY <1>1, <1>2 DEF IInv, Accounting, TypeOK
  <2>3. \A r \in slots' : running'[r] \notin Elements(queue')
    BY <1>2, <1>3 DEF IInv, Accounting, TypeOK
  <2>4. \A r, q \in slots' : running'[r] = running'[q] /\ running'[r] # None => r = q
    BY <1>3 DEF IInv, Accounting, TypeOK
  <2> QED  BY <2>1, <2>2, <2>3, <2>4 DEF Accounting
<1>7. PoolBound'
  <2>1. Cardinality(slots \ {s}) <= MaxWorkers
    BY NoMore, MaxWorkersAssumption DEF IInv, Finite, PoolBound
  <2>2. {r \in SlotIds : thread'[r] # "off"} = slots'
    BY <1>3 DEF IInv, TypeOK, PoolBound
  <2> QED  BY <1>3, <2>1, <2>2 DEF PoolBound
<1>8. NoAbandonedWork' /\ Working'
  BY <1>1, <1>2, <1>3 DEF IInv, NoAbandonedWork, Working, Accounting, TypeOK, t
<1>9. RepliesMatch' /\ Unused'
  BY <1>3 DEF IInv, RepliesMatch, Unused, NoMail, TypeOK
<1>10. WorkConserving' /\ Closing'
  BY <1>2, <1>3 DEF IInv, WorkConserving, Closing, TypeOK
<1> QED
  BY <1>4, <1>5, <1>6, <1>7, <1>8, <1>9, <1>10 DEF IInv

\* A worker thread answers.
LEMMA ReplyInv ==
    ASSUME IInv, NEW s \in SlotIds, Reply(s)
    PROVE  IInv'
<1>1. /\ job[s] \in Tasks /\ job[s] # None /\ s \in slots /\ running[s] = job[s]
      /\ job' = [job EXCEPT ![s] = None]
      /\ UNCHANGED <<pc, closed, queue, tasks, outcome, slots, running, retiring,
                     thread, event, closer, awaiting>>
  BY DEF Reply, IInv, NoAbandonedWork, TypeOK, hostVars, closeVars
<1>2. PICK r \in Replies :
         mail' = IF retiring[s] = "none" THEN [mail EXCEPT ![s] = [id |-> job[s], reply |-> r]]
                                         ELSE mail
  BY <1>1 DEF Reply, Replies
<1>3. TypeOK'
  <2>1. mail' \in [SlotIds -> [id : Tasks \cup {None}, reply : Replies \cup {"none"}]]
    BY <1>1, <1>2 DEF IInv, TypeOK
  <2> QED  BY <1>1, <2>1 DEF IInv, TypeOK
<1>4. Finite' /\ PendingBound' /\ PoolBound' /\ Accounting' /\ WorkConserving' /\ Closing'
  BY <1>1 DEF IInv, Finite, PendingBound, PoolBound, Accounting, WorkConserving, Closing
<1>5. NoAbandonedWork' /\ Working'
  BY <1>1 DEF IInv, NoAbandonedWork, Working, TypeOK
<1>6. RepliesMatch' /\ Unused'
  BY <1>1, <1>2 DEF IInv, RepliesMatch, Unused, TypeOK
<1> QED
  BY <1>3, <1>4, <1>5, <1>6 DEF IInv

\* A worker thread dies or is stopped: it evaluates nothing any more.
LEMMA DeathInv ==
    ASSUME IInv, NEW s \in SlotIds, Crash(s) \/ Stop(s)
    PROVE  IInv'
<1>1. /\ thread[s] = "alive" /\ thread' = [thread EXCEPT ![s] = "dead"]
      /\ job' = [job EXCEPT ![s] = None]
      /\ event' \in [SlotIds -> {"none", "error", "exit"}]
      /\ UNCHANGED <<pc, closed, queue, tasks, outcome, slots, running, retiring,
                     mail, closer, awaiting>>
  BY DEF Crash, Stop, MayStop, IInv, TypeOK, hostVars, closeVars
<1>2. TypeOK'
  BY <1>1 DEF IInv, TypeOK
<1>3. Finite' /\ PendingBound' /\ Accounting' /\ WorkConserving' /\ Closing' /\ Unused'
  BY <1>1 DEF IInv, Finite, PendingBound, Accounting, WorkConserving, Closing, Unused
<1>4. PoolBound'
  BY <1>1 DEF IInv, TypeOK, PoolBound
<1>5. NoAbandonedWork' /\ Working' /\ RepliesMatch'
  BY <1>1 DEF IInv, NoAbandonedWork, Working, RepliesMatch, TypeOK
<1> QED
  BY <1>2, <1>3, <1>4, <1>5 DEF IInv

\* Every step, and every stutter, keeps the inductive invariant.
LEMMA NextInv == IInv /\ [Next]_vars => IInv'
<1> SUFFICES ASSUME IInv, [Next]_vars PROVE IInv'
  OBVIOUS
<1>1. CASE UNCHANGED vars
  BY <1>1
  DEF vars, hostVars, threadVars, closeVars, IInv, TypeOK, Finite, Accounting, PoolBound, PendingBound,
      NoAbandonedWork, RepliesMatch, WorkConserving, Unused, Working, Closing
<1>2. CASE DrainStep
  BY <1>2, DrainReuseInv, DrainSpawnInv, DrainSpawnFailsInv, DrainStopInv DEF DrainStep
<1>3. CASE \E t \in Tasks : Accept(t) \/ Refuse(t)
  BY <1>3, AcceptInv, RefuseInv
<1>4. CASE \E t \in Tasks, why \in Cancellations : Cancel(t, why)
  BY <1>4, CancelInv
<1>5. CASE \E c \in Closers : Close(c) \/ CloseResolves(c)
  BY <1>5, CloseInv, CloseResolvesInv
<1>6. CASE \E s \in SlotIds : \/ HandleMessage(s) \/ HandleEvent(s) \/ RetireEnds(s)
                              \/ Reply(s) \/ Crash(s) \/ Stop(s)
  BY <1>6, HandleMessageInv, HandleEventInv, RetireEndsInv, ReplyInv, DeathInv
<1> QED
  BY <1>1, <1>2, <1>3, <1>4, <1>5, <1>6 DEF Next

\* The inductive invariant holds in every reachable state.
THEOREM InductiveInvariant == Spec => []IInv
  BY InitInv, NextInv, PTL DEF Spec
-----------------------------------------------------------------------------
(* What the pool promises                                                  *)

\* Every variable of the pool keeps its type.
THEOREM TypeCorrect == Spec => []TypeOK
  BY InductiveInvariant, PTL DEF IInv

\* Every pending call is in exactly one place: the queue or one slot.
THEOREM TasksAccounted == Spec => []TaskAccounting
<1>1. IInv => TaskAccounting
  BY AccountingIsTaskAccounting DEF IInv
<1> QED
  BY <1>1, InductiveInvariant, PTL

\* No more threads exist than the option "workers" allows.
THEOREM PoolIsBounded == Spec => []PoolBound
  BY InductiveInvariant, PTL DEF IInv

\* No more calls are pending than the option "maxPending" allows.
THEOREM PendingIsBounded == Spec => []PendingBound
  BY InductiveInvariant, PTL DEF IInv

\* A thread only evaluates the pending task of its slot.
THEOREM NoWorkAbandoned == Spec => []NoAbandonedWork
  BY InductiveInvariant, PTL DEF IInv

\* The message handler never meets a reply to another task.
THEOREM RepliesAlwaysMatch == Spec => []RepliesMatch
  BY InductiveInvariant, PTL DEF IInv

\* A queued call waits only while the pool is full and occupied.
THEOREM AlwaysWorkConserving == Spec => []WorkConserving
  BY InductiveInvariant, PTL DEF IInv

\* Nothing is left once a close() has resolved.
THEOREM CloseFinal == Spec => []CloseIsFinal
<1>1. IInv => CloseIsFinal
  <2> SUFFICES ASSUME IInv, NEW c \in Closers, closer[c] = "resolved"
               PROVE  slots = {} /\ tasks = {} /\ \A s \in SlotIds : thread[s] = "off"
    BY DEF CloseIsFinal
  <2>1. slots = {} /\ queue = <<>>
    BY DEF IInv, Closing
  <2>2. Elements(queue) = {}
    BY <2>1 DEF Elements
  <2>3. tasks = {}
    BY <2>1, <2>2 DEF IInv, TypeOK, Accounting
  <2>4. \A s \in SlotIds : thread[s] = "off"
    BY <2>1 DEF IInv, PoolBound
  <2> QED  BY <2>1, <2>3, <2>4
<1> QED
  BY <1>1, InductiveInvariant, PTL
-----------------------------------------------------------------------------
\* t has settled in this step, it had not settled before, and where t was
\* running on a retiring slot, the slot's thread is gone and its reason stands.
SettledProperly(t) ==
    /\ outcome[t] = "none"
    /\ \A s \in slots : running[s] = t /\ retiring[s] # "none" =>
          thread[s] = "dead" /\ outcome'[t] = retiring[s]

\* Whatever settles a call, it does so properly.
LEMMA SettlesProperly ==
    ASSUME IInv, Next, NEW t \in Tasks, outcome'[t] # outcome[t]
    PROVE  SettledProperly(t)
<1>1. ASSUME t \in tasks, \A s \in slots : running[s] # t PROVE SettledProperly(t)
  BY <1>1 DEF IInv, Accounting, SettledProperly
<1>2. ASSUME t \in Elements(queue) PROVE SettledProperly(t)
  BY <1>1, <1>2 DEF IInv, Accounting
<1>3. CASE DrainStep
  <2>1. DrainSpawnFails
    BY <1>3 DEF DrainStep, DrainReuse, DrainSpawn, DrainStop, hostVars
  <2>2. t = Head(queue)
    BY <2>1 DEF DrainSpawnFails, Settle, IInv, TypeOK
  <2>3. Head(queue) \in Elements(queue)
    BY <2>1, TailElements DEF DrainSpawnFails, MayAssign, IInv, TypeOK, Accounting
  <2> QED  BY <1>2, <2>2, <2>3
<1>4. ASSUME NEW u \in Tasks, Accept(u) \/ Refuse(u) PROVE SettledProperly(t)
  <2>1. outcome[t] = "none" /\ t \notin tasks
    BY <1>4 DEF Accept, Refuse, IInv, TypeOK
  <2> QED  BY <2>1 DEF IInv, Accounting, SettledProperly
<1>5. ASSUME NEW u \in Tasks, NEW why \in Cancellations, Cancel(u, why)
      PROVE  SettledProperly(t)
  <2>1. u \in tasks /\ CancelQueued(u, why)
    BY <1>5 DEF Cancel, MayCancel, CancelRunning
  <2>2. t = u
    BY <2>1 DEF CancelQueued, Settle, IInv, TypeOK
  <2> QED  BY <1>1, <2>1, <2>2 DEF CancelQueued
<1>6. ASSUME NEW c \in Closers, Close(c) \/ CloseResolves(c) PROVE SettledProperly(t)
  BY <1>2, <1>6 DEF Close, CloseResolves, MayResolve, hostVars
<1>7. ASSUME NEW s \in SlotIds, HandleMessage(s) PROVE SettledProperly(t)
  <2>1. s \in slots /\ t = running[s] /\ retiring[s] = "none" /\ t \in tasks
    BY <1>7 DEF HandleMessage, Settle, IInv, TypeOK, Accounting
  <2> QED  BY <2>1, NoneAssumption DEF IInv, Accounting, SettledProperly
<1>8. ASSUME NEW s \in SlotIds, RetireEnds(s) PROVE SettledProperly(t)
  <2>1. /\ s \in slots /\ thread[s] = "dead" /\ t = running[s] /\ t \in tasks
        /\ outcome'[t] = retiring[s]
    BY <1>8 DEF RetireEnds, MayEnd, SettleOf, Settle, IInv, TypeOK, Accounting
  <2> QED  BY <2>1, NoneAssumption DEF IInv, Accounting, SettledProperly
<1>9. ASSUME NEW s \in SlotIds, HandleEvent(s) \/ Reply(s) \/ Crash(s) \/ Stop(s)
      PROVE  SettledProperly(t)
  BY <1>9 DEF HandleEvent, Reply, Crash, Stop, hostVars
<1> QED
  BY <1>3, <1>4, <1>5, <1>6, <1>7, <1>8, <1>9 DEF Next

\* A slot being retired keeps its reason as long as it is a slot.
LEMMA ReasonStands ==
    ASSUME IInv, Next, NEW s \in slots \cap slots', retiring[s] # "none"
    PROVE  retiring'[s] = retiring[s]
<1>1. \A S, why : Retire(S, why) => retiring'[s] = retiring[s]
  BY DEF Retire, IInv, TypeOK
<1>2. CASE DrainStep
  BY <1>1, <1>2
  DEF DrainStep, DrainReuse, DrainSpawn, DrainSpawnFails, DrainStop, Assign, Idle, hostVars
<1>3. ASSUME NEW t \in Tasks,
             Accept(t) \/ Refuse(t) \/ \E why \in Cancellations : Cancel(t, why)
      PROVE  retiring'[s] = retiring[s]
  BY <1>1, <1>3 DEF Accept, Refuse, Cancel, MayCancel, CancelQueued, CancelRunning
<1>4. ASSUME NEW c \in Closers, Close(c) \/ CloseResolves(c)
      PROVE  retiring'[s] = retiring[s]
  BY <1>1, <1>4 DEF Close, CloseResolves, MayResolve, hostVars
<1>5. ASSUME NEW r \in SlotIds, RetireEnds(r) PROVE retiring'[s] = retiring[s]
  BY <1>5 DEF RetireEnds, MayEnd, IInv, TypeOK
<1>6. ASSUME NEW r \in SlotIds,
             HandleMessage(r) \/ HandleEvent(r) \/ Reply(r) \/ Crash(r) \/ Stop(r)
      PROVE  retiring'[s] = retiring[s]
  BY <1>1, <1>6 DEF HandleMessage, HandleEvent, Reply, Crash, Stop, hostVars
<1> QED
  BY <1>2, <1>3, <1>4, <1>5, <1>6 DEF Next

\* A promise settles once.
THEOREM PromisesSettleOnce == Spec => SettlesOnce
<1>1. ASSUME IInv, Next, NEW t \in Tasks, outcome[t] # "none"
      PROVE  outcome'[t] = outcome[t]
  BY <1>1, SettlesProperly DEF SettledProperly
<1>2. IInv /\ [Next]_vars => [\A t \in Tasks : outcome[t] # "none" => outcome'[t] = outcome[t]]_vars
  BY <1>1
<1> QED
  BY <1>2, InductiveInvariant, PTL DEF Spec, SettlesOnce

\* The first reason to retire a worker is the one its task settles with, and
\* only once its thread is gone.
THEOREM FirstReasonDoesStand == Spec => FirstReasonStands
<1> DEFINE A ==
      /\ \A s \in slots : \A t \in tasks :
           running[s] = t /\ retiring[s] # "none" /\ outcome'[t] # "none" =>
               thread[s] = "dead" /\ outcome'[t] = retiring[s]
      /\ \A s \in slots \cap slots' : retiring[s] # "none" => retiring'[s] = retiring[s]
<1>1. ASSUME IInv, Next, NEW s \in slots, NEW t \in tasks,
             running[s] = t, retiring[s] # "none", outcome'[t] # "none"
      PROVE  thread[s] = "dead" /\ outcome'[t] = retiring[s]
  <2>1. t \in Tasks /\ outcome'[t] # outcome[t]
    BY <1>1 DEF IInv, TypeOK, Accounting
  <2> QED  BY <1>1, <2>1, SettlesProperly DEF SettledProperly
<1>2. IInv /\ [Next]_vars => [A]_vars
  BY <1>1, ReasonStands
<1> QED
  BY <1>2, InductiveInvariant, PTL DEF Spec, FirstReasonStands

-----------------------------------------------------------------------------
(* The worker pool implements the bounded executor: every handler, every   *)
(* turn of drain() and every step of a thread is one step of the executor, *)
(* or none.                                                                *)

\* A reply under way says something.
RepliesSay == \A s \in SlotIds : mail[s].id # None => mail[s].reply \in Replies

LEMMA RepliesSayStep ==
    ASSUME TypeOK, RepliesSay, [Next]_vars
    PROVE  RepliesSay'
<1>1. \A S, why : Retire(S, why) => RepliesSay'
  BY DEF Retire, RepliesSay, NoMail
<1>2. ASSUME UNCHANGED mail PROVE RepliesSay'
  BY <1>2 DEF RepliesSay
<1>3. CASE DrainStep
  BY <1>1, <1>2, <1>3
  DEF DrainStep, DrainReuse, DrainSpawn, DrainSpawnFails, DrainStop, Assign, threadVars
<1>4. ASSUME NEW t \in Tasks, Accept(t) \/ Refuse(t) \/ \E why \in Cancellations : Cancel(t, why)
      PROVE  RepliesSay'
  BY <1>1, <1>2, <1>4 DEF Accept, Refuse, Cancel, MayCancel, CancelQueued, CancelRunning, threadVars
<1>5. ASSUME NEW c \in Closers, Close(c) \/ CloseResolves(c) PROVE RepliesSay'
  BY <1>1, <1>2, <1>5 DEF Close, CloseResolves, MayResolve, threadVars
<1>6. ASSUME NEW s \in SlotIds, HandleMessage(s) \/ RetireEnds(s) PROVE RepliesSay'
  BY SMTT(40), <1>6 DEF HandleMessage, RetireEnds, MayEnd, RepliesSay, NoMail, TypeOK
<1>7. ASSUME NEW s \in SlotIds, Reply(s) PROVE RepliesSay'
  BY <1>7 DEF Reply, RepliesSay, TypeOK
<1>8. ASSUME NEW s \in SlotIds, HandleEvent(s) \/ Crash(s) \/ Stop(s) PROVE RepliesSay'
  BY <1>1, <1>2, <1>8 DEF HandleEvent, Crash, Stop
<1>9. QED
  BY <1>2, <1>3, <1>4, <1>5, <1>6, <1>7, <1>8 DEF Next, vars, threadVars

LEMMA RepliesAlwaysSay == Spec => []RepliesSay
<1>1. Init => RepliesSay
  BY DEF Init, RepliesSay, NoMail
<1>2. RepliesSay /\ IInv /\ [Next]_vars => RepliesSay'
  BY RepliesSayStep DEF IInv
<1> QED
  BY <1>1, <1>2, InductiveInvariant, PTL DEF Spec
-----------------------------------------------------------------------------
(* The executor's view.                                                    *)

\* What the pool's books say of a call.
LEMMA StatusFacts ==
    ASSUME IInv, NEW t \in Tasks
    PROVE  /\ Status[t] = "new" <=> outcome[t] = "none" /\ t \notin tasks
           /\ Status[t] = "waiting" <=> t \in Elements(queue)
           /\ Status[t] = "running" <=> \E s \in slots : running[s] = t
           /\ Status[t] = "finished" <=> outcome[t] # "none"
           /\ Status[t] \in {"waiting", "running"} <=> t \in tasks
  BY DEF IInv, Accounting, Status

\* One call changes its status.
LEMMA OneChange ==
    ASSUME NEW t \in Tasks, NEW what, Status'[t] = what,
           \A u \in Tasks \ {t} : Status'[u] = Status[u]
    PROVE  Status' = [Status EXCEPT ![t] = what]
<1>1. Status = [u \in Tasks |-> Status[u]] /\ Status' = [u \in Tasks |-> Status'[u]]
  BY DEF Status
<1>2. QED
  BY <1>1

\* Both modules count with the same operator.
LEMMA SameCount ==
    ASSUME NEW S PROVE Executor!Cardinality(S) = Cardinality(S)
  BY DEF Executor!Cardinality, Cardinality

LEMMA PendingIsTasks ==
    ASSUME IInv PROVE Executor!Pending = tasks
  BY StatusFacts DEF Executor!Pending, Executor!With, IInv, TypeOK

\* Settling a pending call finishes it, if nothing else about slots and calls
\* changes.
LEMMA SettleFinishes ==
    ASSUME IInv, NEW t \in tasks, NEW how, how # "none", Settle(t, how), closed' = closed,
           \A u \in Tasks \ {t} : (\E s \in slots' : running'[s] = u) <=> (\E s \in slots : running[s] = u)
    PROVE  Executor!Finish(t)
<1>1. t \in Tasks /\ Status[t] \in {"waiting", "running"}
  BY StatusFacts DEF IInv, TypeOK
<1>2. outcome'[t] = how /\ \A u \in Tasks \ {t} : outcome'[u] = outcome[u] /\ (u \in tasks' <=> u \in tasks)
  BY <1>1 DEF Settle, IInv, TypeOK
<1>3. Status'[t] = "finished" /\ \A u \in Tasks \ {t} : Status'[u] = Status[u]
  BY <1>1, <1>2 DEF Status
<1>4. Status' = [Status EXCEPT ![t] = "finished"]
  BY <1>1, <1>3, OneChange
<1>5. QED
  BY <1>1, <1>4 DEF Executor!Finish
-----------------------------------------------------------------------------
(* Steps.                                                                  *)

LEMMA AcceptSubmits ==
    ASSUME IInv, NEW t \in Tasks, Accept(t)
    PROVE  Executor!Submit(t)
<1>1. Status[t] = "new" /\ Cardinality(Executor!Pending) < MaxPending /\ ~closed /\ closed' = closed
  BY StatusFacts, PendingIsTasks DEF Accept, Admits
<1>2. Status'[t] = "waiting" /\ \A u \in Tasks \ {t} : Status'[u] = Status[u]
  <2>1. outcome[t] = "none" /\ ~\E s \in slots : running[s] = t
    BY <1>1, StatusFacts
  <2>2. tasks' = tasks \cup {t} /\ UNCHANGED <<outcome, slots, running>>
    BY DEF Accept
  <2>3. QED
    BY <2>1, <2>2 DEF Status
<1>3. Status' = [Status EXCEPT ![t] = "waiting"]
  BY <1>2, OneChange
<1>4. QED
  BY <1>1, <1>3, SameCount DEF Executor!Submit

LEMMA RefuseRejects ==
    ASSUME IInv, NEW t \in Tasks, Refuse(t)
    PROVE  Executor!Reject(t)
<1>1. Status[t] = "new" /\ closed' = closed
  BY StatusFacts DEF Refuse
<1>2. Status'[t] = "finished" /\ \A u \in Tasks \ {t} : Status'[u] = Status[u]
  BY DEF Refuse, Status, IInv, TypeOK
<1>3. Status' = [Status EXCEPT ![t] = "finished"]
  BY <1>2, OneChange
<1>4. QED
  BY <1>1, <1>3 DEF Executor!Reject

LEMMA CancelFinishes ==
    ASSUME IInv, NEW t \in Tasks, NEW why \in Cancellations, Cancel(t, why)
    PROVE  Executor!Finish(t) \/ UNCHANGED <<Status, ~closed>>
<1>1. CASE CancelQueued(t, why)
  BY <1>1, SettleFinishes DEF Cancel, MayCancel, CancelQueued, Cancellations
<1>2. CASE CancelRunning(t, why)
  BY <1>2 DEF CancelRunning, Status
<1>3. QED
  BY <1>1, <1>2 DEF Cancel, MayCancel

LEMMA CloseShutsDown ==
    ASSUME IInv, NEW c \in Closers, Close(c)
    PROVE  Executor!Shutdown
<1>1. ASSUME NEW t \in Tasks
      PROVE  Status'[t] = IF Status[t] = "waiting" THEN "finished" ELSE Status[t]
  <2>1. CASE t \in Elements(queue)
    <3>1. outcome'[t] = "closed"
      BY <2>1 DEF Close
    <3>2. QED
      BY <2>1, <3>1, StatusFacts DEF Status
  <2>2. CASE t \notin Elements(queue)
    <3>1. outcome'[t] = outcome[t] /\ (t \in tasks' <=> t \in tasks) /\ slots' = slots /\ running' = running
      BY <2>2 DEF Close
    <3>2. Status'[t] = Status[t] /\ Status[t] # "waiting"
      BY <2>2, <3>1, StatusFacts DEF Status
    <3>3. QED
      BY <3>2
  <2>3. QED
    BY <2>1, <2>2
<1>2. Status' = [t \in Tasks |-> IF Status[t] = "waiting" THEN "finished" ELSE Status[t]]
  BY <1>1 DEF Status
<1>3. QED
  BY <1>2 DEF Close, Executor!Shutdown

\* Fewer calls run than there are slots apart from one that runs none.
LEMMA RoomToRun ==
    ASSUME IInv, NEW s, Cardinality(slots \ {s}) < MaxWorkers, s \in slots => running[s] = None
    PROVE  Cardinality(Executor!With("running")) < MaxWorkers
<1> DEFINE R == Executor!With("running")
           host == [t \in R |-> CHOOSE x \in slots : running[x] = t]
<1>1. ASSUME NEW t \in R
      PROVE  host[t] \in slots \ {s} /\ running[host[t]] = t
  <2>1. t \in Tasks /\ \E x \in slots : running[x] = t
    BY StatusFacts DEF Executor!With
  <2>2. QED
    BY <2>1, NoneAssumption
<1>2. IsFiniteSet(slots \ {s}) /\ Cardinality(slots \ {s}) \in Nat
  BY FS_Subset, FS_CardinalityType DEF IInv, Finite
<1>3. host \in [R -> slots \ {s}]
  BY <1>1
<1>4. host \in Injection(R, slots \ {s})
  <2> HIDE DEF host, R
  <2>1. \A t, u \in R : host[t] = host[u] => t = u
    BY <1>1
  <2>2. QED
    BY <1>3, <2>1 DEF Injection, IsInjective
<1>5. IsFiniteSet(R) /\ Cardinality(R) <= Cardinality(slots \ {s})
  BY <1>2, <1>4, FS_Injection
<1>6. Cardinality(R) \in Nat
  BY <1>5, FS_CardinalityType
<1>7. QED
  BY <1>2, <1>5, <1>6, MaxWorkersAssumption

LEMMA AssignStarts ==
    ASSUME IInv, NEW s \in SlotIds, DrainReuse(s) \/ DrainSpawn(s)
    PROVE  Executor!Start(Head(queue))
<1> DEFINE t == Head(queue)
<1>1. queue # <<>> /\ ~closed /\ closed' = closed /\ running' = [running EXCEPT ![s] = t]
      /\ UNCHANGED <<outcome, tasks>> /\ slots' = slots \cup {s} /\ (s \in slots => running[s] = None)
  BY DEF DrainReuse, DrainSpawn, MayAssign, Idle, Assign, Retire
<1>2. t \in Tasks /\ t \in Elements(queue)
  BY <1>1, TailElements DEF IInv, TypeOK, Accounting
<1> HIDE DEF t
<1>3. Cardinality(slots \ {s}) < MaxWorkers
  <2>1. IsFiniteSet(slots) /\ Cardinality(slots) \in Nat /\ Cardinality(slots) <= MaxWorkers
    BY FS_CardinalityType DEF IInv, Finite, PoolBound
  <2>2. s \in slots \/ Cardinality(slots) < MaxWorkers
    BY DEF DrainReuse, DrainSpawn, Idle, MaySpawn
  <2>3. QED
    BY <2>1, <2>2, FS_RemoveElement, MaxWorkersAssumption
<1>4. Cardinality(Executor!With("running")) < MaxWorkers
  BY <1>1, <1>3, RoomToRun
<1>5. Status[t] = "waiting" /\ outcome[t] = "none" /\ t \in tasks
  BY <1>2, StatusFacts
<1>6. running'[s] = t /\ \A r \in slots \ {s} : running'[r] = running[r]
  BY <1>1 DEF IInv, TypeOK
<1>7. Status'[t] = "running"
  BY <1>1, <1>2, <1>5, <1>6 DEF Status
<1>8. ASSUME NEW u \in Tasks \ {t} PROVE Status'[u] = Status[u]
  <2>1. (\E r \in slots' : running'[r] = u) <=> (\E r \in slots : running[r] = u)
    BY <1>1, <1>6, NoneAssumption
  <2>2. QED
    BY <1>1, <2>1 DEF Status
<1>9. Status' = [Status EXCEPT ![t] = "running"]
  BY <1>2, <1>7, <1>8, OneChange
<1>10. QED
  BY <1>1, <1>4, <1>5, <1>9, SameCount DEF Executor!Start, t

LEMMA SpawnFailureFinishes ==
    ASSUME IInv, DrainSpawnFails
    PROVE  Head(queue) \in Tasks /\ Executor!Finish(Head(queue))
<1>1. Head(queue) \in Elements(queue)
  BY TailElements DEF DrainSpawnFails, MayAssign, IInv, TypeOK, Accounting
<1>2. Head(queue) \in tasks /\ Head(queue) \in Tasks
  BY <1>1, TailElements DEF DrainSpawnFails, MayAssign, IInv, TypeOK, Accounting
<1>3. QED
  BY <1>2, SettleFinishes DEF DrainSpawnFails

LEMMA ReplyFinishes ==
    ASSUME IInv, RepliesSay, NEW s \in SlotIds, HandleMessage(s)
    PROVE  running[s] \in Tasks /\ Executor!Finish(running[s])
<1> DEFINE t == running[s]
<1>1. s \in slots /\ t # None /\ t \in Tasks /\ t \in tasks
  BY DEF HandleMessage, IInv, TypeOK, Accounting
<1>2. mail[s].reply # "none" /\ Settle(t, mail[s].reply) /\ closed' = closed /\ slots' = slots
      /\ running' = [running EXCEPT ![s] = None]
  BY DEF HandleMessage, RepliesSay, Replies
<1>3. ASSUME NEW u \in Tasks \ {t}
      PROVE  (\E r \in slots' : running'[r] = u) <=> (\E r \in slots : running[r] = u)
  BY <1>2, NoneAssumption DEF IInv, TypeOK
<1>4. QED
  BY <1>1, <1>2, <1>3, SettleFinishes

LEMMA RetirementFinishes ==
    ASSUME IInv, NEW s \in SlotIds, RetireEnds(s)
    PROVE  \/ running[s] \in Tasks /\ Executor!Finish(running[s])
           \/ UNCHANGED <<Status, ~closed>>
<1>1. s \in slots /\ slots' = slots \ {s} /\ running' = [running EXCEPT ![s] = None] /\ closed' = closed
      /\ retiring[s] # "none"
  BY DEF RetireEnds, MayEnd
<1>2. ASSUME NEW u \in Tasks, u # running[s]
      PROVE  (\E r \in slots' : running'[r] = u) <=> (\E r \in slots : running[r] = u)
  BY <1>1, <1>2, NoneAssumption DEF IInv, TypeOK
<1>3. CASE running[s] # None
  <2>1. running[s] \in tasks /\ running[s] \in Tasks
    BY <1>1, <1>3 DEF IInv, TypeOK, Accounting
  <2>2. Settle(running[s], retiring[s])
    BY <1>3 DEF RetireEnds, MayEnd, SettleOf
  <2>3. QED
    BY <1>1, <1>2, <2>1, <2>2, SettleFinishes
<1>4. CASE running[s] = None
  <2>1. UNCHANGED <<outcome, tasks>>
    BY <1>4 DEF RetireEnds, MayEnd, SettleOf
  <2>2. \A u \in Tasks : Status'[u] = Status[u]
    BY <1>2, <1>4, <2>1, NoneAssumption DEF Status
  <2>3. Status' = Status
    BY <2>2 DEF Status
  <2>4. QED
    BY <1>1, <2>3
<1>5. QED
  BY <1>3, <1>4-----------------------------------------------------------------------------
(* The refinement.                                                         *)

LEMMA InitMaps == Init => Executor!Init
  BY DEF Init, Status, Executor!Init

LEMMA NextMaps ==
    ASSUME IInv, RepliesSay, [Next]_vars
    PROVE  [Executor!Next]_(Executor!vars)
<1> USE DEF Executor!Next, Executor!vars
<1>1. ASSUME UNCHANGED <<closed, tasks, outcome, slots, running>> PROVE UNCHANGED Executor!vars
  BY <1>1 DEF Status
<1>2. CASE UNCHANGED vars
  BY <1>1, <1>2 DEF vars, hostVars
<1>3. ASSUME NEW s \in SlotIds, DrainReuse(s) \/ DrainSpawn(s) PROVE Executor!Next
  <2>1. Head(queue) \in Tasks
    BY <1>3, TailElements DEF DrainReuse, DrainSpawn, MayAssign, IInv, TypeOK, Accounting
  <2>2. QED
    BY <1>3, <2>1, AssignStarts
<1>4. CASE DrainSpawnFails
  BY <1>4, SpawnFailureFinishes
<1>5. CASE DrainStop
  BY <1>1, <1>5 DEF DrainStop, hostVars
<1>6. ASSUME NEW t \in Tasks, Accept(t) \/ Refuse(t) PROVE Executor!Next
  BY <1>6, AcceptSubmits, RefuseRejects
<1>7. ASSUME NEW t \in Tasks, NEW why \in Cancellations, Cancel(t, why)
      PROVE  [Executor!Next]_(Executor!vars)
  BY <1>7, CancelFinishes
<1>8. ASSUME NEW c \in Closers, Close(c) PROVE Executor!Next
  BY <1>8, CloseShutsDown
<1>9. ASSUME NEW c \in Closers, CloseResolves(c) PROVE UNCHANGED Executor!vars
  BY <1>1, <1>9 DEF CloseResolves, MayResolve, hostVars
<1>10. ASSUME NEW s \in SlotIds, HandleMessage(s) \/ RetireEnds(s) PROVE [Executor!Next]_(Executor!vars)
  BY <1>10, ReplyFinishes, RetirementFinishes
<1>11. ASSUME NEW s \in SlotIds, HandleEvent(s) \/ Reply(s) \/ Crash(s) \/ Stop(s)
       PROVE  UNCHANGED Executor!vars
  BY <1>1, <1>11 DEF HandleEvent, Reply, Crash, Stop, hostVars
<1>12. QED
  BY <1>2, <1>3, <1>4, <1>5, <1>6, <1>7, <1>8, <1>9, <1>10, <1>11 DEF Next, DrainStep

\* What a caller sees of node-executor.js is a bounded executor: admission and
\* parallelism within the limits, each call started at most once and finished
\* once, and nothing started after a shutdown.
THEOREM PoolImplementsExecutor == Spec => Executor!Spec
<1>1. RepliesSay /\ IInv /\ [Next]_vars => [Executor!Next]_(Executor!vars)
  BY NextMaps
<1>2. QED
  BY <1>1, RepliesAlwaysSay, InitMaps, InductiveInvariant, PTL DEF Spec, Executor!Spec

-----------------------------------------------------------------------------
(* The pool comes to rest.                                                 *)

\* The sum of w[x] over S, for w up to K: so many units in a column each.
Units(S, w, K) == {u \in S \X (1..K) : u[2] <= w[u[1]]}
Total(S, w, K) == Cardinality(Units(S, w, K))

LEMMA TotalType ==
    ASSUME NEW S, IsFiniteSet(S), NEW K \in Nat, NEW w
    PROVE  /\ IsFiniteSet(Units(S, w, K)) /\ Total(S, w, K) \in Nat
           /\ Total(S, w, K) <= Cardinality(S) * K
<1>1. IsFiniteSet(1..K) /\ Cardinality(1..K) = K
  BY FS_Interval
<1>2. IsFiniteSet(S \X (1..K)) /\ Cardinality(S \X (1..K)) = Cardinality(S) * K
  BY <1>1, FS_Product
<1>3. Units(S, w, K) \in SUBSET (S \X (1..K))
  BY DEF Units
<1> QED
  BY <1>2, <1>3, FS_Subset, FS_CardinalityType DEF Total

LEMMA TotalAtMost ==
    ASSUME NEW S, IsFiniteSet(S), NEW K \in Nat, NEW v \in [S -> 0..K], NEW w \in [S -> 0..K],
           \A x \in S : v[x] <= w[x]
    PROVE  Total(S, v, K) <= Total(S, w, K)
<1>1. ASSUME NEW u \in Units(S, v, K) PROVE u \in Units(S, w, K)
  <2>1. u \in S \X (1..K) /\ u[1] \in S /\ u[2] \in 1..K /\ u[2] <= v[u[1]]
    BY DEF Units
  <2>2. u[2] <= w[u[1]]
    BY <2>1
  <2> QED  BY <2>1, <2>2 DEF Units
<1>2. Units(S, v, K) \in SUBSET Units(S, w, K)
  BY <1>1
<1> QED
  BY <1>2, TotalType, FS_Subset DEF Total

\* One member changes, the others at most lose.
LEMMA TotalChange ==
    ASSUME NEW S, IsFiniteSet(S), NEW K \in Nat, NEW v \in [S -> 0..K], NEW w \in [S -> 0..K],
           NEW x \in S, \A y \in S \ {x} : v[y] <= w[y]
    PROVE  Total(S, v, K) + w[x] <= Total(S, w, K) + v[x]
<1> DEFINE Rest(f) == {u \in Units(S, f, K) : u[1] # x}
           Column(f) == {x} \X (1..f[x])
<1>1. ASSUME NEW f \in [S -> 0..K]
      PROVE  /\ IsFiniteSet(Rest(f)) /\ Cardinality(Rest(f)) \in Nat
             /\ Total(S, f, K) = Cardinality(Rest(f)) + f[x] /\ f[x] \in Nat
  <2>1. f[x] \in 0..K
    OBVIOUS
  <2>2. IsFiniteSet(1..f[x]) /\ Cardinality(1..f[x]) = f[x]
    BY <2>1, FS_Interval
  <2>3. IsFiniteSet(Column(f)) /\ Cardinality(Column(f)) = 1 * f[x]
    <3>1. IsFiniteSet({x}) /\ Cardinality({x}) = 1
      BY FS_Singleton
    <3> DEFINE T == 1..f[x]
    <3> HIDE DEF T
    <3>2. IsFiniteSet(T) /\ Cardinality(T) = f[x]
      BY <2>2 DEF T
    <3>3. /\ IsFiniteSet({x} \X T)
          /\ Cardinality({x} \X T) = Cardinality({x}) * Cardinality(T)
      BY <3>1, <3>2, FS_Product
    <3> QED  BY <3>1, <3>2, <3>3 DEF T
  <2>4. Units(S, f, K) = Rest(f) \cup Column(f)
    <3>1. ASSUME NEW u, u \in Column(f) PROVE u \in Units(S, f, K)
      <4>1. u \in {x} \X (1..f[x]) /\ u[1] = x /\ u[2] \in 1..f[x]
        BY <3>1
      <4>2. u \in S \X (1..K) /\ u[2] <= f[u[1]]
        BY <2>1, <4>1
      <4> QED  BY <4>2 DEF Units
    <3>2. ASSUME NEW u, u \in Units(S, f, K), u[1] = x PROVE u \in Column(f)
      <4>1. u \in S \X (1..K) /\ u[2] \in 1..K /\ u[2] <= f[x]
        BY <3>2 DEF Units
      <4>2. u = <<u[1], u[2]>> /\ u[2] \in 1..f[x]
        BY <2>1, <4>1
      <4> QED  BY <3>2, <4>2
    <3> QED  BY <3>1, <3>2
  <2>5. Rest(f) \cap Column(f) = {}
    OBVIOUS
  <2>6. IsFiniteSet(Rest(f)) /\ Cardinality(Rest(f)) \in Nat
    <3>1. Rest(f) \in SUBSET Units(S, f, K)
      OBVIOUS
    <3> QED  BY <3>1, TotalType, FS_Subset, FS_CardinalityType
  <2>7. Cardinality({}) = 0
    BY FS_EmptySet
  <2> HIDE DEF Rest, Column
  <2>8. Cardinality(Units(S, f, K)) = Cardinality(Rest(f)) + Cardinality(Column(f)) - 0
    BY <2>3, <2>4, <2>5, <2>6, <2>7, FS_Union
  <2> QED  BY <2>1, <2>3, <2>6, <2>8 DEF Total
<1>2. Rest(v) \in SUBSET Rest(w)
  <2>1. ASSUME NEW u \in Rest(v) PROVE u \in Rest(w)
    <3>1. u \in S \X (1..K) /\ u[1] \in S \ {x} /\ u[2] \in 1..K /\ u[2] <= v[u[1]]
      BY DEF Units
    <3>2. u[2] <= w[u[1]]
      BY <3>1
    <3> QED  BY <3>1, <3>2 DEF Units
  <2> QED  BY <2>1
<1> HIDE DEF Rest, Column
<1>3. Cardinality(Rest(v)) <= Cardinality(Rest(w))
  BY <1>1, <1>2, FS_Subset
<1>4. /\ Total(S, v, K) = Cardinality(Rest(v)) + v[x] /\ v[x] \in Nat
      /\ Total(S, w, K) = Cardinality(Rest(w)) + w[x] /\ w[x] \in Nat
      /\ Cardinality(Rest(v)) \in Nat /\ Cardinality(Rest(w)) \in Nat
  BY <1>1
<1> QED
  BY <1>3, <1>4

\* What is left to do: for a call to be accepted or refused, given to a slot
\* and settled; for a slot to answer, to lose its thread, to hear of it and to
\* end; for a caller of close() to call and to be answered; for drain() to end.
TaskWork(t) ==
    IF outcome[t] # "none" THEN 0
    ELSE IF t \notin tasks THEN 12
    ELSE IF t \in Elements(queue) THEN 10
    ELSE 1
ThreadWork(s) == IF thread[s] = "alive" THEN 5 ELSE IF thread[s] = "dead" THEN 2 ELSE 0
EventWork(s) == IF event[s] = "error" THEN 2 ELSE IF event[s] = "exit" THEN 1 ELSE 0
SlotWork(s) ==
    ThreadWork(s) + (IF s \in slots /\ retiring[s] = "none" THEN 1 ELSE 0)
      + (IF mail[s] # NoMail THEN 1 ELSE 0) + (IF job[s] # None THEN 2 ELSE 0) + EventWork(s)
CloserWork(c) == IF closer[c] = "idle" THEN 2 ELSE IF closer[c] = "waiting" THEN 1 ELSE 0
DrainWork == IF pc = "drain" THEN 1 ELSE 0

TaskTotal == Total(Tasks, [t \in Tasks |-> TaskWork(t)], 12)
SlotTotal == Total(SlotIds, [s \in SlotIds |-> SlotWork(s)], 11)
CloserTotal == Total(Closers, [c \in Closers |-> CloserWork(c)], 2)
Left == TaskTotal + SlotTotal + CloserTotal + DrainWork

FinitePool == IsFiniteSet(Tasks) /\ IsFiniteSet(SlotIds) /\ IsFiniteSet(Closers)

LEMMA FourSummands ==
    ASSUME NEW a \in Nat, NEW b \in Nat, NEW c \in Nat, NEW d \in Nat
    PROVE  a + b + c + d \in Nat
  OBVIOUS

LEMMA LessOfFive ==
    ASSUME NEW t \in Nat, NEW a \in Nat, NEW b \in Nat, NEW j \in Nat, NEW e \in Nat,
           NEW aa \in Nat, NEW bb \in Nat, NEW ee \in Nat, aa <= a, bb <= b, ee <= e
    PROVE  /\ t + aa + bb + j + ee <= t + a + b + j + e
           /\ aa + 1 <= a \/ bb + 1 <= b \/ ee + 1 <= e
              => (t + aa + bb + j + ee) + 1 <= t + a + b + j + e
  OBVIOUS

LEMMA RiseOfFive ==
    ASSUME NEW t \in Nat, NEW a \in Nat, NEW b \in Nat, NEW j \in Nat, NEW e \in Nat, NEW k \in Nat,
           NEW tt \in Nat, NEW aa \in Nat, NEW bb \in Nat, NEW jj \in Nat,
           aa <= a + k, bb <= b, jj <= j + 2
    PROVE  tt + aa + bb + jj + e <= (t + a + b + j + e) + 2 + (tt - t) + k
  OBVIOUS

LEMMA WorkTypes ==
    /\ \A t \in Tasks : TaskWork(t) \in 0..12 /\ TaskWork(t)' \in 0..12
    /\ \A s \in SlotIds : SlotWork(s) \in 0..11 /\ SlotWork(s)' \in 0..11
    /\ \A c \in Closers : CloserWork(c) \in 0..2 /\ CloserWork(c)' \in 0..2
    /\ DrainWork \in 0..1 /\ DrainWork' \in 0..1
  BY DEF TaskWork, SlotWork, ThreadWork, EventWork, CloserWork, DrainWork

LEMMA TotalTypes ==
    ASSUME FinitePool
    PROVE  /\ TaskTotal \in Nat /\ TaskTotal' \in Nat
           /\ SlotTotal \in Nat /\ SlotTotal' \in Nat
           /\ CloserTotal \in Nat /\ CloserTotal' \in Nat
           /\ Left \in Nat /\ Left' \in Nat
<1>1. \A w : Total(Tasks, w, 12) \in Nat
  BY TotalType DEF FinitePool
<1>2. \A w : Total(SlotIds, w, 11) \in Nat
  BY TotalType DEF FinitePool
<1>3. \A w : Total(Closers, w, 2) \in Nat
  BY TotalType DEF FinitePool
<1>4. TaskTotal \in Nat /\ TaskTotal' \in Nat
  BY <1>1 DEF TaskTotal
<1>5. SlotTotal \in Nat /\ SlotTotal' \in Nat
  BY <1>2 DEF SlotTotal
<1>6. CloserTotal \in Nat /\ CloserTotal' \in Nat
  BY <1>3 DEF CloserTotal
<1>7. DrainWork \in Nat /\ DrainWork' \in Nat
  BY WorkTypes
<1>9. TaskTotal + SlotTotal + CloserTotal + DrainWork \in Nat
  BY <1>4, <1>5, <1>6, <1>7, FourSummands
<1>10. TaskTotal' + SlotTotal' + CloserTotal' + DrainWork' \in Nat
  BY <1>4, <1>5, <1>6, <1>7, FourSummands
<1>11. Left \in Nat /\ Left' \in Nat
  BY <1>9, <1>10 DEF Left
<1> QED
  BY <1>4, <1>5, <1>6, <1>11

\* The calls keep their work, or one of them gets rid of k.
LEMMA TasksKeep ==
    ASSUME FinitePool, \A t \in Tasks : TaskWork(t)' <= TaskWork(t)
    PROVE  TaskTotal' <= TaskTotal
<1> DEFINE v == [t \in Tasks |-> TaskWork(t)']
           w == [t \in Tasks |-> TaskWork(t)]
<1>1. v \in [Tasks -> 0..12] /\ w \in [Tasks -> 0..12] /\ \A t \in Tasks : v[t] <= w[t]
  BY WorkTypes
<1> HIDE DEF v, w
<1>2. Total(Tasks, v, 12) <= Total(Tasks, w, 12)
  BY <1>1, TotalAtMost DEF FinitePool
<1> QED
  BY <1>2 DEF TaskTotal, v, w

LEMMA TaskFalls ==
    ASSUME FinitePool, NEW t \in Tasks, NEW k \in Int, TaskWork(t)' + k <= TaskWork(t),
           \A u \in Tasks \ {t} : TaskWork(u)' <= TaskWork(u)
    PROVE  TaskTotal' + k <= TaskTotal
<1> DEFINE v == [u \in Tasks |-> TaskWork(u)']
           w == [u \in Tasks |-> TaskWork(u)]
<1>1. /\ v \in [Tasks -> 0..12] /\ w \in [Tasks -> 0..12] /\ \A u \in Tasks \ {t} : v[u] <= w[u]
      /\ v[t] + k <= w[t] /\ v[t] \in Nat /\ w[t] \in Nat
  BY WorkTypes
<1> HIDE DEF v, w
<1>2. Total(Tasks, v, 12) + w[t] <= Total(Tasks, w, 12) + v[t]
  BY <1>1, TotalChange DEF FinitePool
<1>3. TaskTotal = Total(Tasks, w, 12) /\ TaskTotal' = Total(Tasks, v, 12)
  BY DEF TaskTotal, v, w
<1> QED
  BY <1>1, <1>2, <1>3, TotalTypes

LEMMA SlotsKeep ==
    ASSUME FinitePool, \A s \in SlotIds : SlotWork(s)' <= SlotWork(s)
    PROVE  SlotTotal' <= SlotTotal
<1> DEFINE v == [s \in SlotIds |-> SlotWork(s)']
           w == [s \in SlotIds |-> SlotWork(s)]
<1>1. v \in [SlotIds -> 0..11] /\ w \in [SlotIds -> 0..11] /\ \A s \in SlotIds : v[s] <= w[s]
  BY WorkTypes
<1> HIDE DEF v, w
<1>2. Total(SlotIds, v, 11) <= Total(SlotIds, w, 11)
  BY <1>1, TotalAtMost DEF FinitePool
<1> QED
  BY <1>2 DEF SlotTotal, v, w

LEMMA SlotFalls ==
    ASSUME FinitePool, NEW s \in SlotIds, NEW k \in Int, SlotWork(s)' + k <= SlotWork(s),
           \A r \in SlotIds \ {s} : SlotWork(r)' <= SlotWork(r)
    PROVE  SlotTotal' + k <= SlotTotal
<1> DEFINE v == [r \in SlotIds |-> SlotWork(r)']
           w == [r \in SlotIds |-> SlotWork(r)]
<1>1. /\ v \in [SlotIds -> 0..11] /\ w \in [SlotIds -> 0..11]
      /\ \A r \in SlotIds \ {s} : v[r] <= w[r]
      /\ v[s] + k <= w[s] /\ v[s] \in Nat /\ w[s] \in Nat
  BY WorkTypes
<1> HIDE DEF v, w
<1>2. Total(SlotIds, v, 11) + w[s] <= Total(SlotIds, w, 11) + v[s]
  BY <1>1, TotalChange DEF FinitePool
<1>3. SlotTotal = Total(SlotIds, w, 11) /\ SlotTotal' = Total(SlotIds, v, 11)
  BY DEF SlotTotal, v, w
<1> QED
  BY <1>1, <1>2, <1>3, TotalTypes

LEMMA ClosersKeep ==
    ASSUME UNCHANGED closer
    PROVE  CloserTotal' = CloserTotal
  BY DEF CloserTotal, CloserWork

LEMMA CloserFalls ==
    ASSUME FinitePool, NEW c \in Closers, CloserWork(c)' + 1 <= CloserWork(c),
           \A b \in Closers \ {c} : closer'[b] = closer[b]
    PROVE  CloserTotal' + 1 <= CloserTotal
<1> DEFINE v == [b \in Closers |-> CloserWork(b)']
           w == [b \in Closers |-> CloserWork(b)]
<1>1. /\ v \in [Closers -> 0..2] /\ w \in [Closers -> 0..2]
      /\ v[c] + 1 <= w[c] /\ v[c] \in Nat /\ w[c] \in Nat
  BY WorkTypes
<1>2. \A b \in Closers \ {c} : v[b] <= w[b]
  <2>1. ASSUME NEW b \in Closers \ {c} PROVE CloserWork(b)' = CloserWork(b) /\ CloserWork(b) \in Nat
    BY WorkTypes DEF CloserWork
  <2> QED  BY <2>1
<1> HIDE DEF v, w
<1>3. Total(Closers, v, 2) + w[c] <= Total(Closers, w, 2) + v[c]
  BY <1>1, <1>2, TotalChange DEF FinitePool
<1>4. CloserTotal = Total(Closers, w, 2) /\ CloserTotal' = Total(Closers, v, 2)
  BY DEF CloserTotal, v, w
<1> QED
  BY <1>1, <1>3, <1>4, TotalTypes

\* Calls and slots that a step does not touch keep their work.
LEMMA TasksSame ==
    ASSUME UNCHANGED <<outcome, tasks, queue>>
    PROVE  TaskTotal' = TaskTotal
  BY DEF TaskTotal, TaskWork

LEMMA SlotsSame ==
    ASSUME UNCHANGED <<slots, retiring, threadVars>>
    PROVE  SlotTotal' = SlotTotal
  BY DEF SlotTotal, SlotWork, ThreadWork, EventWork, threadVars

LEMMA SlotSame ==
    ASSUME NEW r \in SlotIds, thread'[r] = thread[r], event'[r] = event[r], job'[r] = job[r],
           retiring'[r] = retiring[r], mail'[r] = mail[r], r \in slots' <=> r \in slots
    PROVE  SlotWork(r)' = SlotWork(r) /\ SlotWork(r)' <= SlotWork(r)
<1>1. SlotWork(r)' = SlotWork(r)
  BY DEF SlotWork, ThreadWork, EventWork
<1> QED
  BY <1>1, WorkTypes

\* A call that settles has no work left, and the others keep theirs.
LEMMA SettleWork ==
    ASSUME IInv, NEW t \in tasks, NEW how, how # "none", Settle(t, how)
    PROVE  /\ TaskWork(t)' = 0 /\ TaskWork(t) >= 1
           /\ t \in Elements(queue) => TaskWork(t) = 10
           /\ \A u \in Tasks \ {t} : TaskWork(u)' <= TaskWork(u)
<1>1. Elements(queue') = Elements(queue) \ {t}
  BY WithoutElement DEF Settle, IInv, TypeOK, Accounting
<1>2. outcome[t] = "none" /\ t \in Tasks
  BY DEF IInv, TypeOK, Accounting
<1>3. outcome'[t] = how /\ \A u \in Tasks \ {t} : outcome'[u] = outcome[u]
  BY <1>2 DEF Settle, IInv, TypeOK
<1>4. ASSUME NEW u \in Tasks \ {t} PROVE TaskWork(u)' <= TaskWork(u)
  <2>1. /\ outcome'[u] = outcome[u]
        /\ u \in tasks' <=> u \in tasks
        /\ u \in Elements(queue') <=> u \in Elements(queue)
    BY <1>1, <1>3 DEF Settle
  <2>2. TaskWork(u)' = TaskWork(u)
    BY <2>1 DEF TaskWork
  <2> QED  BY <2>2, WorkTypes
<1> QED
  BY <1>2, <1>3, <1>4 DEF TaskWork

-----------------------------------------------------------------------------
\* Every step has less left to do.
LEMMA AcceptFalls ==
    ASSUME IInv, FinitePool, NEW t \in Tasks, Accept(t)
    PROVE  Left' < Left
<1>1. Elements(queue') = Elements(queue) \cup {t}
  BY AppendElement DEF Accept, IInv, TypeOK, Accounting
<1>2. TaskWork(t)' + 2 <= TaskWork(t)
  BY <1>1 DEF Accept, TaskWork
<1>3. ASSUME NEW u \in Tasks \ {t} PROVE TaskWork(u)' <= TaskWork(u)
  <2>1. TaskWork(u)' = TaskWork(u)
    BY <1>1 DEF Accept, TaskWork
  <2> QED  BY <2>1, WorkTypes
<1>4. TaskTotal' + 2 <= TaskTotal
  BY <1>2, <1>3, TaskFalls
<1>5. SlotTotal' = SlotTotal /\ CloserTotal' = CloserTotal
  BY SlotsSame, ClosersKeep DEF Accept, closeVars
<1> QED
  BY <1>4, <1>5, TotalTypes, WorkTypes DEF Left

LEMMA RefuseFalls ==
    ASSUME IInv, FinitePool, NEW t \in Tasks, Refuse(t)
    PROVE  Left' < Left
<1>1. TaskWork(t)' + 12 <= TaskWork(t)
  BY DEF Refuse, TaskWork, IInv, TypeOK
<1>2. ASSUME NEW u \in Tasks \ {t} PROVE TaskWork(u)' <= TaskWork(u)
  <2>1. TaskWork(u)' = TaskWork(u)
    BY DEF Refuse, TaskWork, IInv, TypeOK
  <2> QED  BY <2>1, WorkTypes
<1>3. TaskTotal' + 12 <= TaskTotal
  BY <1>1, <1>2, TaskFalls
<1>4. SlotTotal' = SlotTotal /\ CloserTotal' = CloserTotal /\ DrainWork' = DrainWork
  BY SlotsSame, ClosersKeep DEF Refuse, closeVars, DrainWork
<1> QED
  BY <1>3, <1>4, TotalTypes, WorkTypes DEF Left

\* Retiring slots gives them no work; a slot in use, or with a reply to be
\* dispatched, loses some.
LEMMA RetireWork ==
    ASSUME IInv, NEW S \in SUBSET slots, NEW why \in Reasons, Retire(S, why),
           UNCHANGED <<slots, thread, job>>,
           \A s \in SlotIds : EventWork(s)' <= EventWork(s)
    PROVE  \A s \in SlotIds :
             /\ SlotWork(s)' <= SlotWork(s)
             /\ \/ EventWork(s)' < EventWork(s)
                \/ s \in S /\ (retiring[s] = "none" \/ mail[s] # NoMail)
                => SlotWork(s)' + 1 <= SlotWork(s)
<1> SUFFICES ASSUME NEW s \in SlotIds
             PROVE  /\ SlotWork(s)' <= SlotWork(s)
                    /\ \/ EventWork(s)' < EventWork(s)
                       \/ s \in S /\ (retiring[s] = "none" \/ mail[s] # NoMail)
                       => SlotWork(s)' + 1 <= SlotWork(s)
  OBVIOUS
<1> DEFINE A == IF s \in slots /\ retiring[s] = "none" THEN 1 ELSE 0
           B == IF mail[s] # NoMail THEN 1 ELSE 0
           J == IF job[s] # None THEN 2 ELSE 0
           T == ThreadWork(s)
           E == EventWork(s)
<1>1. /\ SlotWork(s) = T + A + B + J + E
      /\ SlotWork(s)' = T' + A' + B' + J' + E'
  BY DEF SlotWork
<1>2. T' = T /\ J' = J
  BY DEF ThreadWork
<1>3. /\ retiring'[s] = IF s \in S /\ retiring[s] = "none" THEN why ELSE retiring[s]
      /\ mail'[s] = IF s \in S THEN NoMail ELSE mail[s]
      /\ why # "none"
  BY DEF Retire, Reasons, Cancellations
<1>4. A' <= A /\ (s \in S /\ retiring[s] = "none" => A' + 1 <= A)
  BY <1>3
<1>5. B' <= B /\ (s \in S /\ mail[s] # NoMail => B' + 1 <= B)
  BY <1>3
<1>6. /\ T \in Nat /\ A \in Nat /\ B \in Nat /\ J \in Nat /\ E \in Nat
      /\ A' \in Nat /\ B' \in Nat /\ E' \in Nat /\ E' <= E
  BY DEF ThreadWork, EventWork
<1>7. (s \in S /\ (retiring[s] = "none" \/ mail[s] # NoMail)) \/ EventWork(s)' < EventWork(s)
      => A' + 1 <= A \/ B' + 1 <= B \/ E' + 1 <= E
  BY <1>4, <1>5, <1>6
<1>8. SlotWork(s)' = T + A' + B' + J + E'
  BY <1>1, <1>2
<1> HIDE DEF A, B, J, T, E
<1>9. /\ T + A' + B' + J + E' <= T + A + B + J + E
      /\ A' + 1 <= A \/ B' + 1 <= B \/ E' + 1 <= E
         => (T + A' + B' + J + E') + 1 <= T + A + B + J + E
  BY <1>4, <1>5, <1>6, LessOfFive
<1> QED
  BY <1>1, <1>7, <1>8, <1>9

LEMMA CancelFalls ==
    ASSUME IInv, FinitePool, NEW t \in Tasks, NEW why \in Cancellations, Cancel(t, why)
    PROVE  Left' < Left \/ UNCHANGED vars
<1>1. t \in tasks /\ pc = "loop" /\ why # "none"
  BY DEF Cancel, MayCancel, Cancellations
<1>2. CASE CancelQueued(t, why)
  <2>1. t \in Elements(queue) /\ Settle(t, why)
    BY <1>1, <1>2 DEF CancelQueued, IInv, Accounting
  <2>2. /\ TaskWork(t)' + 10 <= TaskWork(t)
        /\ \A u \in Tasks \ {t} : TaskWork(u)' <= TaskWork(u)
    BY <1>1, <2>1, SettleWork
  <2>3. TaskTotal' + 10 <= TaskTotal
    BY <2>2, TaskFalls
  <2>4. SlotTotal' = SlotTotal /\ CloserTotal' = CloserTotal
    BY <1>2, SlotsSame, ClosersKeep DEF CancelQueued, closeVars
  <2> QED  BY <2>3, <2>4, TotalTypes, WorkTypes DEF Left
<1>3. CASE CancelRunning(t, why)
  <2>1. PICK s \in slots : running[s] = t /\ Retire({s}, why)
    BY <1>3 DEF CancelRunning
  <2>2. s \in SlotIds /\ {s} \in SUBSET slots /\ why \in Reasons
    BY <2>1 DEF IInv, TypeOK, Reasons
  <2>3. \A r \in SlotIds : EventWork(r)' <= EventWork(r)
    BY <1>3 DEF CancelRunning, EventWork
  <2>4. \A r \in SlotIds :
          /\ SlotWork(r)' <= SlotWork(r)
          /\ r \in {s} /\ (retiring[r] = "none" \/ mail[r] # NoMail)
             => SlotWork(r)' + 1 <= SlotWork(r)
    BY <1>3, <2>1, <2>2, <2>3, RetireWork DEF CancelRunning
  <2>5. TaskTotal' = TaskTotal /\ CloserTotal' = CloserTotal /\ DrainWork' = DrainWork
    BY <1>3, TasksSame, ClosersKeep DEF CancelRunning, closeVars, DrainWork
  <2>6. CASE retiring[s] = "none" \/ mail[s] # NoMail
    <3>1. SlotTotal' + 1 <= SlotTotal
      BY <2>2, <2>4, <2>6, SlotFalls
    <3> QED  BY <2>5, <3>1, TotalTypes, WorkTypes DEF Left
  <2>7. CASE retiring[s] # "none" /\ mail[s] = NoMail
    <3>1. retiring' = retiring /\ mail' = mail
      BY <2>1, <2>7 DEF Retire, IInv, TypeOK
    <3> QED  BY <1>3, <3>1 DEF CancelRunning, vars, hostVars, threadVars, closeVars
  <2> QED  BY <2>6, <2>7
<1> QED
  BY <1>2, <1>3 DEF Cancel

LEMMA CloseFalls ==
    ASSUME IInv, FinitePool, NEW c \in Closers, Close(c)
    PROVE  Left' < Left
<1>1. \A s \in SlotIds : SlotWork(s)' <= SlotWork(s)
  <2>1. slots \in SUBSET slots /\ "closed" \in Reasons
    BY DEF Reasons
  <2>2. \A s \in SlotIds : EventWork(s)' <= EventWork(s)
    BY DEF Close, EventWork
  <2> QED  BY <2>1, <2>2, RetireWork DEF Close
<1>2. ASSUME NEW t \in Tasks PROVE TaskWork(t)' <= TaskWork(t)
  <2>1. /\ outcome'[t] = IF t \in Elements(queue) THEN "closed" ELSE outcome[t]
        /\ t \in tasks' <=> t \in tasks /\ t \notin Elements(queue)
        /\ t \notin Elements(queue')
    BY DEF Close, Elements
  <2>2. CASE t \in Elements(queue)
    BY <2>1, <2>2, WorkTypes DEF TaskWork
  <2>3. CASE t \notin Elements(queue)
    <3>1. TaskWork(t)' = TaskWork(t)
      BY <2>1, <2>3 DEF TaskWork
    <3> QED  BY <3>1, WorkTypes
  <2> QED  BY <2>2, <2>3
<1>3. CloserTotal' + 1 <= CloserTotal
  <2>1. CloserWork(c)' + 1 <= CloserWork(c) /\ \A b \in Closers \ {c} : closer'[b] = closer[b]
    BY DEF Close, CloserWork, IInv, TypeOK
  <2> QED  BY <2>1, CloserFalls
<1>4. TaskTotal' <= TaskTotal /\ SlotTotal' <= SlotTotal /\ DrainWork' = DrainWork
  BY <1>1, <1>2, TasksKeep, SlotsKeep DEF Close, DrainWork
<1> QED
  BY <1>3, <1>4, TotalTypes, WorkTypes DEF Left

LEMMA CloseResolvesFalls ==
    ASSUME IInv, FinitePool, NEW c \in Closers, CloseResolves(c)
    PROVE  Left' < Left
<1>1. CloserWork(c)' + 1 <= CloserWork(c) /\ \A b \in Closers \ {c} : closer'[b] = closer[b]
  BY DEF CloseResolves, MayResolve, CloserWork, IInv, TypeOK
<1>2. CloserTotal' + 1 <= CloserTotal
  BY <1>1, CloserFalls
<1>3. TaskTotal' = TaskTotal /\ SlotTotal' = SlotTotal /\ DrainWork' = DrainWork
  BY TasksSame, SlotsSame DEF CloseResolves, hostVars, DrainWork
<1> QED
  BY <1>2, <1>3, TotalTypes, WorkTypes DEF Left

\* The head of the queue moves from the queue to a slot.
LEMMA AssignWork ==
    ASSUME IInv, FinitePool, NEW s \in SlotIds, MayAssign, Assign(s), slots' = slots \cup {s},
           UNCHANGED <<tasks, outcome>>
    PROVE  TaskTotal' + 9 <= TaskTotal
<1>1. PICK h \in Tasks : h \in Elements(queue) /\ Elements(queue') = Elements(queue) \ {h}
  BY TailElements DEF IInv, TypeOK, Accounting, MayAssign, Assign
<1>2. h \in tasks /\ outcome[h] = "none"
  BY <1>1 DEF IInv, TypeOK, Accounting
<1>3. TaskWork(h)' + 9 <= TaskWork(h)
  BY <1>1, <1>2 DEF TaskWork
<1>4. ASSUME NEW u \in Tasks \ {h} PROVE TaskWork(u)' <= TaskWork(u)
  <2>1. TaskWork(u)' = TaskWork(u)
    BY <1>1 DEF TaskWork
  <2> QED  BY <2>1, WorkTypes
<1> QED
  BY <1>2, <1>3, <1>4, TaskFalls

\* The slot it is given to has at most a job more, a new one also a thread
\* and a life to lose.
LEMMA AssignSlotWork ==
    ASSUME IInv, NEW s \in SlotIds, Assign(s), slots' = slots \cup {s},
           retiring[s] = "none",
           \A r \in SlotIds : r # s => thread'[r] = thread[r],
           UNCHANGED event
    PROVE  /\ SlotWork(s)' <= SlotWork(s) + 2 + (ThreadWork(s)' - ThreadWork(s))
                                + (IF s \in slots THEN 0 ELSE 1)
           /\ \A r \in SlotIds \ {s} : SlotWork(r)' <= SlotWork(r)
<1>1. /\ \A r \in SlotIds : r # s => job'[r] = job[r] /\ mail'[r] = mail[r] /\ retiring'[r] = retiring[r]
      /\ mail'[s] = mail[s] \/ mail'[s] = NoMail
  BY DEF Assign, Retire, IInv, TypeOK
<1>2. ASSUME NEW r \in SlotIds \ {s} PROVE SlotWork(r)' <= SlotWork(r)
  BY <1>1, SlotSame
<1>3. SlotWork(s)' <= SlotWork(s) + 2 + (ThreadWork(s)' - ThreadWork(s))
                        + (IF s \in slots THEN 0 ELSE 1)
  <2> DEFINE A == IF s \in slots /\ retiring[s] = "none" THEN 1 ELSE 0
             B == IF mail[s] # NoMail THEN 1 ELSE 0
             J == IF job[s] # None THEN 2 ELSE 0
             T == ThreadWork(s)
             E == EventWork(s)
             K == IF s \in slots THEN 0 ELSE 1
  <2>1. /\ SlotWork(s) = T + A + B + J + E
        /\ SlotWork(s)' = T' + A' + B' + J' + E'
    BY DEF SlotWork
  <2>2. A' <= A + K /\ B' <= B /\ J' <= J + 2 /\ E' = E
    BY <1>1 DEF EventWork
  <2>3. /\ T \in Nat /\ A \in Nat /\ B \in Nat /\ J \in Nat /\ E \in Nat /\ K \in Nat
        /\ T' \in Nat /\ A' \in Nat /\ B' \in Nat /\ J' \in Nat
    BY DEF ThreadWork, EventWork
  <2> HIDE DEF A, B, J, T, E, K
  <2>4. T' + A' + B' + J' + E <= (T + A + B + J + E) + 2 + (T' - T) + K
    BY <2>2, <2>3, RiseOfFive
  <2> QED  BY <2>1, <2>2, <2>4 DEF T, K
<1> QED
  BY <1>2, <1>3

LEMMA DrainReuseFalls ==
    ASSUME IInv, FinitePool, NEW s \in SlotIds, DrainReuse(s)
    PROVE  Left' < Left
<1>1. /\ s \in slots /\ retiring[s] = "none" /\ MayAssign /\ Assign(s)
      /\ UNCHANGED <<thread, pc, tasks, outcome, slots, event, closer>>
      /\ slots' = slots \cup {s}
  BY DEF DrainReuse, Idle, closeVars
<1>2. TaskTotal' + 9 <= TaskTotal
  BY <1>1, AssignWork
<1>3. /\ SlotWork(s)' <= SlotWork(s) + 2 + (ThreadWork(s)' - ThreadWork(s)) + 0
      /\ \A r \in SlotIds \ {s} : SlotWork(r)' <= SlotWork(r)
  BY <1>1, AssignSlotWork
<1>4. ThreadWork(s)' = ThreadWork(s) /\ ThreadWork(s) \in Nat
  BY <1>1 DEF ThreadWork
<1>5. SlotWork(s)' + (-2) <= SlotWork(s)
  BY <1>3, <1>4, WorkTypes
<1>6. SlotTotal' + (-2) <= SlotTotal
  BY <1>3, <1>5, SlotFalls
<1>7. CloserTotal' = CloserTotal /\ DrainWork' = DrainWork
  BY <1>1, ClosersKeep DEF DrainWork
<1> QED
  BY <1>2, <1>6, <1>7, TotalTypes, WorkTypes DEF Left

LEMMA DrainSpawnFalls ==
    ASSUME IInv, FinitePool, NEW s \in SlotIds, DrainSpawn(s)
    PROVE  Left' < Left
<1>1. /\ s \notin slots /\ MayAssign /\ Assign(s) /\ thread[s] = "off"
      /\ thread' = [thread EXCEPT ![s] = "alive"] /\ slots' = slots \cup {s}
      /\ UNCHANGED <<pc, tasks, outcome, event, closer>>
  BY DEF DrainSpawn, closeVars
<1>2. TaskTotal' + 9 <= TaskTotal
  BY <1>1, AssignWork
<1>3. retiring[s] = "none" /\ \A r \in SlotIds : r # s => thread'[r] = thread[r]
  BY <1>1 DEF IInv, TypeOK, Unused
<1>4. /\ SlotWork(s)' <= SlotWork(s) + 2 + (ThreadWork(s)' - ThreadWork(s)) + 1
      /\ \A r \in SlotIds \ {s} : SlotWork(r)' <= SlotWork(r)
  BY <1>1, <1>3, AssignSlotWork
<1>5. ThreadWork(s)' = 5 /\ ThreadWork(s) = 0
  BY <1>1 DEF ThreadWork, IInv, TypeOK
<1>6. SlotWork(s)' + (-8) <= SlotWork(s)
  BY <1>4, <1>5, WorkTypes
<1>7. SlotTotal' + (-8) <= SlotTotal
  BY <1>4, <1>6, SlotFalls
<1>8. CloserTotal' = CloserTotal /\ DrainWork' = DrainWork
  BY <1>1, ClosersKeep DEF DrainWork
<1> QED
  BY <1>2, <1>7, <1>8, TotalTypes, WorkTypes DEF Left

LEMMA DrainSpawnFailsFalls ==
    ASSUME IInv, FinitePool, DrainSpawnFails
    PROVE  Left' < Left
<1>1. PICK h \in Elements(queue) : h = Head(queue)
  BY TailElements DEF IInv, TypeOK, Accounting, MayAssign, DrainSpawnFails
<1>2. h \in tasks /\ h \in Tasks /\ Settle(h, "spawn")
  BY <1>1 DEF DrainSpawnFails, IInv, TypeOK, Accounting, Elements
<1>3. /\ TaskWork(h)' + 10 <= TaskWork(h)
      /\ \A u \in Tasks \ {h} : TaskWork(u)' <= TaskWork(u)
  BY <1>1, <1>2, SettleWork
<1>4. TaskTotal' + 10 <= TaskTotal
  BY <1>2, <1>3, TaskFalls
<1>5. SlotTotal' = SlotTotal /\ CloserTotal' = CloserTotal /\ DrainWork' = DrainWork
  BY SlotsSame, ClosersKeep DEF DrainSpawnFails, closeVars, DrainWork
<1> QED
  BY <1>4, <1>5, TotalTypes, WorkTypes DEF Left

LEMMA DrainStopFalls ==
    ASSUME FinitePool, DrainStop
    PROVE  Left' < Left
<1>1. DrainWork = 1 /\ DrainWork' = 0
  BY DEF DrainStop, DrainWork
<1>2. TaskTotal' = TaskTotal /\ SlotTotal' = SlotTotal /\ CloserTotal' = CloserTotal
  BY TasksSame, SlotsSame, ClosersKeep DEF DrainStop, hostVars, closeVars
<1> QED
  BY <1>1, <1>2, TotalTypes DEF Left

LEMMA HandleMessageFalls ==
    ASSUME IInv, FinitePool, NEW s \in SlotIds, HandleMessage(s), RepliesSay
    PROVE  Left' < Left
<1>1. PICK t \in tasks : t = running[s]
  BY DEF HandleMessage, IInv, Accounting, TypeOK, RepliesMatch
<1>2. t \in Tasks /\ mail[s].reply # "none" /\ Settle(t, mail[s].reply)
  BY <1>1 DEF HandleMessage, IInv, TypeOK, RepliesSay, Replies
<1>3. /\ TaskWork(t)' + 1 <= TaskWork(t)
      /\ \A u \in Tasks \ {t} : TaskWork(u)' <= TaskWork(u)
  BY <1>2, SettleWork
<1>4. TaskTotal' + 1 <= TaskTotal
  BY <1>2, <1>3, TaskFalls
<1>5. SlotWork(s)' + 1 <= SlotWork(s)
  <2>1. mail[s] # NoMail /\ mail'[s] = NoMail
    BY DEF HandleMessage, NoMail, IInv, TypeOK
  <2> QED  BY <2>1 DEF HandleMessage, SlotWork, ThreadWork, EventWork
<1>6. ASSUME NEW r \in SlotIds \ {s} PROVE SlotWork(r)' <= SlotWork(r)
  <2>1. mail'[r] = mail[r]
    BY DEF HandleMessage, IInv, TypeOK
  <2> QED  BY <2>1, SlotSame DEF HandleMessage
<1>7. SlotTotal' + 1 <= SlotTotal
  BY <1>5, <1>6, SlotFalls
<1>8. CloserTotal' = CloserTotal
  BY ClosersKeep DEF HandleMessage, closeVars
<1> QED
  BY <1>4, <1>7, <1>8, TotalTypes, WorkTypes DEF Left

LEMMA HandleEventFalls ==
    ASSUME IInv, FinitePool, NEW s \in SlotIds, HandleEvent(s)
    PROVE  Left' < Left
<1>1. EventWork(s)' < EventWork(s) /\ \A r \in SlotIds : EventWork(r)' <= EventWork(r)
  <2>1. EventWork(s)' < EventWork(s)
    BY DEF HandleEvent, EventWork, IInv, TypeOK
  <2>2. ASSUME NEW r \in SlotIds, r # s PROVE EventWork(r)' <= EventWork(r)
    BY <2>2 DEF HandleEvent, EventWork, IInv, TypeOK
  <2>3. EventWork(s)' <= EventWork(s)
    BY <2>1 DEF EventWork
  <2> QED  BY <2>1, <2>2, <2>3
<1>2. {s} \in SUBSET slots /\ "crash" \in Reasons
  BY DEF HandleEvent, Reasons
<1>3. /\ SlotWork(s)' + 1 <= SlotWork(s)
      /\ \A r \in SlotIds \ {s} : SlotWork(r)' <= SlotWork(r)
  BY <1>1, <1>2, RetireWork DEF HandleEvent
<1>4. SlotTotal' + 1 <= SlotTotal
  BY <1>3, SlotFalls
<1>5. TaskTotal' = TaskTotal /\ CloserTotal' = CloserTotal /\ DrainWork' = DrainWork
  BY TasksSame, ClosersKeep DEF HandleEvent, closeVars, DrainWork
<1> QED
  BY <1>4, <1>5, TotalTypes, WorkTypes DEF Left

LEMMA RetireEndsFalls ==
    ASSUME IInv, FinitePool, NEW s \in SlotIds, RetireEnds(s)
    PROVE  Left' < Left
<1>1. TaskTotal' <= TaskTotal
  <2>1. CASE running[s] # None
    <3>1. PICK t \in tasks : t = running[s]
      BY <2>1 DEF RetireEnds, MayEnd, IInv, Accounting, TypeOK
    <3>2. t \in Tasks /\ retiring[s] # "none" /\ Settle(t, retiring[s])
      BY <2>1, <3>1 DEF RetireEnds, MayEnd, SettleOf, IInv, TypeOK
    <3>3. /\ TaskWork(t)' <= TaskWork(t)
          /\ \A u \in Tasks \ {t} : TaskWork(u)' <= TaskWork(u)
      BY <3>2, SettleWork, WorkTypes
    <3> QED  BY <3>3, TasksKeep
  <2>2. CASE running[s] = None
    <3>1. TaskTotal' = TaskTotal
      BY <2>2, TasksSame DEF RetireEnds, SettleOf
    <3> QED  BY <3>1, TotalTypes
  <2> QED  BY <2>1, <2>2
<1>2. SlotWork(s)' + 2 <= SlotWork(s)
  <2>1. /\ thread[s] = "dead" /\ thread'[s] = "off" /\ s \notin slots' /\ mail'[s] = NoMail
        /\ event'[s] = "none" /\ job'[s] = job[s]
    BY DEF RetireEnds, MayEnd, IInv, TypeOK
  <2>2. ThreadWork(s)' = 0 /\ ThreadWork(s) = 2 /\ EventWork(s)' = 0 /\ EventWork(s) \in Nat
    BY <2>1 DEF ThreadWork, EventWork
  <2> QED  BY <2>1, <2>2 DEF SlotWork
<1>3. ASSUME NEW r \in SlotIds \ {s} PROVE SlotWork(r)' <= SlotWork(r)
  <2>1. /\ thread'[r] = thread[r] /\ event'[r] = event[r] /\ job'[r] = job[r]
        /\ retiring'[r] = retiring[r] /\ mail'[r] = mail[r]
    BY DEF RetireEnds, IInv, TypeOK
  <2>2. r \in slots' <=> r \in slots
    BY DEF RetireEnds
  <2> QED  BY <2>1, <2>2, SlotSame
<1>4. SlotTotal' + 2 <= SlotTotal
  BY <1>2, <1>3, SlotFalls
<1>5. CloserTotal' = CloserTotal
  BY ClosersKeep DEF RetireEnds
<1> QED
  BY <1>1, <1>4, <1>5, TotalTypes, WorkTypes DEF Left

\* A thread that answers or dies.
LEMMA ThreadFalls ==
    ASSUME IInv, FinitePool, NEW s \in SlotIds, Reply(s) \/ Crash(s) \/ Stop(s)
    PROVE  Left' < Left
<1>1. SlotWork(s)' + 1 <= SlotWork(s)
  <2>1. CASE Reply(s)
    <3>1. job'[s] = None /\ job[s] # None
      BY <2>1 DEF Reply, IInv, TypeOK
    <3> QED  BY <2>1, <3>1 DEF Reply, hostVars, SlotWork, ThreadWork, EventWork
  <2>2. CASE Crash(s) \/ Stop(s)
    <3>1. /\ thread[s] = "alive" /\ thread'[s] = "dead" /\ job'[s] = None
          /\ UNCHANGED <<slots, retiring, mail>>
      BY <2>2 DEF Crash, Stop, MayStop, hostVars, IInv, TypeOK
    <3>2. ThreadWork(s) = 5 /\ ThreadWork(s)' = 2
      BY <3>1 DEF ThreadWork
    <3>3. EventWork(s)' <= EventWork(s) + 2 /\ EventWork(s) \in Nat /\ EventWork(s)' \in Nat
      BY <2>2 DEF Crash, Stop, EventWork, IInv, TypeOK
    <3> QED  BY <3>1, <3>2, <3>3 DEF SlotWork
  <2> QED  BY <2>1, <2>2
<1>2. ASSUME NEW r \in SlotIds \ {s} PROVE SlotWork(r)' <= SlotWork(r)
  <2>1. /\ thread'[r] = thread[r] /\ event'[r] = event[r] /\ job'[r] = job[r]
        /\ mail'[r] = mail[r] /\ UNCHANGED <<slots, retiring>>
    BY DEF Reply, Crash, Stop, hostVars, IInv, TypeOK
  <2> QED  BY <2>1, SlotSame
<1>3. SlotTotal' + 1 <= SlotTotal
  BY <1>1, <1>2, SlotFalls
<1>4. TaskTotal' = TaskTotal /\ CloserTotal' = CloserTotal /\ DrainWork' = DrainWork
  BY TasksSame, ClosersKeep DEF Reply, Crash, Stop, hostVars, closeVars, DrainWork
<1> QED
  BY <1>3, <1>4, TotalTypes, WorkTypes DEF Left

LEMMA NextFalls ==
    ASSUME IInv, RepliesSay, FinitePool, [Next]_vars
    PROVE  Left' < Left \/ UNCHANGED vars
<1>1. CASE DrainStep
  BY <1>1, DrainReuseFalls, DrainSpawnFalls, DrainSpawnFailsFalls, DrainStopFalls DEF DrainStep
<1>2. CASE \E t \in Tasks : Accept(t) \/ Refuse(t)
  BY <1>2, AcceptFalls, RefuseFalls
<1>3. CASE \E t \in Tasks, why \in Cancellations : Cancel(t, why)
  BY <1>3, CancelFalls
<1>4. CASE \E c \in Closers : Close(c) \/ CloseResolves(c)
  BY <1>4, CloseFalls, CloseResolvesFalls
<1>5. CASE \E s \in SlotIds : \/ HandleMessage(s) \/ HandleEvent(s) \/ RetireEnds(s)
                              \/ Reply(s) \/ Crash(s) \/ Stop(s)
  BY <1>5, HandleMessageFalls, HandleEventFalls, RetireEndsFalls, ThreadFalls
<1> QED
  BY <1>1, <1>2, <1>3, <1>4, <1>5 DEF Next

LEMMA InitiallyLeft ==
    ASSUME FinitePool, Init
    PROVE  Left <= 12 * Cardinality(Tasks) + 2 * Cardinality(Closers)
<1>1. /\ Cardinality(Tasks) \in Nat /\ Cardinality(Closers) \in Nat
      /\ Cardinality(SlotIds) \in Nat
  BY FS_CardinalityType DEF FinitePool
<1>2. 12 \in Nat /\ 2 \in Nat
  OBVIOUS
<1>3. /\ \A w : Total(Tasks, w, 12) <= Cardinality(Tasks) * 12
      /\ \A w : Total(Closers, w, 2) <= Cardinality(Closers) * 2
  BY <1>2, TotalType DEF FinitePool
<1>4. TaskTotal <= Cardinality(Tasks) * 12 /\ CloserTotal <= Cardinality(Closers) * 2
  BY <1>3 DEF TaskTotal, CloserTotal
<1>5. SlotTotal = 0
  <2> DEFINE w == [s \in SlotIds |-> SlotWork(s)]
  <2>1. \A s \in SlotIds : w[s] = 0
    BY DEF Init, SlotWork, ThreadWork, EventWork
  <2> HIDE DEF w
  <2>2. Units(SlotIds, w, 11) = {}
    BY <2>1 DEF Units
  <2> QED  BY <2>2, FS_EmptySet DEF SlotTotal, Total, w
<1>6. DrainWork = 0
  BY DEF Init, DrainWork
<1> QED
  BY <1>1, <1>4, <1>5, <1>6, TotalTypes DEF Left

\* Whatever callers, workers and timers do, each step of the pool leaves it
\* less to do: 12 steps for a call and 2 for a close() are the most there can
\* be, so drain() always returns and no retirement or retry goes on for ever.
THEOREM WorkIsBounded ==
    ASSUME FinitePool
    PROVE  Spec => /\ [](Left \in Nat /\ Left <= 12 * Cardinality(Tasks) + 2 * Cardinality(Closers))
                   /\ [][Left' < Left]_vars
<1> DEFINE Most == 12 * Cardinality(Tasks) + 2 * Cardinality(Closers)
           Bounded == Left \in Nat /\ Left <= Most
<1>1. Most \in Nat
  BY FS_CardinalityType DEF FinitePool
<1>2. Left \in Nat /\ Left' \in Nat
  BY TotalTypes
<1>3. Init => Bounded
  BY <1>2, InitiallyLeft
<1>4. IInv /\ RepliesSay /\ [Next]_vars => [Left' < Left]_vars
  BY NextFalls
<1>5. UNCHANGED vars => Left' = Left
  BY TasksSame, SlotsSame, ClosersKeep DEF vars, hostVars, closeVars, Left, DrainWork
<1>6. IInv /\ RepliesSay /\ [Next]_vars /\ Bounded => Bounded'
  BY <1>1, <1>2, <1>4, <1>5
<1> HIDE DEF Bounded
<1>7. Spec => []Bounded /\ [][Left' < Left]_vars
  BY <1>3, <1>4, <1>6, InductiveInvariant, RepliesAlwaysSay, PTL DEF Spec
<1> QED
  BY <1>7 DEF Bounded

-----------------------------------------------------------------------------
(* The pool never waits for an event that need not come.                   *)

\* Something the code or its timers will do by themselves: a turn of drain(),
\* the timer of a call nothing has cancelled, the end of a retired worker, or
\* the answer of close().  No client, and no reply of a worker, is needed.
Moves ==
    \/ pc = "drain"
    \/ \E t \in Tasks : MayCancel(t) /\ ~\E s \in slots : running[s] = t /\ retiring[s] # "none"
    \/ \E s \in SlotIds : MayStop(s) \/ MayEnd(s)
    \/ \E c \in Closers : MayResolve(c)

\* A close() waits for slots that are on their way out.
Awaited ==
    \A c \in Closers : awaiting[c] \subseteq slots /\ \A s \in awaiting[c] : retiring[s] # "none"

LEMMA AwaitedStep ==
    ASSUME TypeOK, Awaited, [Next]_vars
    PROVE  Awaited'
<1>1. ASSUME NEW S, NEW why \in Reasons, Retire(S, why), UNCHANGED <<slots, awaiting>>
      PROVE  Awaited'
  BY <1>1 DEF Retire, Reasons, Cancellations, Awaited, TypeOK
<1>2. ASSUME UNCHANGED <<slots, awaiting, retiring>> PROVE Awaited'
  BY <1>2 DEF Awaited
<1>3. ASSUME NEW s \in SlotIds, DrainReuse(s) \/ DrainSpawn(s) PROVE Awaited'
  <2>1. CASE UNCHANGED retiring
    BY <1>3, <2>1 DEF DrainReuse, DrainSpawn, closeVars, Awaited
  <2>2. CASE Retire({s}, "clone")
    BY <1>3, <2>2 DEF DrainReuse, DrainSpawn, closeVars, Awaited, Retire, TypeOK
  <2> QED  BY <1>3, <2>1, <2>2 DEF DrainReuse, DrainSpawn, Assign
<1>4. CASE DrainSpawnFails \/ DrainStop
  BY <1>2, <1>4 DEF DrainSpawnFails, DrainStop, hostVars, closeVars
<1>5. ASSUME NEW t \in Tasks, Accept(t) \/ Refuse(t) PROVE Awaited'
  BY <1>2, <1>5 DEF Accept, Refuse, closeVars
<1>6. ASSUME NEW t \in Tasks, NEW why \in Cancellations, Cancel(t, why) PROVE Awaited'
  <2>1. why \in Reasons
    BY DEF Reasons
  <2> QED  BY <1>1, <1>2, <1>6, <2>1 DEF Cancel, CancelQueued, CancelRunning, closeVars
<1>7. ASSUME NEW c \in Closers, Close(c) PROVE Awaited'
  <2>1. /\ slots' = slots /\ \A s \in slots : retiring'[s] # "none"
        /\ \A b \in Closers : awaiting'[b] \in {slots, awaiting[b]}
    BY <1>7 DEF Close, Retire, TypeOK
  <2>2. \A b \in Closers : awaiting[b] \subseteq slots
    BY DEF Awaited
  <2> QED  BY <2>1, <2>2 DEF Awaited
<1>8. ASSUME NEW c \in Closers, CloseResolves(c) PROVE Awaited'
  BY <1>2, <1>8 DEF CloseResolves, hostVars
<1>9. ASSUME NEW s \in SlotIds, HandleMessage(s) PROVE Awaited'
  BY <1>2, <1>9 DEF HandleMessage, closeVars
<1>10. ASSUME NEW s \in SlotIds, HandleEvent(s) PROVE Awaited'
  BY <1>1, <1>10 DEF HandleEvent, closeVars, Reasons
<1>11. ASSUME NEW s \in SlotIds, RetireEnds(s) PROVE Awaited'
  BY <1>11 DEF RetireEnds, Awaited, TypeOK
<1>12. ASSUME NEW s \in SlotIds, Reply(s) \/ Crash(s) \/ Stop(s) PROVE Awaited'
  BY <1>2, <1>12 DEF Reply, Crash, Stop, hostVars, closeVars
<1>13. CASE UNCHANGED vars
  BY <1>2, <1>13 DEF vars, hostVars, closeVars
<1> QED
  BY <1>3, <1>4, <1>5, <1>6, <1>7, <1>8, <1>9, <1>10, <1>11, <1>12, <1>13 DEF Next, DrainStep

\* While a call is pending or a close() waits, the pool can go on by itself,
\* however its workers behave: with WorkIsBounded, and a scheduler that takes
\* such steps, every call settles and every close() resolves.
THEOREM NeverStuck ==
    Spec => [](Moves \/ (tasks = {} /\ \A c \in Closers : closer[c] # "waiting"))
<1> DEFINE Rest == tasks = {} /\ \A c \in Closers : closer[c] # "waiting"
<1>1. IInv /\ Awaited => Moves \/ Rest
  <2> SUFFICES ASSUME IInv, Awaited, pc = "loop", ~Rest PROVE Moves
    BY DEF IInv, TypeOK, Moves
  <2>1. ASSUME NEW s \in slots, retiring[s] # "none" PROVE Moves
    <3>1. s \in SlotIds /\ thread[s] \in {"alive", "dead"}
      BY DEF IInv, TypeOK, PoolBound
    <3> QED  BY <2>1, <3>1 DEF Moves, MayStop, MayEnd
  <2>2. ASSUME NEW t \in tasks PROVE Moves
    <3>1. t \in Tasks /\ MayCancel(t)
      BY DEF MayCancel, IInv, TypeOK
    <3> QED  BY <2>1, <3>1 DEF Moves
  <2>3. ASSUME NEW c \in Closers, closer[c] = "waiting" PROVE Moves
    <3>1. CASE awaiting[c] = {}
      BY <2>3, <3>1 DEF Moves, MayResolve
    <3>2. CASE awaiting[c] # {}
      BY <2>1, <3>2 DEF Awaited
    <3> QED  BY <3>1, <3>2
  <2> QED  BY <2>2, <2>3
<1>2. Init => Awaited
  BY DEF Init, Awaited
<1>3. IInv /\ Awaited /\ [Next]_vars => Awaited'
  BY AwaitedStep DEF IInv
<1> QED
  BY <1>1, <1>2, <1>3, InductiveInvariant, PTL DEF Spec

=============================================================================
