-------------------------- MODULE EvalRuntimeProofs --------------------------
(***************************************************************************)
(* The guardrail bounds the nesting of live activations and the counter    *)
(* comes back to zero, for every syntax tree and every limit: the counter  *)
(* is never below the number of activations that have begun and go on, nor *)
(* above that number with those that threw, and above a live activation is *)
(* a chain of such activations up to the root.                             *)
(***************************************************************************)
EXTENDS EvalRuntime, DataFacts, FiniteSetTheorems

TypeOK ==
    /\ status \in [Nodes -> {"new", "yielding", "active", "done", "threw"}]
    /\ thrown \in [Nodes -> Codes \cup {"none"}]
    /\ \A n \in Nodes : status[n] = "threw" => thrown[n] \in Codes
    /\ rejection \in [Nodes -> Codes \cup {"none"}]
    /\ depth \in Nat
    /\ aborted \in BOOLEAN /\ late \in BOOLEAN
    /\ outcome \in Codes \cup {"pending", "value"}

Started(m) == status[m] # "new"

\* Activations that go on, or threw after an operand had been started; and
\* those with the ones that threw at once.
Begun == {n \in Nodes : \/ status[n] = "active"
                        \/ status[n] = "threw" /\ \E m \in Operands(n) : Started(m)}
Held == {n \in Nodes : status[n] \in {"active", "threw"}}

\* Operands run while their node does, or after it threw.
Order ==
    \A n \in Nodes \ {Root} :
        /\ Started(n) => status[Parent[n]] \in {"active", "threw", "done"}
        /\ status[n] \in {"yielding", "active", "threw"} => status[Parent[n]] \in {"active", "threw"}

\* The way from a node up to the root, within a set.
Chain(S, n) ==
    /\ n \in S /\ Root \in S
    /\ Cardinality(S) = Level[n]
    /\ \A x \in S \ {n} : \E m \in S : m \in Operands(x)
Chained == \A n \in Begun : \E S \in SUBSET Begun : Chain(S, n)

Counted == Cardinality(Begun) <= depth /\ depth <= Cardinality(Held)

\* An operand rejects with an abort only after the signal, and $eval hides
\* only what is no abort.
Aborts ==
    \A n \in Nodes :
        /\ rejection[n] = "abort" => aborted
        /\ thrown[n] = "D3121" => rejection[n] \notin {"none", "abort"}

\* The inductive invariant of the counter.
IInv ==
    /\ TypeOK /\ Order /\ Chained /\ Counted
    /\ \A n \in Nodes : status[n] = "active" => Level[n] <= Stack
    /\ outcome = "value" => status[Root] = "done"
-----------------------------------------------------------------------------
(* The tree and its sets of activations.                                   *)

\* A node that may be entered, or that goes on after it let the event loop run.
Entry(n) ==
    /\ n \in Nodes
    /\ status[n] = "yielding" \/ (status[n] = "new" /\ (n # Root => status[Parent[n]] = "active"))

Moves(n, what) == status' = [status EXCEPT ![n] = what]

LEMMA NotItsOwnParent ==
    ASSUME NEW n \in Nodes PROVE n \notin Operands(n)
  BY TreeAssumption DEF Operands

LEMMA FiniteSets ==
    /\ IsFiniteSet(Begun) /\ Cardinality(Begun) \in Nat
    /\ IsFiniteSet(Held) /\ Cardinality(Held) \in Nat
<1>1. Begun \in SUBSET Nodes /\ Held \in SUBSET Nodes
  BY DEF Begun, Held
<1>2. QED
  BY <1>1, TreeAssumption, FS_Subset, FS_CardinalityType

LEMMA BegunIsHeld ==
    Begun \subseteq Held
  BY DEF Begun, Held

\* What may be entered has no started operand, and its parent has begun.
LEMMA EntryFacts ==
    ASSUME TypeOK, Order, NEW n, Entry(n)
    PROVE  /\ n \notin Begun /\ n \notin Held
           /\ \A m \in Operands(n) : ~Started(m) /\ m # n
           /\ n # Root => Parent[n] \in Begun /\ Parent[n] # n
<1>1. n \notin Begun /\ n \notin Held
  BY DEF Entry, Begun, Held
<1>2. \A m \in Operands(n) : ~Started(m) /\ m # n
  BY NotItsOwnParent DEF Entry, Order, Operands
<1>3. n # Root => Parent[n] \in Begun /\ Parent[n] # n
  BY TreeAssumption, NotItsOwnParent DEF Entry, Order, Operands, Started, Begun
<1>4. QED
  BY <1>1, <1>2, <1>3

\* An entry changes nothing about the nodes that had begun.
LEMMA EntryKeepsOthers ==
    ASSUME TypeOK, Order, NEW n, Entry(n), NEW what, what # "new", Moves(n, what)
    PROVE  /\ \A m \in Nodes \ {n} : m \in Begun' <=> m \in Begun
           /\ \A m \in Nodes \ {n} : m \in Held' <=> m \in Held
           /\ what # "active" => n \notin Begun'
<1>0. n \in Nodes /\ status'[n] = what /\ \A m \in Nodes \ {n} : status'[m] = status[m]
  BY DEF Entry, Moves, TypeOK
<1>1. ASSUME NEW m \in Nodes \ {n} PROVE m \in Begun' <=> m \in Begun
  <2>1. CASE status[m] = "threw"
    <3>1. ASSUME NEW k \in Operands(m) PROVE Started(k)' <=> Started(k)
      BY <1>0, <2>1, <3>1 DEF Operands, Started, Entry
    <3>2. QED
      BY <1>0, <2>1, <3>1 DEF Begun, Operands
  <2>2. CASE status[m] # "threw"
    BY <1>0, <2>2 DEF Begun
  <2>3. QED
    BY <2>1, <2>2
<1>2. \A m \in Nodes \ {n} : m \in Held' <=> m \in Held
  BY <1>0 DEF Held
<1>3. what # "active" => n \notin Begun'
  BY <1>0, EntryFacts DEF Begun, Operands, Started
<1>4. QED
  BY <1>1, <1>2, <1>3

\* Order after an entry.
LEMMA EntryKeepsOrder ==
    ASSUME TypeOK, Order, NEW n, Entry(n), NEW what \in {"yielding", "active", "done", "threw"}, Moves(n, what)
    PROVE  Order'
<1>0. n \in Nodes /\ status'[n] = what /\ \A m \in Nodes \ {n} : status'[m] = status[m]
  BY DEF Entry, Moves, TypeOK
<1>1. ASSUME NEW m \in Nodes \ {Root}
      PROVE  /\ Started(m)' => status'[Parent[m]] \in {"active", "threw", "done"}
             /\ status'[m] \in {"yielding", "active", "threw"} => status'[Parent[m]] \in {"active", "threw"}
  <2>1. CASE m = n
    BY <1>0, <2>1, EntryFacts DEF Entry, Begun
  <2>2. CASE m # n /\ Parent[m] = n
    BY <1>0, <2>2, EntryFacts, TreeAssumption DEF Operands, Started
  <2>3. CASE m # n /\ Parent[m] # n
    BY <1>0, <2>3, TreeAssumption DEF Order, Started
  <2>4. QED
    BY <2>1, <2>2, <2>3
<1>2. QED
  BY <1>1 DEF Order
-----------------------------------------------------------------------------
(* The kinds of step of an activation.                                     *)

\* One that begins lengthens the chain of its parent.
LEMMA BeginKeepsCount ==
    ASSUME IInv, NEW n, Entry(n), Moves(n, "active"), depth' = depth + 1, depth + 1 <= Stack
    PROVE  /\ Chained' /\ Counted'
           /\ Level[n] <= Stack
<1> USE DEF IInv
<1>0. n \in Nodes /\ status'[n] = "active" /\ n \notin Begun
  BY EntryFacts DEF Entry, Moves, TypeOK
<1>1. Begun' = Begun \cup {n} /\ n \notin Begun /\ n \in Nodes
  <2>1. \A m \in Nodes \ {n} : m \in Begun' <=> m \in Begun
    BY EntryKeepsOthers
  <2>2. n \in Begun' /\ Begun' \subseteq Nodes /\ Begun \subseteq Nodes
    BY <1>0 DEF Begun
  <2>3. QED
    BY <1>0, <2>1, <2>2
<1>2. Held' = Held \cup {n} /\ n \notin Held
  BY EntryFacts, EntryKeepsOthers DEF Held, Entry, Moves, TypeOK
<1>3. PICK S \in SUBSET Begun' : Chain(S, n) /\ Cardinality(S) <= Cardinality(Begun) + 1
  <2>1. CASE n = Root
    <3>1. {n} \in SUBSET Begun' /\ Cardinality({n}) = 1 /\ Level[n] = 1
      BY <1>1, <2>1, TreeAssumption, FS_Singleton
    <3>2. Chain({n}, n)
      BY <2>1, <3>1 DEF Chain
    <3>3. QED
      BY <3>1, <3>2, FiniteSets
  <2>2. CASE n # Root
    <3>1. Parent[n] \in Begun /\ Parent[n] # n /\ n \in Operands(Parent[n])
      BY <1>1, <2>2, EntryFacts DEF Operands
    <3>2. PICK T \in SUBSET Begun : Chain(T, Parent[n])
      BY <3>1 DEF Chained
    <3>3. IsFiniteSet(T) /\ Cardinality(T) \in Nat /\ Cardinality(T) <= Cardinality(Begun)
      BY FiniteSets, FS_Subset, FS_CardinalityType
    <3>4. Cardinality(T \cup {n}) = Level[n]
      BY <1>1, <2>2, <3>2, <3>3, FS_AddElement, TreeAssumption DEF Chain
    <3>5. Chain(T \cup {n}, n)
      BY <3>1, <3>2, <3>4 DEF Chain
    <3>6. Level[n] <= Cardinality(Begun) + 1
      <4>1. n \notin T
        BY <1>1
      <4>2. Cardinality(T \cup {n}) = Cardinality(T) + 1
        BY <3>3, <4>1, FS_AddElement
      <4>3. QED
        BY <3>3, <3>4, <4>2, FiniteSets
    <3>7. QED
      BY <1>1, <3>4, <3>5, <3>6
  <2>3. QED
    BY <2>1, <2>2
<1>4. Level[n] <= Stack
  BY <1>1, <1>3, FiniteSets, TreeAssumption, StackAssumption DEF Chain, Counted, TypeOK
<1>5. Chained'
  <2>1. ASSUME NEW m \in Begun' PROVE \E T \in SUBSET Begun' : Chain(T, m)
    BY <1>1, <1>3, <2>1 DEF Chained
  <2>2. QED
    BY <2>1 DEF Chained, Chain
<1>6. Counted'
  <2>1. Cardinality(Begun') = Cardinality(Begun) + 1 /\ Cardinality(Held') = Cardinality(Held) + 1
    BY <1>1, <1>2, FiniteSets, FS_AddElement
  <2>2. QED
    BY <2>1, FiniteSets DEF Counted, TypeOK
<1>7. QED
  BY <1>4, <1>5, <1>6

\* One that is refused has taken a count, or none.
LEMMA RefusalKeepsCount ==
    ASSUME IInv, NEW n, Entry(n), Moves(n, "threw"), depth' \in {depth, depth + 1}
    PROVE  Chained' /\ Counted'
<1> USE DEF IInv
<1>1. Begun' = Begun
  BY EntryFacts, EntryKeepsOthers DEF Begun
<1>2. Held' = Held \cup {n} /\ n \notin Held
  BY EntryFacts, EntryKeepsOthers DEF Held, Entry, Moves, TypeOK
<1>3. Chained'
  BY <1>1 DEF Chained, Chain
<1>4. Counted'
  <2>1. Cardinality(Held') = Cardinality(Held) + 1
    BY <1>2, FiniteSets, FS_AddElement
  <2>2. QED
    BY <1>1, <2>1, FiniteSets DEF Counted, TypeOK
<1>5. QED
  BY <1>3, <1>4

\* One that ends at once, or waits, takes none.
LEMMA QuietKeepsCount ==
    ASSUME IInv, NEW n, Entry(n), NEW what \in {"yielding", "done"}, Moves(n, what), depth' = depth
    PROVE  Chained' /\ Counted'
<1> USE DEF IInv
<1>1. Begun' = Begun
  BY EntryFacts, EntryKeepsOthers DEF Begun
<1>2. Held' = Held
  BY EntryFacts, EntryKeepsOthers DEF Held, Entry, Moves, TypeOK
<1>3. QED
  BY <1>1, <1>2 DEF Chained, Chain, Counted

\* One that ends is in no chain but its own, unless it threw with an operand
\* going on.
LEMMA EndKeepsChains ==
    ASSUME IInv, NEW n \in Nodes, status[n] = "active", NEW what \in {"done", "threw"}, Moves(n, what),
           what = "done" => \A m \in Operands(n) : status[m] \in {"new", "done"}
    PROVE  /\ Begun' \subseteq Begun /\ Chained' /\ Order'
           /\ what = "done" => n \in Begun /\ n \notin Begun' /\ Held' = Held \ {n} /\ n \in Held
           /\ what = "threw" => Held' = Held
<1> USE DEF IInv
<1>0. status'[n] = what /\ (\A m \in Nodes \ {n} : status'[m] = status[m]) /\ (\A m \in Nodes : Started(m)' <=> Started(m))
  BY DEF Moves, TypeOK, Started
<1>1. Begun' \subseteq Begun
  BY <1>0 DEF Begun, Operands
<1>2. ASSUME NEW x \in Begun, NEW m \in Begun, m \in Operands(x) PROVE x \in Begun'
  BY <1>0, <1>2 DEF Begun, Operands, Started
<1>3. Chained'
  <2>1. ASSUME NEW y \in Begun' PROVE \E S \in SUBSET Begun' : Chain(S, y)
    <3>1. PICK S \in SUBSET Begun : Chain(S, y)
      BY <1>1 DEF Chained
    <3>2. S \in SUBSET Begun'
      BY <1>2, <3>1 DEF Chain
    <3>3. QED
      BY <3>1, <3>2
  <2>2. QED
    BY <2>1 DEF Chained, Chain
<1>4. Order'
  <2>1. ASSUME NEW m \in Nodes \ {Root}
        PROVE  /\ Started(m)' => status'[Parent[m]] \in {"active", "threw", "done"}
               /\ status'[m] \in {"yielding", "active", "threw"} => status'[Parent[m]] \in {"active", "threw"}
    <3>1. CASE Parent[m] = n
      BY <1>0, <3>1, NotItsOwnParent DEF Operands, TypeOK
    <3>2. CASE Parent[m] # n /\ m = n
      BY <1>0, <3>2, TreeAssumption DEF Order, Started
    <3>3. CASE Parent[m] # n /\ m # n
      BY <1>0, <3>3, TreeAssumption DEF Order, Started
    <3>4. QED
      BY <3>1, <3>2, <3>3
  <2>2. QED
    BY <2>1 DEF Order
<1>5. what = "done" => n \in Begun /\ n \notin Begun' /\ Held' = Held \ {n} /\ n \in Held
  BY <1>0 DEF Begun, Held
<1>6. what = "threw" => Held' = Held
  BY <1>0 DEF Held
<1>7. QED
  BY <1>1, <1>3, <1>4, <1>5, <1>6
-----------------------------------------------------------------------------
(* Types and codes.                                                        *)

LEMMA ThrowTypes ==
    ASSUME TypeOK, NEW n \in Nodes, NEW code \in Codes, Throw(n, code), depth' \in Nat,
           UNCHANGED <<aborted, late, outcome>>
    PROVE  TypeOK'
  BY TreeAssumption DEF TypeOK, Throw, Is

LEMMA BeginTypes ==
    ASSUME TypeOK, NEW n \in Nodes, Begin(n), UNCHANGED <<aborted, late, outcome>>
    PROVE  TypeOK'
<1>1. depth + 1 \in Nat
  BY DEF TypeOK
<1>2. CASE \E code \in {"D1011", "D1012"} : Throw(n, code) /\ depth' = depth + 1
  BY <1>1, <1>2, ThrowTypes DEF Codes
<1>3. CASE Is(n, "done") /\ UNCHANGED <<depth, thrown, rejection>>
  BY <1>3 DEF TypeOK, Is
<1>4. CASE Is(n, "active") /\ depth' = depth + 1 /\ UNCHANGED <<thrown, rejection>>
  BY <1>1, <1>4 DEF TypeOK, Is
<1>5. QED
  BY <1>2, <1>3, <1>4 DEF Begin

\* An active node is counted, so that there is a count to give back.
LEMMA TypeStep ==
    ASSUME TypeOK, [Next]_vars,
           \A n \in Nodes : status[n] = "active" => depth > 0
    PROVE  TypeOK'
<1>1. ASSUME NEW n \in Nodes, Enter(n) PROVE TypeOK'
  BY <1>1, ThrowTypes, BeginTypes DEF Enter, Codes, TypeOK
<1>2. ASSUME NEW n \in Nodes, Yield(n) PROVE TypeOK'
  BY <1>2 DEF Yield, Is, TypeOK
<1>3. ASSUME NEW n \in Nodes, Resume(n) PROVE TypeOK'
  BY <1>3, ThrowTypes, BeginTypes DEF Resume, Codes, TypeOK
<1>4. ASSUME NEW n \in Nodes, Return(n) PROVE TypeOK'
  <2>1. depth - 1 \in Nat
    BY <1>4 DEF Return, MayReturn, TypeOK
  <2>2. QED
    BY <1>4, <2>1 DEF Return, Is, TypeOK
<1>5. ASSUME NEW n \in Nodes, Fail(n) PROVE TypeOK'
  BY <1>5, ThrowTypes DEF Fail, Codes, TypeOK
<1>6. ASSUME NEW n \in Nodes, Reject(n) PROVE TypeOK'
  <2>1. Reclassify(n) \in Codes
    BY <1>6 DEF Reject, MayReject, Reclassify, Codes, TypeOK
  <2>2. QED
    BY <1>6, <2>1, ThrowTypes DEF Reject, TypeOK
<1>7. CASE Deliver
  BY <1>7, TreeAssumption DEF Deliver, MayDeliver, TypeOK, Codes
<1>8. CASE Abort \/ DeadlinePasses \/ UNCHANGED vars
  BY <1>8 DEF Abort, DeadlinePasses, vars, TypeOK
<1>9. QED
  BY <1>1, <1>2, <1>3, <1>4, <1>5, <1>6, <1>7, <1>8 DEF Next, Step

LEMMA ThrowAborts ==
    ASSUME TypeOK, Aborts, NEW n \in Nodes, NEW code \in Codes, Throw(n, code), UNCHANGED aborted,
           code = "abort" => aborted,
           code = "D3121" => rejection[n] \notin {"none", "abort"}
    PROVE  Aborts'
<1>1. ASSUME NEW m \in Nodes, rejection'[m] = "abort" PROVE aborted'
  BY <1>1 DEF Throw, TypeOK, Aborts
<1>2. ASSUME NEW m \in Nodes, thrown'[m] = "D3121" PROVE rejection'[m] \notin {"none", "abort"}
  <2>1. rejection[m] \notin {"none", "abort"}
    BY <1>2 DEF Throw, TypeOK, Aborts
  <2>2. rejection'[m] = rejection[m]
    BY <2>1 DEF Throw, TypeOK
  <2>3. QED
    BY <2>1, <2>2
<1>3. QED
  BY <1>1, <1>2 DEF Aborts

LEMMA BeginAborts ==
    ASSUME TypeOK, Aborts, NEW n \in Nodes, Begin(n), UNCHANGED aborted
    PROVE  Aborts'
  BY ThrowAborts DEF Begin, Aborts, Codes

LEMMA AbortStep ==
    ASSUME TypeOK, Aborts, [Next]_vars
    PROVE  Aborts'
<1>1. ASSUME NEW n \in Nodes, Enter(n) PROVE Aborts'
  BY <1>1, ThrowAborts, BeginAborts DEF Enter, Codes
<1>2. ASSUME NEW n \in Nodes, Yield(n) PROVE Aborts'
  BY <1>2 DEF Yield, Aborts
<1>3. ASSUME NEW n \in Nodes, Resume(n) PROVE Aborts'
  BY <1>3, ThrowAborts, BeginAborts DEF Resume, Codes
<1>4. ASSUME NEW n \in Nodes, Return(n) PROVE Aborts'
  BY <1>4 DEF Return, Aborts
<1>5. ASSUME NEW n \in Nodes, Fail(n) PROVE Aborts'
  BY <1>5, ThrowAborts DEF Fail, Codes
<1>6. ASSUME NEW n \in Nodes, Reject(n) PROVE Aborts'
  <2>1. /\ Reclassify(n) \in Codes
        /\ Reclassify(n) = "abort" => aborted
        /\ Reclassify(n) = "D3121" => rejection[n] \notin {"none", "abort"}
    BY <1>6 DEF Reject, MayReject, Reclassify, Codes, TypeOK, Aborts
  <2>2. QED
    BY <1>6, <2>1, ThrowAborts DEF Reject
<1>7. CASE Deliver \/ Abort \/ DeadlinePasses \/ UNCHANGED vars
  BY <1>7 DEF Deliver, Abort, DeadlinePasses, vars, Aborts
<1>8. QED
  BY <1>1, <1>2, <1>3, <1>4, <1>5, <1>6, <1>7 DEF Next, Step
-----------------------------------------------------------------------------
(* The counter.                                                            *)

\* What an activation's step leaves true of the delivered value.
LEMMA DeliveredStays ==
    ASSUME IInv, NEW n \in Nodes, status[n] \in {"new", "yielding", "active"}, NEW what, Moves(n, what),
           UNCHANGED outcome
    PROVE  outcome' = "value" => status'[Root] = "done"
  BY DEF IInv, TypeOK, Moves

LEMMA ActiveIsCounted ==
    ASSUME IInv, NEW n \in Nodes, status[n] = "active"
    PROVE  depth > 0
<1>1. n \in Begun
  BY DEF Begun
<1>2. Cardinality(Begun) # 0
  BY <1>1, FiniteSets, FS_EmptySet
<1>3. QED
  BY <1>2, FiniteSets DEF IInv, Counted, TypeOK

\* The part of the invariant that an entry could break.
LEMMA RefusalStep ==
    ASSUME IInv, NEW n \in Nodes, Entry(n), NEW code \in Codes, Throw(n, code),
           depth' \in {depth, depth + 1}, UNCHANGED <<aborted, late, outcome>>
    PROVE  IInv'
<1>1. Moves(n, "threw")
  BY DEF Throw, Is, Moves
<1>2. TypeOK'
  BY ThrowTypes DEF IInv, TypeOK
<1>3. Order' /\ Chained' /\ Counted'
  BY <1>1, EntryKeepsOrder, RefusalKeepsCount DEF IInv
<1>4. \A m \in Nodes : status'[m] = "active" => Level[m] <= Stack
  BY <1>1 DEF IInv, TypeOK, Moves
<1>5. outcome' = "value" => status'[Root] = "done"
  BY <1>1, DeliveredStays DEF Entry
<1>6. QED
  BY <1>2, <1>3, <1>4, <1>5 DEF IInv

LEMMA QuietStep ==
    ASSUME IInv, NEW n \in Nodes, Entry(n), NEW what \in {"yielding", "done"}, Moves(n, what),
           UNCHANGED <<thrown, rejection, depth, aborted, late, outcome>>
    PROVE  IInv'
<1>1. TypeOK'
  BY DEF IInv, TypeOK, Moves
<1>2. Order' /\ Chained' /\ Counted'
  BY EntryKeepsOrder, QuietKeepsCount DEF IInv
<1>3. \A m \in Nodes : status'[m] = "active" => Level[m] <= Stack
  BY DEF IInv, TypeOK, Moves
<1>4. outcome' = "value" => status'[Root] = "done"
  BY DeliveredStays DEF Entry
<1>5. QED
  BY <1>1, <1>2, <1>3, <1>4 DEF IInv

LEMMA BeginStep ==
    ASSUME IInv, NEW n \in Nodes, Entry(n), Begin(n), UNCHANGED <<aborted, late, outcome>>
    PROVE  IInv'
<1>1. CASE \E code \in {"D1011", "D1012"} : Throw(n, code) /\ depth' = depth + 1
  BY <1>1, RefusalStep DEF Codes
<1>2. CASE Is(n, "done") /\ UNCHANGED <<depth, thrown, rejection>>
  BY <1>2, QuietStep DEF Is, Moves
<1>3. CASE Is(n, "active") /\ depth' = depth + 1 /\ depth + 1 <= Stack /\ UNCHANGED <<thrown, rejection>>
  <2>1. Moves(n, "active")
    BY <1>3 DEF Is, Moves
  <2>2. TypeOK'
    BY BeginTypes DEF IInv
  <2>3. Order' /\ Chained' /\ Counted' /\ Level[n] <= Stack
    BY <1>3, <2>1, EntryKeepsOrder, BeginKeepsCount DEF IInv
  <2>4. \A m \in Nodes : status'[m] = "active" => Level[m] <= Stack
    BY <2>1, <2>3 DEF IInv, TypeOK, Moves
  <2>5. outcome' = "value" => status'[Root] = "done"
    BY <2>1, DeliveredStays DEF Entry
  <2>6. QED
    BY <2>2, <2>3, <2>4, <2>5 DEF IInv
<1>4. QED
  BY <1>1, <1>2, <1>3, StackAssumption DEF Begin, IInv, TypeOK

LEMMA EndStep ==
    ASSUME IInv, NEW n \in Nodes, status[n] = "active", NEW what \in {"done", "threw"}, Moves(n, what), TypeOK',
           what = "done" => depth' = depth - 1 /\ \A m \in Operands(n) : status[m] \in {"new", "done"},
           what = "threw" => depth' = depth,
           UNCHANGED outcome
    PROVE  IInv'
<1>1. Order' /\ Chained' /\ Begun' \subseteq Begun
  BY EndKeepsChains
<1>2. Counted'
  <2>1. CASE what = "done"
    <3>1. Begun' \subseteq Begun \ {n} /\ n \in Begun /\ Held' = Held \ {n} /\ n \in Held
      BY <2>1, EndKeepsChains
    <3>2. Cardinality(Begun \ {n}) = Cardinality(Begun) - 1 /\ Cardinality(Held') = Cardinality(Held) - 1
      BY <3>1, FiniteSets, FS_RemoveElement
    <3>3. IsFiniteSet(Begun \ {n})
      BY FiniteSets, FS_RemoveElement
    <3>4. Cardinality(Begun') <= Cardinality(Begun \ {n})
      BY <3>1, <3>3, FS_Subset
    <3>5. Cardinality(Begun') \in Nat
      BY <3>1, <3>3, FS_Subset, FS_CardinalityType
    <3>6. QED
      BY <2>1, <3>2, <3>4, <3>5, FiniteSets DEF IInv, Counted, TypeOK
  <2>2. CASE what = "threw"
    <3>1. Held' = Held
      BY <2>2, EndKeepsChains
    <3>2. Cardinality(Begun') <= Cardinality(Begun) /\ Cardinality(Begun') \in Nat
      BY <1>1, FiniteSets, FS_Subset, FS_CardinalityType
    <3>3. QED
      BY <2>2, <3>1, <3>2, FiniteSets DEF IInv, Counted, TypeOK
  <2>3. QED
    BY <2>1, <2>2
<1>3. \A m \in Nodes : status'[m] = "active" => Level[m] <= Stack
  BY DEF IInv, TypeOK, Moves
<1>4. outcome' = "value" => status'[Root] = "done"
  BY DeliveredStays
<1>5. QED
  BY <1>1, <1>2, <1>3, <1>4 DEF IInv

LEMMA CountStep ==
    ASSUME IInv, [Next]_vars
    PROVE  IInv'
<1>0. TypeOK'
  BY TypeStep, ActiveIsCounted DEF IInv
<1>1. ASSUME NEW n \in Nodes, Enter(n) PROVE IInv'
  <2>1. Entry(n)
    BY <1>1 DEF Enter, MayEnter, Entry
  <2>2. QED
    BY <1>1, <2>1, RefusalStep, BeginStep DEF Enter, Codes
<1>2. ASSUME NEW n \in Nodes, Yield(n) PROVE IInv'
  <2>1. Entry(n) /\ Moves(n, "yielding")
    BY <1>2 DEF Yield, MayEnter, Entry, Is, Moves
  <2>2. QED
    BY <1>2, <2>1, QuietStep DEF Yield
<1>3. ASSUME NEW n \in Nodes, Resume(n) PROVE IInv'
  <2>1. Entry(n)
    BY <1>3 DEF Resume, Entry
  <2>2. QED
    BY <1>3, <2>1, RefusalStep, BeginStep DEF Resume, Codes
<1>4. ASSUME NEW n \in Nodes, Return(n) PROVE IInv'
  <2>1. Moves(n, "done") /\ \A m \in Operands(n) : status[m] \in {"new", "done"}
    BY <1>4 DEF Return, MayReturn, Is, Moves
  <2>2. QED
    BY <1>0, <1>4, <2>1, EndStep DEF Return, MayReturn
<1>5. ASSUME NEW n \in Nodes, Fail(n) \/ Reject(n) PROVE IInv'
  <2>1. Moves(n, "threw")
    BY <1>5 DEF Fail, Reject, Throw, Is, Moves
  <2>2. QED
    BY <1>0, <1>5, <2>1, EndStep DEF Fail, Reject, MayReject
<1>6. CASE Deliver
  <2>1. UNCHANGED <<status, depth>>
    BY <1>6 DEF Deliver
  <2>2. Order' /\ Chained' /\ Counted' /\ (\A m \in Nodes : status'[m] = "active" => Level[m] <= Stack)
    BY <2>1 DEF IInv, Order, Chained, Chain, Counted, Begun, Held, Started
  <2>3. outcome' = "value" => status'[Root] = "done"
    BY <1>6, TreeAssumption DEF Deliver, MayDeliver, IInv, TypeOK, Codes
  <2>4. QED
    BY <1>0, <2>2, <2>3 DEF IInv
<1>7. CASE Abort \/ DeadlinePasses \/ UNCHANGED vars
  <2>1. UNCHANGED <<status, depth, outcome>>
    BY <1>7 DEF Abort, DeadlinePasses, vars
  <2>2. QED
    BY <1>0, <2>1 DEF IInv, Order, Chained, Chain, Counted, Begun, Held, Started
<1>8. QED
  BY <1>1, <1>2, <1>3, <1>4, <1>5, <1>6, <1>7 DEF Next, Step
-----------------------------------------------------------------------------
(* Theorems.                                                               *)

LEMMA Initially ==
    ASSUME Init
    PROVE  IInv /\ Aborts
<1>1. TypeOK /\ Aborts /\ Order
  BY DEF Init, TypeOK, Codes, Aborts, Order, Started
<1>2. Begun = {} /\ Held = {}
  BY DEF Init, Begun, Held
<1>3. Chained /\ Counted
  BY <1>2, FS_EmptySet DEF Chained, Counted, Init
<1>4. QED
  BY <1>1, <1>3 DEF IInv, Init

\* The counter and the chains of live activations, in every state.
THEOREM Counting == Spec => []IInv
<1>1. Init => IInv
  BY Initially
<1>2. IInv /\ [Next]_vars => IInv'
  BY CountStep
<1>3. QED
  BY <1>1, <1>2, PTL DEF Spec

\* evaluate()'s guardrail (jsonata.js, exec_env.guardrails) bounds the nesting
\* of live activations, in every tree and for every limit, and the counter is
\* never given back more than was taken.
THEOREM NestingIsBounded == Spec => []NestingBounded
<1>1. IInv => NestingBounded
  BY DEF IInv, TypeOK, NestingBounded
<1>2. QED
  BY <1>1, Counting, PTL

\* Once the root is done nothing goes on and nothing threw.
LEMMA RootEndsLast ==
    ASSUME IInv, status[Root] = "done"
    PROVE  Held = {}
<1>1. SUFFICES ASSUME NEW n \in Held PROVE FALSE
  OBVIOUS
<1>2. n # Root /\ n \in Nodes
  BY <1>1 DEF Held
<1>3. Parent[n] \in Begun
  BY <1>1, <1>2, TreeAssumption DEF IInv, Order, Held, Begun, Operands, Started
<1>4. Root \in Begun
  BY <1>3 DEF IInv, Chained, Chain
<1>5. QED
  BY <1>4 DEF Begun

\* When the caller gets a value the shared counter is back at zero, whatever
\* was entered in parallel or skipped.
THEOREM SuccessIsBalanced == Spec => []BalancedOnSuccess
<1>1. IInv => BalancedOnSuccess
  BY RootEndsLast, FS_EmptySet DEF IInv, Counted, TypeOK, BalancedOnSuccess
<1>2. QED
  BY <1>1, Counting, PTL

\* $eval (jsonata.js, functionEval) hides the error of its
\* tree behind D3121, but never an abort.
THEOREM AbortsKeepTheirCode == Spec => []AbortKeepsItsCode
<1>1. Init => Aborts
  BY Initially
<1>2. IInv /\ Aborts /\ [Next]_vars => Aborts'
  BY AbortStep DEF IInv
<1>3. Aborts => AbortKeepsItsCode
  BY DEF Aborts, AbortKeepsItsCode
<1>4. QED
  BY <1>1, <1>2, <1>3, Counting, PTL DEF Spec

\* After an abort no activation begins and no value is delivered.
THEOREM AbortsEndWork == Spec => AbortEndsWork
<1> DEFINE Halted == /\ \A n \in Nodes : status'[n] = "active" => status[n] = "active"
                     /\ outcome' = "value" => outcome = "value"
<1>1. ASSUME TypeOK, [Next]_vars, aborted PROVE Halted
  <2>1. ASSUME NEW n \in Nodes, Enter(n) \/ Resume(n) PROVE Halted
    BY <1>1, <2>1 DEF Enter, Resume, Throw, Is, TypeOK
  <2>2. ASSUME NEW n \in Nodes, Yield(n) PROVE Halted
    BY <1>1, <2>2 DEF Yield
  <2>3. ASSUME NEW n \in Nodes, Return(n) PROVE Halted
    BY <2>3 DEF Return, MayReturn, Is, TypeOK
  <2>4. ASSUME NEW n \in Nodes, Fail(n) \/ Reject(n) PROVE Halted
    BY <1>1, <2>4 DEF Fail, Reject, Throw, Is, TypeOK
  <2>5. CASE Deliver
    BY <1>1, <2>5, TreeAssumption DEF Deliver, MayDeliver, TypeOK, Codes
  <2>6. CASE Abort \/ DeadlinePasses \/ UNCHANGED vars
    BY <2>6 DEF Abort, DeadlinePasses, vars
  <2>7. QED
    BY <1>1, <2>1, <2>2, <2>3, <2>4, <2>5, <2>6 DEF Next, Step
<1>2. IInv /\ [Next]_vars => [aborted => Halted]_vars
  BY <1>1 DEF IInv
<1>3. QED
  BY <1>2, Counting, PTL DEF Spec, AbortEndsWork
-----------------------------------------------------------------------------
(* What Settles rests on besides fairness: an evaluation that has not       *)
(* settled can take a step, and it takes only so many.                     *)

\* An operand that rejected has told its parent, and only a root that has
\* ended is delivered.
Reported ==
    /\ \A m \in Nodes \ {Root} : status[m] = "threw" => rejection[Parent[m]] # "none"
    /\ outcome # "pending" => status[Root] \in {"done", "threw"}

LEMMA ThrowReports ==
    ASSUME TypeOK, Reported, NEW n \in Nodes, NEW code \in Codes, Throw(n, code), UNCHANGED outcome
    PROVE  Reported'
<1>1. ASSUME NEW m \in Nodes \ {Root}, status'[m] = "threw" PROVE rejection'[Parent[m]] # "none"
  <2>1. Parent[m] \in Nodes
    BY TreeAssumption
  <2>2. rejection[Parent[m]] # "none" => rejection'[Parent[m]] # "none"
    BY <2>1 DEF Throw, TypeOK, Codes
  <2>3. CASE m = n
    BY <2>1, <2>3 DEF Throw, TypeOK, Codes
  <2>4. CASE m # n
    BY <1>1, <2>2, <2>4 DEF Throw, Is, TypeOK, Reported
  <2>5. QED
    BY <2>3, <2>4
<1>2. outcome' # "pending" => status'[Root] \in {"done", "threw"}
  BY DEF Throw, Is, TypeOK, Reported
<1>3. QED
  BY <1>1, <1>2 DEF Reported

LEMMA QuietReports ==
    ASSUME TypeOK, Reported, NEW n \in Nodes, status[n] \notin {"done", "threw"},
           NEW what \in {"yielding", "active", "done"}, Is(n, what), UNCHANGED <<rejection, outcome>>
    PROVE  Reported'
  BY DEF Is, TypeOK, Reported

LEMMA ReportStep ==
    ASSUME TypeOK, Reported, [Next]_vars
    PROVE  Reported'
<1>1. ASSUME NEW n \in Nodes, Begin(n), UNCHANGED outcome, status[n] \notin {"done", "threw"} PROVE Reported'
  BY <1>1, ThrowReports, QuietReports DEF Begin, Codes
<1>2. ASSUME NEW n \in Nodes, Enter(n) \/ Yield(n) \/ Resume(n) PROVE Reported'
  BY <1>1, <1>2, ThrowReports, QuietReports DEF Enter, Yield, Resume, MayEnter, Codes
<1>3. ASSUME NEW n \in Nodes, Return(n) PROVE Reported'
  BY <1>3, QuietReports DEF Return, MayReturn
<1>4. ASSUME NEW n \in Nodes, Fail(n) PROVE Reported'
  BY <1>4, ThrowReports DEF Fail, Codes
<1>5. ASSUME NEW n \in Nodes, Reject(n) PROVE Reported'
  <2>1. Reclassify(n) \in Codes
    BY <1>5 DEF Reject, MayReject, Reclassify, Codes, TypeOK
  <2>2. QED
    BY <1>5, <2>1, ThrowReports DEF Reject
<1>6. CASE Deliver \/ Abort \/ DeadlinePasses \/ UNCHANGED vars
  BY <1>6 DEF Deliver, MayDeliver, Abort, DeadlinePasses, vars, Reported
<1>7. QED
  BY <1>2, <1>3, <1>4, <1>5, <1>6 DEF Next, Step

THEOREM OperandsReport == Spec => []Reported
<1>1. Init => Reported
  BY DEF Init, Reported
<1>2. IInv /\ Reported /\ [Next]_vars => Reported'
  BY ReportStep DEF IInv
<1>3. QED
  BY <1>1, <1>2, Counting, PTL DEF Spec

\* A guard of some step holds: but for Fail and Yield, which are choices of
\* the node, an action is its guard and the assignments to all variables.
Runnable ==
    \/ \E n \in Nodes : MayEnter(n) \/ status[n] = "yielding" \/ MayReturn(n) \/ MayReject(n)
    \/ MayDeliver

\* No live activation is nested more deeply than a deepest one.
LEMMA DeepestActive ==
    ASSUME IInv, NEW k \in Nodes, status[k] = "active"
    PROVE  \E n \in Nodes : status[n] = "active" /\ \A m \in Operands(n) : status[m] # "active"
<1> DEFINE Room(n) == Stack - Level[n]
           Rooms == {Room(n) : n \in {m \in Nodes : status[m] = "active"}}
<1>1. \A n \in Nodes : status[n] = "active" => Room(n) \in Nat
  BY TreeAssumption, StackAssumption DEF IInv
<1>2. Rooms \subseteq Nat /\ Rooms # {}
  BY <1>1
<1>3. PICK r \in Rooms : \A q \in Rooms : r <= q
  <2> HIDE DEF Rooms
  <2> QED  BY <1>2, LeastNatural
<1>4. PICK n \in Nodes : status[n] = "active" /\ r = Room(n)
  OBVIOUS
<1>5. ASSUME NEW m \in Operands(n), status[m] = "active" PROVE FALSE
  <2>1. m \in Nodes \ {Root} /\ Parent[m] = n
    BY DEF Operands
  <2>2. Level[m] = Level[n] + 1 /\ Level[n] \in Nat
    BY <2>1, TreeAssumption
  <2>3. Room(n) <= Room(m)
    BY <1>3, <1>4, <1>5, <2>1
  <2>4. QED
    BY <2>2, <2>3, StackAssumption
<1>6. QED
  BY <1>4, <1>5

\* The first operand in order that has not been entered.
LEMMA FirstNew ==
    ASSUME TypeOK, NEW n \in Nodes, NEW k \in Operands(n), status[k] = "new"
    PROVE  \E m \in Operands(n) :
             status[m] = "new" /\ \A o \in Operands(n) : Position[o] < Position[m] => status[o] # "new"
<1> DEFINE New == {m \in Operands(n) : status[m] = "new"}
           Places == {Position[m] : m \in New}
<1>1. Places \subseteq Nat /\ Places # {}
  BY TreeAssumption DEF Operands
<1>2. PICK p \in Places : \A q \in Places : p <= q
  <2> HIDE DEF Places
  <2> QED  BY <1>1, LeastNatural
<1>3. PICK m \in New : p = Position[m]
  OBVIOUS
<1>4. ASSUME NEW o \in Operands(n), Position[o] < Position[m], status[o] = "new" PROVE FALSE
  <2>1. Position[o] \in Places /\ Position[o] \in Nat /\ Position[m] \in Nat
    BY <1>1, <1>3, <1>4
  <2>2. QED
    BY <1>2, <1>3, <1>4, <2>1
<1>5. QED
  BY <1>3, <1>4

\* A deepest live activation goes on, or one of its operands does.
LEMMA ActiveRuns ==
    ASSUME IInv, Reported, NEW n \in Nodes, status[n] = "active",
           \A m \in Operands(n) : status[m] \notin {"active", "yielding"}
    PROVE  Runnable
<1>1. \A m \in Operands(n) : status[m] \in {"new", "done", "threw"} /\ m \in Nodes \ {Root} /\ Parent[m] = n
  BY DEF IInv, TypeOK, Operands
<1>2. CASE \E k \in Operands(n) : status[k] = "new"
  <2>1. PICK m \in Operands(n) : /\ status[m] = "new"
                                 /\ \A o \in Operands(n) : Position[o] < Position[m] => status[o] # "new"
    BY <1>2, FirstNew DEF IInv
  <2>2. CASE Kind[n] = "parallel"
    BY <1>1, <2>1, <2>2 DEF Runnable, MayEnter
  <2>3. CASE Kind[n] # "parallel" /\ rejection[n] # "none"
    BY <2>3 DEF Runnable, MayReject
  <2>4. CASE Kind[n] # "parallel" /\ rejection[n] = "none"
    <3>1. \A o \in Operands(n) : status[o] \in {"new", "done"}
      BY <1>1, <2>4 DEF Reported
    <3>2. MayEnter(m)
      BY <1>1, <2>1, <3>1 DEF MayEnter
    <3>3. QED
      BY <1>1, <3>2 DEF Runnable
  <2>5. QED
    BY <2>2, <2>3, <2>4
<1>3. CASE \A k \in Operands(n) : status[k] # "new"
  <2>1. CASE rejection[n] # "none"
    BY <1>3, <2>1 DEF Runnable, MayReject
  <2>2. CASE rejection[n] = "none"
    BY <1>1, <1>3, <2>2 DEF Runnable, MayReturn, Reported
  <2>3. QED
    BY <2>1, <2>2
<1>4. QED
  BY <1>2, <1>3

\* evaluate() of jsonata.js never waits for nothing: in every tree and
\* interleaving, and whatever was aborted or has rejected, an evaluation whose
\* promise is pending, or an activation that was left behind by the rejection
\* of a sibling, has a step to take.
THEOREM NeverStuck == Spec => [](Settled \/ Runnable)
<1>1. ASSUME IInv, Reported PROVE Settled \/ Runnable
  <2>1. CASE \E n \in Nodes : status[n] = "yielding"
    BY <2>1 DEF Runnable
  <2>2. CASE (\A n \in Nodes : status[n] # "yielding") /\ \E n \in Nodes : status[n] = "active"
    <3>1. PICK n \in Nodes : status[n] = "active" /\ \A m \in Operands(n) : status[m] # "active"
      BY <1>1, <2>2, DeepestActive
    <3>2. \A m \in Operands(n) : status[m] \notin {"active", "yielding"}
      BY <2>2, <3>1 DEF Operands
    <3>3. QED
      BY <1>1, <3>1, <3>2, ActiveRuns
  <2>3. CASE \A n \in Nodes : status[n] \notin {"active", "yielding"}
    <3>1. CASE outcome # "pending"
      BY <2>3, <3>1 DEF Settled
    <3>2. CASE outcome = "pending" /\ status[Root] = "new"
      BY <3>2, TreeAssumption DEF Runnable, MayEnter
    <3>3. CASE outcome = "pending" /\ status[Root] \in {"done", "threw"}
      BY <3>3 DEF Runnable, MayDeliver
    <3>4. QED
      BY <1>1, <2>3, <3>1, <3>2, <3>3, TreeAssumption DEF IInv, TypeOK
  <2>4. QED
    BY <2>1, <2>2, <2>3
<1>2. QED
  BY <1>1, Counting, OperandsReport, PTL

\* How far the evaluation has come: nodes entered, gone past their wait and
\* ended, and the delivery.
Entered == {n \in Nodes : status[n] # "new"}
Past == {n \in Nodes : status[n] \notin {"new", "yielding"}}
Ended == {n \in Nodes : status[n] \in {"done", "threw"}}
Work == Cardinality(Entered) + Cardinality(Past) + Cardinality(Ended)
        + (IF outcome = "pending" THEN 0 ELSE 1)

\* A set of nodes that grows.
LEMMA Growing ==
    ASSUME NEW S, NEW T, S \subseteq T, T \subseteq Nodes
    PROVE  /\ Cardinality(S) \in Nat /\ Cardinality(T) \in Nat /\ Cardinality(Nodes) \in Nat
           /\ Cardinality(S) <= Cardinality(T) /\ Cardinality(T) <= Cardinality(Nodes)
           /\ S # T => Cardinality(S) < Cardinality(T)
<1>1. IsFiniteSet(T) /\ IsFiniteSet(S)
  BY TreeAssumption, FS_Subset
<1>2. QED
  BY <1>1, TreeAssumption, FS_Subset, FS_CardinalityType

\* A step of a node takes it on.
LEMMA NodeWorks ==
    ASSUME TypeOK, NEW n \in Nodes, NEW what, Is(n, what), UNCHANGED outcome,
           \/ status[n] = "new" /\ what \in {"yielding", "active", "done", "threw"}
           \/ status[n] = "yielding" /\ what \in {"active", "done", "threw"}
           \/ status[n] = "active" /\ what \in {"done", "threw"}
    PROVE  Work' > Work
<1>1. status'[n] = what /\ \A m \in Nodes \ {n} : status'[m] = status[m]
  BY DEF Is, TypeOK
<1>2. /\ Entered \subseteq Entered' /\ Past \subseteq Past' /\ Ended \subseteq Ended'
      /\ Entered' \subseteq Nodes /\ Past' \subseteq Nodes /\ Ended' \subseteq Nodes
  BY <1>1 DEF Entered, Past, Ended
<1>3. Entered # Entered' \/ Past # Past' \/ Ended # Ended'
  BY <1>1 DEF Entered, Past, Ended
<1>4. QED
  BY <1>2, <1>3, Growing DEF Work

\* Every step of an evaluation takes it further, by one of 3 |Nodes| + 1
\* degrees, and no event takes it back: it cannot go round in circles, whatever
\* is retried, rejected or aborted.
THEOREM WorkIsBounded ==
    Spec => /\ [](Work <= 3 * Cardinality(Nodes) + 1)
            /\ [][/\ Step => Work' > Work
                  /\ ~Step => Work' = Work
                  /\ Settled => Settled']_vars
<1>1. Work <= 3 * Cardinality(Nodes) + 1
  <2>1. Entered \subseteq Nodes /\ Past \subseteq Nodes /\ Ended \subseteq Nodes
    BY DEF Entered, Past, Ended
  <2>2. QED
    BY <2>1, Growing DEF Work
<1>2. ASSUME TypeOK, Step PROVE Work' > Work
  <2>1. ASSUME NEW n \in Nodes, Begin(n), UNCHANGED outcome, status[n] \in {"new", "yielding"} PROVE Work' > Work
    BY <1>2, <2>1, NodeWorks DEF Begin, Throw
  <2>2. ASSUME NEW n \in Nodes, Enter(n) \/ Resume(n) PROVE Work' > Work
    BY <1>2, <2>1, <2>2, NodeWorks DEF Enter, Resume, MayEnter, Throw
  <2>3. ASSUME NEW n \in Nodes, Yield(n) PROVE Work' > Work
    BY <1>2, <2>3, NodeWorks DEF Yield, MayEnter
  <2>4. ASSUME NEW n \in Nodes, Return(n) PROVE Work' > Work
    BY <1>2, <2>4, NodeWorks DEF Return, MayReturn
  <2>5. ASSUME NEW n \in Nodes, Fail(n) \/ Reject(n) PROVE Work' > Work
    BY <1>2, <2>5, NodeWorks DEF Fail, Reject, MayReject, Throw
  <2>6. CASE Deliver
    <3>1. UNCHANGED status /\ outcome = "pending" /\ outcome' # "pending"
      BY <1>2, <2>6, TreeAssumption DEF Deliver, MayDeliver, TypeOK, Codes
    <3>2. Entered' = Entered /\ Past' = Past /\ Ended' = Ended
      BY <3>1 DEF Entered, Past, Ended
    <3>3. Entered \subseteq Nodes /\ Past \subseteq Nodes /\ Ended \subseteq Nodes
      BY DEF Entered, Past, Ended
    <3>4. QED
      BY <3>1, <3>2, <3>3, Growing DEF Work
  <2>7. QED
    BY <1>2, <2>2, <2>3, <2>4, <2>5, <2>6 DEF Step
<1>3. ASSUME Next, ~Step PROVE Work' = Work
  BY <1>3 DEF Next, Abort, DeadlinePasses, Work, Entered, Past, Ended
<1>4. ASSUME IInv, Reported, Settled, [Next]_vars PROVE Settled'
  <2>1. ASSUME NEW n \in Nodes, status[n] = "active" \/ status[n] = "yielding" \/ MayEnter(n) PROVE FALSE
    BY <1>4, <2>1, TreeAssumption DEF Settled, MayEnter, Reported
  <2>2. ~Step
    BY <1>4, <2>1 DEF Step, Enter, Yield, Resume, Return, MayReturn, Fail, Reject, MayReject, Deliver, MayDeliver, Settled
  <2>3. QED
    BY <1>4, <2>2 DEF Next, Abort, DeadlinePasses, vars, Settled
<1>5. IInv /\ Reported /\ [Next]_vars
      => [(Step => Work' > Work) /\ (~Step => Work' = Work) /\ (Settled => Settled')]_vars
  BY <1>2, <1>3, <1>4 DEF IInv
<1>6. QED
  BY <1>1, <1>5, Counting, OperandsReport, PTL DEF Spec
=============================================================================
