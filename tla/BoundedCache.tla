---------------------------- MODULE BoundedCache ----------------------------
(***************************************************************************)
(* The plan cache of go/internal/engine/bounded_cache.go: a ring buffer    *)
(* written under a mutex, and an immutable snapshot of it that readers     *)
(* load without a lock.  The mutex makes Set and Invalidate one step each; *)
(* a reader sees nothing but the snapshot, published by one atomic store.  *)
(* The hit, miss and eviction counters only feed Stats and are left out.   *)
(***************************************************************************)
EXTENDS Integers, Sequences

CONSTANTS
    Keys,        \* plan cache keys
    Plans,       \* *GroupPlan values
    MaxSchemas   \* the capacity asked for

ASSUME MaxSchemasAssumption == MaxSchemas \in Int

\* NewBoundedCache clamps the capacity.
Capacity == IF MaxSchemas <= 0 THEN 1 ELSE MaxSchemas

VARIABLES
    entries,   \* the ring, indexed 0 .. Capacity-1
    head,      \* next position to write
    count,     \* entries in use
    snapshot   \* what readers see, oldest entry first

cacheVars == <<entries, head, count, snapshot>>

Entry == [key : Keys, plan : Plans]
Empty == [key |-> "", plan |-> <<>>]

CacheInit ==
    /\ entries = [i \in 0..(Capacity - 1) |-> Empty]
    /\ head = 0 /\ count = 0
    /\ snapshot = <<>>

Cached(key) == \E i \in 1..Len(snapshot) : snapshot[i].key = key

\* Get: one load of the snapshot, only meaningful if Cached(key).
Get(key) == snapshot[CHOOSE i \in 1..Len(snapshot) : snapshot[i].key = key].plan

\* Mutant: the snapshot lists the ring from its first slot.
Oldest_FirstSlot(newHead, newCount) == 0

\* Position of the oldest of newCount entries that end before newHead.
Oldest(newHead, newCount) == newHead - newCount + Capacity

\* Mutant: the snapshot is extended, and keeps an entry the ring has given up.
Set_Appends(key, plan) ==
    IF Cached(key)
    THEN UNCHANGED cacheVars
    ELSE LET entry == [key |-> key, plan |-> plan] IN
         /\ entries' = [entries EXCEPT ![head] = entry]
         /\ head' = (head + 1) % Capacity
         /\ count' = IF count < Capacity THEN count + 1 ELSE count
         /\ snapshot' = Append(snapshot, entry)

\* Set, and the rebuilding of the snapshot from the ring.
Set(key, plan) ==
    IF Cached(key)
    THEN UNCHANGED cacheVars
    ELSE LET ring == [entries EXCEPT ![head] = [key |-> key, plan |-> plan]]
             newHead == (head + 1) % Capacity
             newCount == IF count < Capacity THEN count + 1 ELSE count
         IN /\ entries' = ring
            /\ head' = newHead
            /\ count' = newCount
            /\ snapshot' = [i \in 1..newCount |->
                              ring[(Oldest(newHead, newCount) + i - 1) % Capacity]]

Invalidate ==
    /\ entries' = [i \in 0..(Capacity - 1) |-> Empty]
    /\ head' = 0 /\ count' = 0
    /\ snapshot' = <<>>

CacheNext == Invalidate \/ \E key \in Keys, plan \in Plans : Set(key, plan)

CacheSpec == CacheInit /\ [][CacheNext]_cacheVars
-----------------------------------------------------------------------------
CacheTypeOK ==
    /\ entries \in [0..(Capacity - 1) -> Entry \cup {Empty}]
    /\ head \in 0..(Capacity - 1)
    /\ count \in 0..Capacity
    /\ snapshot \in Seq(Entry)

\* The snapshot lists the live part of the ring, oldest first, and the ring
\* holds nothing else: an invalidated plan is not kept alive by it.
SnapshotMatchesRing ==
    /\ Len(snapshot) = count
    /\ \A i \in 1..count :
         snapshot[i] = entries[(Oldest(head, count) + i - 1) % Capacity]
    /\ count < Capacity => head = count /\ \A i \in count..(Capacity - 1) : entries[i] = Empty

\* No two entries share a key: a lookup has one answer.
KeysDistinct ==
    \A i, j \in 1..Len(snapshot) : snapshot[i].key = snapshot[j].key => i = j

\* What readers see behaves as a first-in first-out cache.
FIFO == INSTANCE FIFOCache WITH content <- snapshot, Size <- Capacity
ImplementsFIFO == FIFO!Spec

=============================================================================
