------------------------------ MODULE FIFOCache ------------------------------
(***************************************************************************)
(* What a bounded first-in first-out cache promises: a key is stored once, *)
(* the first plan stored under it stands, and only the oldest entry leaves *)
(* to make room for a new one.                                             *)
(***************************************************************************)
EXTENDS Naturals, Sequences

CONSTANTS Keys, Plans, Size

VARIABLE content  \* oldest entry first

Holds(key) == \E i \in 1..Len(content) : content[i].key = key

Init == content = <<>>

Put(key, plan) ==
    /\ ~Holds(key)
    /\ content' = LET kept == IF Len(content) = Size THEN Tail(content) ELSE content
                  IN Append(kept, [key |-> key, plan |-> plan])

Clear == content' = <<>>

Next == Clear \/ \E key \in Keys, plan \in Plans : Put(key, plan)

Spec == Init /\ [][Next]_content

=============================================================================
