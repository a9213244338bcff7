----------------------------- MODULE PtrHeapUse -----------------------------
(***************************************************************************)
(* A pointer heap and a caller that uses its interface in any order: add,   *)
(* change of a key and fix, remove, pop, clear.                             *)
(***************************************************************************)
EXTENDS PtrHeap

CONSTANTS Key,     \* the keys the caller uses
          NoItem   \* pop has not just returned an item

ASSUME HeapAssumption ==
    /\ Key \subseteq Nat
    /\ 0 \in Key
    /\ NoItem \notin Item
    /\ POS_NULL \notin Nat

VARIABLES ph, key, popped

vars == <<ph, key, popped>>

\* The key of an item outside the heap means nothing; the caller keeps it at 0.
Init ==
    /\ ph = EmptyHeap
    /\ key = [x \in Item |-> 0]
    /\ popped = NoItem

Add(x, k) ==
    /\ ph.pos[x] = POS_NULL
    /\ key' = [key EXCEPT ![x] = k]
    /\ ph' = tt_ptrheap_add(ph, key', x)
    /\ popped' = NoItem

ChangeKey(x, k) ==
    /\ ph.pos[x] # POS_NULL
    /\ key' = [key EXCEPT ![x] = k]
    /\ ph' = tt_ptrheap_fix(ph, key', ph.pos[x])
    /\ popped' = NoItem

Remove(x) ==
    /\ ph.pos[x] # POS_NULL
    /\ ph' = tt_ptrheap_remove(ph, key, ph.pos[x])
    /\ key' = [key EXCEPT ![x] = 0]
    /\ popped' = NoItem

Pop ==
    /\ ph.node # <<>>
    /\ popped' = tt_ptrheap_head(ph)
    /\ ph' = tt_ptrheap_pop(ph, key)
    /\ key' = [key EXCEPT ![popped'] = 0]

Clear ==
    /\ ph' = tt_ptrheap_clear(ph)
    /\ key' = [x \in Item |-> 0]
    /\ popped' = NoItem

Next ==
    \/ \E x \in Item, k \in Key : Add(x, k) \/ ChangeKey(x, k)
    \/ \E x \in Item : Remove(x)
    \/ Pop
    \/ Clear

Spec == Init /\ [][Next]_vars

-----------------------------------------------------------------------------

(* __ph_sanity_check() succeeds after every call. *)
HeapOrder == Ordered(ph, key)

(* The back pointers agree with the array after every call. *)
PlaceInv == Placed(ph)

(* tt_ptrheap_t: no node is before its parent, and every item knows its place, *)
(* after removals from the middle and changed keys too (__fix_upward(),        *)
(* __fix_downward(), __ph_sanity_check()).                                     *)
HeapSound == HeapOrder /\ PlaceInv

(* The heap is a priority queue. *)
Queue == INSTANCE PriorityQueue WITH members <- Members(ph)

QueueSpec == Queue!Spec
=============================================================================
