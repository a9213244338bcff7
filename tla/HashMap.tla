------------------------------- MODULE HashMap ------------------------------
(***************************************************************************)
(* tt_hashmap_t (source/algorithm/tt_hashmap.c): nodes in slots, each a     *)
(* list that grows at its head; walks over the map while it changes.        *)
(***************************************************************************)
EXTENDS FiniteSets, TTList

CONSTANTS HNode, HKey, NoNode, NoKey,
          sll_num,    \* slots
          hash        \* hash[k]

VARIABLES sll, hcount,
          key,        \* key[n]; that of a node outside the map means nothing
          walk,       \* a walk in progress: its kind, sll_idx, and the next node
          seen,       \* the nodes it has come to, in order
          stay        \* the nodes that have been there since it began

vars == <<sll, key, hcount, walk, seen, stay>>

Slot == 0 .. sll_num - 1

\* idx = sll_num: there is nothing more
NoWalk == [kind |-> "none", idx |-> sll_num, node |-> NoNode]

\* tt_hmap_create()
Init ==
    /\ sll = [i \in Slot |-> <<>>]
    /\ key = [n \in HNode |-> NoKey]
    /\ hcount = 0
    /\ walk = NoWalk
    /\ seen = <<>>
    /\ stay = {}

Inside == UNION {Nodes(sll[i]) : i \in Slot}

__find_sll(k) == hash[k] % sll_num

tt_hmap_find(k) ==
    LET l  == sll[__find_sll(k)]
        at == {i \in DOMAIN l : key[l[i]] = k}
    IN  IF at = {} THEN NoNode ELSE l[CHOOSE i \in at : \A j \in at : i <= j]

Without(i, n) == [sll EXCEPT ![i] = tt_list_remove(@, n)]

\* A key that is there already is refused.
tt_hmap_add(k, n) ==
    /\ n \notin Inside
    /\ tt_hmap_find(k) = NoNode
    /\ sll' = [sll EXCEPT ![__find_sll(k)] = tt_list_push_head(@, n)]
    /\ key' = [key EXCEPT ![n] = k]
    /\ hcount' = hcount + 1
    /\ UNCHANGED <<walk, seen, stay>>

\* tt_hmap_remove() and tt_hmap_remove_key().  A walk keeps the node it will hand out
\* next: the code breaks when the user removes that one, so he must not.
tt_hmap_remove(n) ==
    /\ n \in Inside
    /\ n # walk.node
    /\ sll' = Without(__find_sll(key[n]), n)
    /\ key' = [key EXCEPT ![n] = NoKey]
    /\ hcount' = hcount - 1
    /\ stay' = stay \ {n}
    /\ UNCHANGED <<walk, seen>>

tt_hmap_clear ==
    /\ walk.kind = "none"
    /\ Inside # {}
    /\ sll' = [i \in Slot |-> <<>>]
    /\ key' = [n \in HNode |-> NoKey]
    /\ hcount' = 0
    /\ UNCHANGED <<walk, seen, stay>>

-----------------------------------------------------------------------------
(* Walks.                                                                   *)

\* The first slot from i on that has nodes, and its head.
FirstFrom(i, kind) ==
    LET full == {j \in Slot : j >= i /\ sll[j] # <<>>}
    IN  IF full = {} THEN [NoWalk EXCEPT !.kind = kind]
        ELSE LET j == CHOOSE x \in full : \A y \in full : x <= y
             IN  [kind |-> kind, idx |-> j, node |-> Head(sll[j])]

\* The node behind n in its list.
NextOf(n, i) ==
    LET at == PosOf(sll[i], n)
    IN  IF at = Len(sll[i]) THEN NoNode ELSE sll[i][at + 1]

Begin(w) ==
    /\ walk.kind = "none"
    /\ walk' = w
    /\ seen' = <<>>
    /\ stay' = Inside
    /\ UNCHANGED <<sll, key, hcount>>

tt_hmap_iter == Begin(FirstFrom(0, "iter"))

\* Wrong variant: the last node of a slot is taken for the last of the map.
Onward_slot(n, i) ==
    IF NextOf(n, i) # NoNode THEN [kind |-> "iter", idx |-> i, node |-> NextOf(n, i)]
    ELSE [NoWalk EXCEPT !.kind = "iter"]

\* The cursor behind node n of slot i, looked up before n is handed out.
Onward(n, i) ==
    IF NextOf(n, i) # NoNode THEN [kind |-> "iter", idx |-> i, node |-> NextOf(n, i)]
    ELSE FirstFrom(i + 1, "iter")

tt_hmap_iter_next ==
    /\ walk.kind = "iter"
    /\ walk.node # NoNode
    /\ walk' = Onward(walk.node, walk.idx)
    /\ seen' = Append(seen, walk.node)
    /\ UNCHANGED <<sll, key, hcount, stay>>

\* tt_hmap_foreach() up to the first call of its action, which runs outside.
tt_hmap_foreach == Begin([kind |-> "foreach", idx |-> 0, node |-> IF sll[0] = <<>> THEN NoNode
                                                                 ELSE Head(sll[0])])

\* The next turn: at the end of a list the loop goes on with the next slot as it is then.
ForeachNext ==
    LET w == IF walk.node = NoNode THEN FirstFrom(walk.idx + 1, "foreach") ELSE walk
    IN  /\ walk.kind = "foreach"
        /\ walk.idx < sll_num
        /\ IF w.node = NoNode THEN walk' = w /\ UNCHANGED seen
           ELSE /\ walk' = [w EXCEPT !.node = NextOf(w.node, w.idx)]
                /\ seen' = Append(seen, w.node)
        /\ UNCHANGED <<sll, key, hcount, stay>>

Through == walk.kind # "none" /\ walk.idx = sll_num

\* The walk is over, or the action returned TT_FALSE.
WalkEnds ==
    /\ walk.kind # "none"
    /\ walk' = NoWalk
    /\ seen' = <<>>
    /\ stay' = {}
    /\ UNCHANGED <<sll, key, hcount>>

Next ==
    \/ \E k \in HKey, n \in HNode : tt_hmap_add(k, n)
    \/ \E n \in HNode : tt_hmap_remove(n)
    \/ tt_hmap_clear
    \/ tt_hmap_iter \/ tt_hmap_iter_next
    \/ tt_hmap_foreach \/ ForeachNext
    \/ WalkEnds

Spec == Init /\ [][Next]_vars

-----------------------------------------------------------------------------

(* Every node is found by its key, and no other; the count is right. *)
Finds ==
    /\ \A k \in HKey : LET n == tt_hmap_find(k)
                       IN  {m \in Inside : key[m] = k} = IF n = NoNode THEN {} ELSE {n}
    /\ hcount = Cardinality(Inside)

(* A walk comes to no node twice, unless it was removed and added again, and   *)
(* has come to every node that stayed in the map when it is through, although  *)
(* nodes are added and removed meanwhile; only the node the cursor stands at,  *)
(* which comes next, must stay, and the map must not be cleared.               *)
WalkComplete ==
    /\ Through => stay \subseteq Nodes(seen)
    /\ \A n \in stay : Cardinality({i \in DOMAIN seen : seen[i] = n}) <= 1
=============================================================================
