----------------------------- MODULE LinkedList -----------------------------
(***************************************************************************)
(* tt_list_t at the level of its pointers (include/algorithm/tt_list.h,     *)
(* source/algorithm/tt_list.c): several lists, and nodes that move from one *)
(* to another, as fibers do between the active and the pending list and     *)
(* timers between the unexpired and the expired ones.                       *)
(***************************************************************************)
EXTENDS Naturals, Sequences

CONSTANTS List, Node, NULL

VARIABLES head, tail, count,  \* of every list
          lst, prev, next     \* of every node

vars == <<head, tail, count, lst, prev, next>>

\* tt_list_init() and tt_lnode_init()
Init ==
    /\ head = [l \in List |-> NULL]
    /\ tail = [l \in List |-> NULL]
    /\ count = [l \in List |-> 0]
    /\ lst = [n \in Node |-> NULL]
    /\ prev = [n \in Node |-> NULL]
    /\ next = [n \in Node |-> NULL]

\* An assignment to a field of the node p points to, or none where p is NULL.
Set(field, p, v) == [n \in Node |-> IF n = p THEN v ELSE field[n]]

Put(field, l, cond, v) == IF cond THEN [field EXCEPT ![l] = v] ELSE field

-----------------------------------------------------------------------------

tt_list_push_head(l, n) ==
    /\ lst[n] = NULL
    /\ next' = [next EXCEPT ![n] = head[l]]
    /\ lst' = [lst EXCEPT ![n] = l]
    /\ prev' = Set(prev, head[l], n)
    /\ tail' = Put(tail, l, head[l] = NULL, n)
    /\ head' = [head EXCEPT ![l] = n]
    /\ count' = [count EXCEPT ![l] = @ + 1]

\* Wrong variant: the old tail is not linked to the new one.
tt_list_push_tail_unlinked(l, n) ==
    /\ lst[n] = NULL
    /\ prev' = [prev EXCEPT ![n] = tail[l]]
    /\ lst' = [lst EXCEPT ![n] = l]
    /\ UNCHANGED next
    /\ head' = Put(head, l, tail[l] = NULL, n)
    /\ tail' = [tail EXCEPT ![l] = n]
    /\ count' = [count EXCEPT ![l] = @ + 1]

tt_list_push_tail(l, n) ==
    /\ lst[n] = NULL
    /\ prev' = [prev EXCEPT ![n] = tail[l]]
    /\ lst' = [lst EXCEPT ![n] = l]
    /\ next' = Set(next, tail[l], n)
    /\ head' = Put(head, l, tail[l] = NULL, n)
    /\ tail' = [tail EXCEPT ![l] = n]
    /\ count' = [count EXCEPT ![l] = @ + 1]

\* Wrong variant: the popped node keeps its next pointer.
tt_list_pop_head_dirty(l) ==
    LET h == head[l]
    IN  /\ h # NULL
        /\ head' = [head EXCEPT ![l] = next[h]]
        /\ tail' = Put(tail, l, next[h] = NULL, NULL)
        /\ count' = [count EXCEPT ![l] = @ - 1]
        /\ lst' = [lst EXCEPT ![h] = NULL]
        /\ prev' = [Set(prev, next[h], NULL) EXCEPT ![h] = NULL]
        /\ UNCHANGED next

tt_list_pop_head(l) ==
    LET h == head[l]
    IN  /\ h # NULL
        /\ head' = [head EXCEPT ![l] = next[h]]
        /\ tail' = Put(tail, l, next[h] = NULL, NULL)
        /\ count' = [count EXCEPT ![l] = @ - 1]
        /\ lst' = [lst EXCEPT ![h] = NULL]
        /\ prev' = [Set(prev, next[h], NULL) EXCEPT ![h] = NULL]
        /\ next' = [next EXCEPT ![h] = NULL]

tt_list_pop_tail(l) ==
    LET t == tail[l]
    IN  /\ t # NULL
        /\ tail' = [tail EXCEPT ![l] = prev[t]]
        /\ head' = Put(head, l, prev[t] = NULL, NULL)
        /\ count' = [count EXCEPT ![l] = @ - 1]
        /\ lst' = [lst EXCEPT ![t] = NULL]
        /\ next' = [Set(next, prev[t], NULL) EXCEPT ![t] = NULL]
        /\ prev' = [prev EXCEPT ![t] = NULL]

tt_list_insert_before(pos, n) ==
    LET l == lst[pos]
    IN  /\ l # NULL
        /\ lst[n] = NULL
        /\ next' = [Set(next, prev[pos], n) EXCEPT ![n] = pos]
        /\ prev' = [prev EXCEPT ![n] = prev[pos], ![pos] = n]
        /\ lst' = [lst EXCEPT ![n] = l]
        /\ head' = Put(head, l, prev[pos] = NULL, n)
        /\ count' = [count EXCEPT ![l] = @ + 1]
        /\ UNCHANGED tail

tt_list_insert_after(pos, n) ==
    LET l == lst[pos]
    IN  /\ l # NULL
        /\ lst[n] = NULL
        /\ prev' = [Set(prev, next[pos], n) EXCEPT ![n] = pos]
        /\ next' = [next EXCEPT ![n] = next[pos], ![pos] = n]
        /\ lst' = [lst EXCEPT ![n] = l]
        /\ tail' = Put(tail, l, next[pos] = NULL, n)
        /\ count' = [count EXCEPT ![l] = @ + 1]
        /\ UNCHANGED head

\* (A node whose lst is NULL is left alone.)
tt_list_remove(n) ==
    LET l == lst[n]
    IN  /\ l # NULL
        /\ next' = [Set(next, prev[n], next[n]) EXCEPT ![n] = NULL]
        /\ head' = Put(head, l, prev[n] = NULL, next[n])
        /\ prev' = [Set(prev, next[n], prev[n]) EXCEPT ![n] = NULL]
        /\ tail' = Put(tail, l, next[n] = NULL, prev[n])
        /\ count' = [count EXCEPT ![l] = @ - 1]
        /\ lst' = [lst EXCEPT ![n] = NULL]

Next ==
    \/ \E l \in List :
          \/ \E n \in Node : tt_list_push_head(l, n) \/ tt_list_push_tail(l, n)
          \/ tt_list_pop_head(l)
          \/ tt_list_pop_tail(l)
    \/ \E n \in Node :
          \/ \E pos \in Node \ {n} :
                tt_list_insert_before(pos, n) \/ tt_list_insert_after(pos, n)
          \/ tt_list_remove(n)

Spec == Init /\ [][Next]_vars

-----------------------------------------------------------------------------

\* The list as a user walks it: count[l] nodes along field, starting at p.
Walk(l, field, p) ==
    LET w[i \in 1 .. count[l]] ==
            IF i = 1 THEN p
            ELSE IF w[i - 1] = NULL THEN NULL ELSE field[w[i - 1]]
    IN  w

(* The two directions of a list agree and end where they should, every node on *)
(* the way belongs to the list and counts, and a node outside of all lists has *)
(* no pointer left: the operations on one list never corrupt another one, and  *)
(* every unlinked node can be linked again.                                    *)
WellLinked ==
    /\ \A l \in List :
          LET f == Walk(l, next, head[l])
              b == Walk(l, prev, tail[l])
              c == count[l]
          IN  /\ \A i \in 1 .. c : f[i] \in Node /\ lst[f[i]] = l /\ b[i] = f[c + 1 - i]
              /\ c = 0 => head[l] = NULL /\ tail[l] = NULL
              /\ c > 0 => next[f[c]] = NULL /\ prev[f[1]] = NULL
    /\ \A n \in Node : lst[n] = NULL => prev[n] = NULL /\ next[n] = NULL

(* The pointers implement the sequences every other module works with. *)
Lists == INSTANCE SeqLists WITH val <- [l \in List |-> Walk(l, next, head[l])]

ListsSpec == Lists!Spec
=============================================================================
