------------------------------ MODULE SeqLists ------------------------------
(***************************************************************************)
(* What tt_list_t promises its users: lists are sequences of nodes, and the *)
(* operations are the ones of TTList.  A node is in one list at most.       *)
(***************************************************************************)
EXTENDS TTList

CONSTANTS List, Node

VARIABLE val   \* val[l]: the nodes of list l from head to tail

Unlinked(n) == \A l \in List : n \notin Nodes(val[l])

Init == val = [l \in List |-> <<>>]

Push(l, n) ==
    /\ Unlinked(n)
    /\ \/ val' = [val EXCEPT ![l] = tt_list_push_head(@, n)]
       \/ val' = [val EXCEPT ![l] = tt_list_push_tail(@, n)]

Pop(l) ==
    /\ val[l] # <<>>
    /\ \/ val' = [val EXCEPT ![l] = Tail(@)]
       \/ val' = [val EXCEPT ![l] = SubSeq(@, 1, Len(@) - 1)]

\* n gets between the first i nodes and the others.
Insert(l, i, n) ==
    /\ Unlinked(n)
    /\ val' = [val EXCEPT ![l] = SubSeq(@, 1, i) \o <<n>> \o SubSeq(@, i + 1, Len(@))]

Remove(n) == val' = [l \in List |-> tt_list_remove(val[l], n)]

Next ==
    \/ \E l \in List :
          \/ \E n \in Node : Push(l, n)
          \/ Pop(l)
          \/ \E i \in 0 .. Len(val[l]), n \in Node : Insert(l, i, n)
    \/ \E n \in Node : Remove(n)

Spec == Init /\ [][Next]_val
=============================================================================
