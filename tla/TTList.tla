------------------------------- MODULE TTList -------------------------------
(***************************************************************************)
(* The value of a tt_list_t or a tt_dlist_t: the sequence of its nodes from *)
(* head to tail.  A node occurs at most once in at most one list.  Module   *)
(* LinkedList shows that the pointer code of tt_list_t maintains exactly    *)
(* these sequences; tt_dlist_t is the same code without the list pointer of *)
(* the nodes and without the counter.                                       *)
(***************************************************************************)
EXTENDS Naturals, Sequences

\* The nodes linked into a list.
Nodes(lst) == {lst[i] : i \in DOMAIN lst}

\* No node is linked twice.
Distinct(lst) == \A i, j \in DOMAIN lst : lst[i] = lst[j] => i = j

tt_list_push_head(lst, node) == <<node>> \o lst

tt_list_push_tail(lst, node) == Append(lst, node)

\* Where a linked node stands.
PosOf(lst, node) == CHOOSE i \in DOMAIN lst : lst[i] = node

\* tt_list_remove(): unlink node, or do nothing when it is not linked (its lst
\* pointer is NULL).  The order of the other nodes is kept.
tt_list_remove(lst, node) ==
    IF node \in Nodes(lst)
    THEN LET p == PosOf(lst, node)
         IN  [i \in 1 .. Len(lst) - 1 |-> IF i < p THEN lst[i] ELSE lst[i + 1]]
    ELSE lst
=============================================================================
