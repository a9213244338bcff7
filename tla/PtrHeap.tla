------------------------------- MODULE PtrHeap ------------------------------
(***************************************************************************)
(* tt_ptrheap_t (source/algorithm/ptr/tt_ptr_heap.c), the binary heap that  *)
(* holds the timers of a task, with the comparator the timer manager gives  *)
(* it: the item with the least key is at the head.                          *)
(*                                                                          *)
(* A heap is a record.  node is the array, node[i] of the code being        *)
(* ph.node[i + 1]; pos[x] is the word behind the idx pointer of item x,     *)
(* where the heap keeps telling x its place (tt_tmr_t.heap_pos).  The array *)
(* grows as needed.                                                         *)
(***************************************************************************)
EXTENDS Naturals, Sequences

CONSTANTS Item, POS_NULL

Heap == [node : Seq(Item), pos : [Item -> Nat \cup {POS_NULL}]]

Members(ph) == {ph.node[i] : i \in DOMAIN ph.node}

\* tt_ptrheap_init()
EmptyHeap == [node |-> <<>>, pos |-> [x \in Item |-> POS_NULL]]

\* __tmr_cmp(x, y) > 0: x belongs above y.
Above(key, x, y) == key[x] < key[y]

__PH_PARENT(i) == (i - 1) \div 2

__PH_LEFT(i) == 2 * i + 1

__PH_RIGHT(i) == 2 * i + 2

__SWAP_PH_NODE(ph, a, b) ==
    LET x == ph.node[a + 1]
        y == ph.node[b + 1]
    IN  [node |-> [ph.node EXCEPT ![a + 1] = y, ![b + 1] = x],
         pos  |-> [ph.pos EXCEPT ![y] = a, ![x] = b]]

\* The variables of the two loops: the heap and a place in it.
Loop == {s \in [heap : Heap, idx : Nat] : s.idx < Len(s.heap.node)}

\* Of two places the one whose node belongs above the other's.
Upper(h, key, i, j) ==
    IF j < Len(h.node) /\ Above(key, h.node[j + 1], h.node[i + 1]) THEN j ELSE i

\* Wrong variant: the loop does not look at the right child.
Sink_left(key, s) ==
    LET max == Upper(s.heap, key, s.idx, __PH_LEFT(s.idx))
    IN  IF max = s.idx THEN s
        ELSE [heap |-> __SWAP_PH_NODE(s.heap, max, s.idx), idx |-> max]

\* One turn of the loop of __fix_downward(): the node at s.idx changes places with
\* the upper one of its children, unless it belongs above both.
Sink(key, s) ==
    LET max == Upper(s.heap, key, Upper(s.heap, key, s.idx, __PH_LEFT(s.idx)),
                     __PH_RIGHT(s.idx))
    IN  IF max = s.idx THEN s
        ELSE [heap |-> __SWAP_PH_NODE(s.heap, max, s.idx), idx |-> max]

\* One turn of the loop of __fix_upward(): the node at s.idx changes places with a
\* parent that it belongs above.
Rise(key, s) ==
    LET parent == __PH_PARENT(s.idx)
    IN  IF s.idx = 0 \/ ~Above(key, s.heap.node[s.idx + 1], s.heap.node[parent + 1]) THEN s
        ELSE [heap |-> __SWAP_PH_NODE(s.heap, parent, s.idx), idx |-> parent]

\* The loops go on until a turn changes nothing.
__fix_downward(ph, key, idx) ==
    LET Down[s \in Loop] == LET t == Sink(key, s) IN IF t = s THEN s ELSE Down[t]
    IN  Down[[heap |-> ph, idx |-> idx]].heap

__fix_upward(ph, key, idx) ==
    LET Up[s \in Loop] == LET t == Rise(key, s) IN IF t = s THEN s ELSE Up[t]
    IN  Up[[heap |-> ph, idx |-> idx]].heap

\* After the key of the node at idx was changed.
tt_ptrheap_fix(ph, key, idx) ==
    __fix_upward(__fix_downward(ph, key, idx), key, idx)

\* With memory for one node more (without it the call fails: no change).
tt_ptrheap_add(ph, key, x) ==
    LET n == Len(ph.node)
    IN  __fix_upward([node |-> Append(ph.node, x), pos |-> [ph.pos EXCEPT ![x] = n]],
                     key, n)

\* Wrong variant: what the comment in tt_ptrheap_remove() warns of.
tt_ptrheap_remove_down(ph, key, idx) ==
    LET last == Len(ph.node) - 1
        out  == [node |-> SubSeq(ph.node, 1, last),
                 pos  |-> [ph.pos EXCEPT ![ph.node[idx + 1]] = POS_NULL]]
    IN  IF idx = last THEN out
        ELSE __fix_downward([node |-> [out.node EXCEPT ![idx + 1] = ph.node[last + 1]],
                             pos  |-> [out.pos EXCEPT ![ph.node[last + 1]] = idx]],
                            key, idx)

\* The last node takes the place of the removed one and is then moved to where it
\* belongs, which may be further up.
tt_ptrheap_remove(ph, key, idx) ==
    LET last == Len(ph.node) - 1
        out  == [node |-> SubSeq(ph.node, 1, last),
                 pos  |-> [ph.pos EXCEPT ![ph.node[idx + 1]] = POS_NULL]]
    IN  IF idx = last THEN out
        ELSE tt_ptrheap_fix(
                 [node |-> [out.node EXCEPT ![idx + 1] = ph.node[last + 1]],
                  pos  |-> [out.pos EXCEPT ![ph.node[last + 1]] = idx]],
                 key, idx)

tt_ptrheap_head(ph) == ph.node[1]

\* Of a heap that is not empty.
tt_ptrheap_pop(ph, key) == tt_ptrheap_remove(ph, key, 0)

tt_ptrheap_clear(ph) ==
    [node |-> <<>>,
     pos  |-> [x \in Item |-> IF x \in Members(ph) THEN POS_NULL ELSE ph.pos[x]]]

-----------------------------------------------------------------------------

(* What __ph_sanity_check() asserts after every change: no child belongs above *)
(* its parent.                                                                 *)
Ordered(ph, key) ==
    \A i \in 1 .. Len(ph.node) - 1 :
        ~Above(key, ph.node[i + 1], ph.node[__PH_PARENT(i) + 1])

(* Every item knows its place: pos is TT_POS_NULL outside the heap, else the   *)
(* only index where the item is.  tt_tmr_start() and tt_tmr_destroy() act on   *)
(* this word without looking at the heap.                                      *)
Placed(ph) ==
    /\ \A i \in DOMAIN ph.node : ph.pos[ph.node[i]] = i - 1
    /\ \A x \in Item : ph.pos[x] # POS_NULL => x \in Members(ph)
=============================================================================
