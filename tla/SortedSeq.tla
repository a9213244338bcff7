------------------------------ MODULE SortedSeq -----------------------------
(***************************************************************************)
(* What tt_rbtree_t promises: its nodes in the order of their keys, those   *)
(* with equal keys in the order in which they came.                         *)
(***************************************************************************)
EXTENDS Naturals, Sequences

CONSTANTS Node, KeyOf

VARIABLE val

Members == {val[i] : i \in DOMAIN val}

Init == val = <<>>

Add(n) ==
    LET i == Len(SelectSeq(val, LAMBDA m : KeyOf[m] <= KeyOf[n]))
    IN  /\ n \notin Members
        /\ val' = SubSeq(val, 1, i) \o <<n>> \o SubSeq(val, i + 1, Len(val))

Remove(n) ==
    /\ n \in Members
    /\ val' = SelectSeq(val, LAMBDA m : m # n)

Next == \E n \in Node : Add(n) \/ Remove(n)

Spec == Init /\ [][Next]_val
=============================================================================
