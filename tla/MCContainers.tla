---------------------------- MODULE MCContainers ----------------------------
(* The containers for TLC: a behaviour uses one of them, in any order of    *)
(* calls, and leaves the others as they were created.                       *)
EXTENDS Containers, TLC

CONSTANTS it1, it2, it3, it4, it5, it6

\* Items of the heap are interchangeable (within each half of them).
Symmetry == Permutations({it1, it2, it3}) \cup Permutations({it4, it5, it6})

CONSTANTS TreeNode, tnil

\* The nodes of the tree are numbers; 4 and 5 have the same key.
KeyOf == [n \in TreeNode |-> IF n > 4 THEN n - 1 ELSE n]

\* Keys 0 and 2 fall into one slot of two.
Hash == [k \in HKey |-> k]

VARIABLE tree  \* RbTree

Tree == INSTANCE RbTree WITH Node <- TreeNode

listVars == <<head, tail, count, lst, prev, next>>

queueVars == <<frame, cached_frame, qcount, out>>

slabVars == <<frame_list, obj_list, ref, obj_num, used>>

mapVars == <<sll, hkey, hcount, walk, seen, stay>>

allVars == <<subject, vars, listVars, queueVars, tree, buf, slabVars, mapVars>>

AllInit ==
    /\ subject \in {"heap", "list", "queue", "tree", "buffer", "slab", "map"}
    /\ Init /\ Lists!Init /\ Frames!Init /\ Tree!Init /\ Slabs!Init /\ Map!Init
    /\ IF subject = "buffer" THEN Bytes!Init ELSE buf = CHOOSE z \in Bytes!Created : TRUE

AllNext ==
    /\ UNCHANGED subject
    /\ \/ subject = "heap" /\ Next
          /\ UNCHANGED <<listVars, queueVars, tree, buf, slabVars, mapVars>>
       \/ subject = "list" /\ Lists!Next
          /\ UNCHANGED <<vars, queueVars, tree, buf, slabVars, mapVars>>
       \/ subject = "queue" /\ Frames!Next
          /\ UNCHANGED <<vars, listVars, tree, buf, slabVars, mapVars>>
       \/ subject = "tree" /\ Tree!Next
          /\ UNCHANGED <<vars, listVars, queueVars, buf, slabVars, mapVars>>
       \/ subject = "buffer" /\ Bytes!Next
          /\ UNCHANGED <<vars, listVars, queueVars, tree, slabVars, mapVars>>
       \/ subject = "slab" /\ Slabs!Next
          /\ UNCHANGED <<vars, listVars, queueVars, tree, buf, mapVars>>
       \/ subject = "map" /\ Map!Next
          /\ UNCHANGED <<vars, listVars, queueVars, tree, buf, slabVars>>

AllSpec == AllInit /\ [][AllNext]_allVars

-----------------------------------------------------------------------------
(* What a tree promises; the other containers are in Containers.            *)

(* tt_rbtree_t: what __rbt_expensive_check() asserts; tt_rbtree_find_gteq()    *)
(* finds a node with the least key not below the given one, and _lteq() one    *)
(* with the greatest not above it (of nodes with equal keys any); next, prev,  *)
(* min and max visit every node once and in order.                             *)
TreeSound == Tree!Balanced /\ Tree!Searches /\ Tree!Walks

(* tt_rbtree_t: the nodes sorted by key, equal keys in the order of adding. *)
SortedSpec == Tree!SortedSpec
=============================================================================
