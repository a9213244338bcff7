------------------------------- MODULE RbTree -------------------------------
(***************************************************************************)
(* tt_rbtree_t (source/algorithm/tt_red_black_tree.c) at the level of its   *)
(* pointers.                                                                *)
(*                                                                          *)
(* A tree is a record of its root and of the fields of all nodes, tnil      *)
(* among them: child["left"][n] and child["right"][n] are n->left and       *)
(* n->right.  Where the code has two mirrored halves there is one           *)
(* definition with the direction d as its parameter.                        *)
(***************************************************************************)
EXTENDS Naturals, Sequences

CONSTANTS Node,   \* the nodes a caller may add
          KeyOf,  \* their keys
          tnil,   \* &tree->tnil
          NULL

VARIABLE tree

Dir == {"left", "right"}

Other(d) == IF d = "left" THEN "right" ELSE "left"

\* tt_rbtree_init(), and tt_rbnode_init() for every node
Init ==
    tree = [root   |-> tnil,
            child  |-> [d \in Dir |-> [n \in Node \cup {tnil} |-> NULL]],
            parent |-> [n \in Node \cup {tnil} |-> NULL],
            black  |-> [n \in Node \cup {tnil} |-> n = tnil],
            count  |-> 0]

\* The side of its parent n is on, as the code asks: the left one if it is there.
Side(t, n) == IF n = t.child["left"][t.parent[n]] THEN "left" ELSE "right"

\* The subtree v takes the place of u.
__rbn_transplant(t, u, v) ==
    LET p == t.parent[u]
    IN  IF p = tnil THEN [t EXCEPT !.root = v, !.parent[v] = p]
        ELSE [t EXCEPT !.child[Side(t, u)][p] = v, !.parent[v] = p]

\* __rbt_left_rotate() and __rbt_right_rotate()
__rbt_rotate(t, d, x) ==
    LET y  == t.child[Other(d)][x]
        b  == t.child[d][y]
        t1 == [__rbn_transplant(t, x, y) EXCEPT !.child[Other(d)][x] = b,
                                                !.child[d][y] = x,
                                                !.parent[x] = y]
    IN  IF b = tnil THEN t1 ELSE [t1 EXCEPT !.parent[b] = x]

-----------------------------------------------------------------------------

RECURSIVE __rbt_add_fixup(_, _)
__rbt_add_fixup(t, z) ==
    LET p == t.parent[z]
        g == t.parent[p]
        d == Side(t, p)
        y == t.child[Other(d)][g]
        inner == z = t.child[Other(d)][p]
        t1 == IF inner THEN __rbt_rotate(t, d, p) ELSE t
        z1 == IF inner THEN p ELSE z
        p1 == t1.parent[z1]
    IN  IF t.black[p] THEN [t EXCEPT !.black[t.root] = TRUE]
        ELSE IF ~t.black[y]
        THEN __rbt_add_fixup([t EXCEPT !.black[p] = TRUE, !.black[y] = TRUE,
                                       !.black[g] = FALSE], g)
        ELSE __rbt_add_fixup(
                 __rbt_rotate([t1 EXCEPT !.black[p1] = TRUE,
                                         !.black[t1.parent[p1]] = FALSE],
                              Other(d), t1.parent[p1]), z1)

\* Wrong variant: a node goes before those with the same key.
GoLeft_equal(x, z) == KeyOf[x] >= KeyOf[z]

\* Whether z belongs to the left of x.
GoLeft(x, z) == KeyOf[x] > KeyOf[z]

\* The place for z below x: the parent and the side.
RECURSIVE Descend(_, _, _)
Descend(t, x, z) ==
    LET d == IF GoLeft(x, z) THEN "left" ELSE "right"
    IN  IF t.child[d][x] = tnil THEN <<x, d>> ELSE Descend(t, t.child[d][x], z)

\* z as a red leaf at its place.
Inserted(t, z) ==
    LET leaf == [t EXCEPT !.child["left"][z] = tnil, !.child["right"][z] = tnil,
                          !.black[z] = FALSE, !.count = @ + 1]
        at == Descend(t, t.root, z)
    IN  IF t.root = tnil THEN [leaf EXCEPT !.root = z, !.parent[z] = tnil]
        ELSE [leaf EXCEPT !.parent[z] = at[1], !.child[at[2]][at[1]] = z]

tt_rbtree_add(z) ==
    /\ tree.parent[z] = NULL
    /\ tree' = __rbt_add_fixup(Inserted(tree, z), z)

-----------------------------------------------------------------------------

\* Wrong variant: the sibling is not turned when its outer child is black.
FarRed_skip(t, d, w) == t

\* The sibling w of a node on side d gets a red child on its far side.
FarRed(t, d, w) ==
    IF t.black[t.child[Other(d)][w]]
    THEN __rbt_rotate([t EXCEPT !.black[t.child[d][w]] = TRUE, !.black[w] = FALSE],
                      Other(d), w)
    ELSE t

RECURSIVE __rbt_remove_fixup(_, _)
__rbt_remove_fixup(t, x) ==
    IF x = t.root \/ ~t.black[x] THEN [t EXCEPT !.black[x] = TRUE]
    ELSE LET d  == Side(t, x)
             o  == Other(d)
             p  == t.parent[x]
             w  == t.child[o][p]
             t1 == IF t.black[w] THEN t
                   ELSE __rbt_rotate([t EXCEPT !.black[w] = TRUE, !.black[p] = FALSE], d, p)
             p1 == t1.parent[x]
             w1 == t1.child[o][p1]
             t2 == FarRed(t1, d, w1)
             p2 == t2.parent[x]
             w2 == t2.child[o][p2]
             t3 == [t2 EXCEPT !.black[w2] = t2.black[p2], !.black[p2] = TRUE,
                              !.black[t2.child[o][w2]] = TRUE]
             t4 == __rbt_rotate(t3, d, p2)
         IN  IF t1.black[t1.child[d][w1]] /\ t1.black[t1.child[o][w1]]
             THEN __rbt_remove_fixup([t1 EXCEPT !.black[w1] = FALSE], p1)
             ELSE __rbt_remove_fixup(t4, t4.root)

\* __rbt_min() and __rbt_max() of the subtree at n
RECURSIVE Outermost(_, _, _)
Outermost(t, d, n) ==
    IF t.child[d][n] = tnil THEN n ELSE Outermost(t, d, t.child[d][n])

\* The tree without z, before the fixup; x is where a black node may be missing
\* and black whether it is.
Unlinked(t, z) ==
    LET l == t.child["left"][z]
        r == t.child["right"][z]
        y == Outermost(t, "left", r)
        x == t.child["right"][y]
        t1 == IF t.parent[y] = z THEN [t EXCEPT !.parent[x] = y]
              ELSE [__rbn_transplant(t, y, x) EXCEPT !.child["right"][y] = r,
                                                     !.parent[r] = y]
        t2 == [__rbn_transplant(t1, z, y) EXCEPT !.child["left"][y] = l, !.parent[l] = y,
                                                 !.black[y] = t.black[z]]
    IN  IF l = tnil THEN [t |-> __rbn_transplant(t, z, r), x |-> r, black |-> t.black[z]]
        ELSE IF r = tnil
        THEN [t |-> __rbn_transplant(t, z, l), x |-> l, black |-> t.black[z]]
        ELSE [t |-> t2, x |-> x, black |-> t.black[y]]

tt_rbnode_init(t, z) ==
    [t EXCEPT !.child["left"][z] = NULL, !.child["right"][z] = NULL,
              !.parent[z] = NULL, !.black[z] = FALSE]

\* (A node whose parent is NULL is left alone.)
tt_rbtree_remove(z) ==
    LET u == Unlinked(tree, z)
        t == IF u.black THEN __rbt_remove_fixup(u.t, u.x) ELSE u.t
    IN  /\ tree.parent[z] # NULL
        /\ tree' = [tt_rbnode_init(t, z) EXCEPT !.count = @ - 1]

Next == \E z \in Node : tt_rbtree_add(z) \/ tt_rbtree_remove(z)

Spec == Init /\ [][Next]_tree

-----------------------------------------------------------------------------

RECURSIVE Climb(_, _)
Climb(d, n) ==
    LET p == tree.parent[n]
    IN  IF p = tnil THEN NULL
        ELSE IF n = tree.child[d][p] THEN Climb(d, p) ELSE p

\* tt_rbtree_next() (d = "right") and tt_rbtree_prev()
Neighbour(d, n) ==
    IF tree.child[d][n] # tnil THEN Outermost(tree, Other(d), tree.child[d][n])
    ELSE Climb(d, n)

\* tt_rbtree_min(), tt_rbtree_max()
End(d) == IF tree.root = tnil THEN NULL ELSE Outermost(tree, d, tree.root)

\* tt_rbtree_find_gteq() (d = "left") and tt_rbtree_find_lteq(): a search for k that
\* remembers the last node where it turned to side d.
Search(d, k) ==
    LET At[n \in Node \cup {tnil}, best \in Node \cup {NULL}] ==
            LET turn == IF KeyOf[n] > k THEN "left" ELSE "right"
            IN  IF n = tnil THEN best
                ELSE IF KeyOf[n] = k THEN n
                ELSE At[tree.child[turn][n], IF turn = d THEN n ELSE best]
    IN  At[tree.root, NULL]

\* The nodes of the subtree at n from left to right.
RECURSIVE InOrder(_)
InOrder(n) ==
    IF n = tnil THEN <<>>
    ELSE InOrder(tree.child["left"][n]) \o <<n>> \o InOrder(tree.child["right"][n])

Members == {n \in Node : tree.parent[n] # NULL}

\* The black nodes on the way to the leftmost leaf below n.
RECURSIVE BlackHeight(_)
BlackHeight(n) ==
    IF n = tnil THEN 1
    ELSE BlackHeight(tree.child["left"][n]) + IF tree.black[n] THEN 1 ELSE 0

(* What __rbt_expensive_check() asserts after every change: the root and tnil  *)
(* are black, a red node has black children, and every path down has the same  *)
(* number of black nodes.                                                      *)
Balanced ==
    /\ tree.black[tree.root] /\ tree.black[tnil]
    /\ \A n \in Members :
          LET l == tree.child["left"][n]
              r == tree.child["right"][n]
          IN  /\ tree.black[n] \/ (tree.black[l] /\ tree.black[r])
              /\ BlackHeight(l) = BlackHeight(r)

(* find_gteq() finds a node with the least key that is not less than the given *)
(* one, find_lteq() the mirror image, and both the key itself if it is there   *)
(* (which is tt_rbtree_find()).  Of several nodes with the same key the one     *)
(* that is met first on the way down is returned, which may be any of them.    *)
(* (The header's "larger" and "less" leave the key itself out; the code and the *)
(* names of the functions do not.)                                            *)
Searches ==
    \A k \in {KeyOf[n] : n \in Node} :
        LET ge == {n \in Members : KeyOf[n] >= k}
            le == {n \in Members : KeyOf[n] <= k}
            g  == Search("left", k)
            e  == Search("right", k)
        IN  /\ IF ge = {} THEN g = NULL
               ELSE g \in ge /\ \A n \in ge : KeyOf[g] <= KeyOf[n]
            /\ IF le = {} THEN e = NULL
               ELSE e \in le /\ \A n \in le : KeyOf[e] >= KeyOf[n]

(* A walk with tt_rbtree_next() from tt_rbtree_min(), and one with prev() from *)
(* max(), meets every node once, in order, and ends: the parent pointers agree *)
(* with the children although the fixups also write tnil's.                    *)
Walks ==
    LET s == InOrder(tree.root)
        c == Len(s)
    IN  /\ c = tree.count
        /\ c = 0 => End("left") = NULL /\ End("right") = NULL
        /\ c > 0 => End("left") = s[1] /\ End("right") = s[c]
        /\ \A i \in 1 .. c :
              /\ Neighbour("right", s[i]) = IF i < c THEN s[i + 1] ELSE NULL
              /\ Neighbour("left", s[i]) = IF i > 1 THEN s[i - 1] ELSE NULL

(* The tree is a sequence sorted by key, whatever was added and removed.       *)
Sorted == INSTANCE SortedSeq WITH val <- InOrder(tree.root)

SortedSpec == Sorted!Spec
=============================================================================
