-------------------------- MODULE Containers_proofs -------------------------
(***************************************************************************)
(* The containers under any sequence of calls of their interface, for any   *)
(* number of items, nodes and lists.                                        *)
(***************************************************************************)
EXTENDS Containers, ContainerLemmas, SequenceTheorems, FiniteSetTheorems, TLAPS

-----------------------------------------------------------------------------
(* The pointer heap (PtrHeapUse).                                           *)

(* The inductive invariant: a sound heap in order, and keys that the caller   *)
(* uses.  An item outside the heap has a key too: it is compared as soon as   *)
(* the item is added.                                                         *)
HeapInv == IsHeap(ph, key) /\ key \in [Item -> Key] /\ popped \in Item \cup {NoItem}

(* The word behind the idx pointer tells who is in the heap.                  *)
LEMMA InHeap ==
    ASSUME HeapInv
    PROVE  /\ \A x \in Item : ph.pos[x] # POS_NULL <=> x \in Members(ph)
           /\ Members(ph) \subseteq Item /\ Sound(ph) /\ key \in [Item -> Nat]
           /\ ph.node = <<>> <=> Members(ph) = {}
<1>1. Sound(ph) /\ key \in [Item -> Nat]
  BY HeapAssumption DEF HeapInv, IsHeap
<1>2. /\ \A x \in Members(ph) : x \in Item /\ ph.pos[x] \in Nat
      /\ \A x \in Item : x \notin Members(ph) => ph.pos[x] = POS_NULL
      /\ Members(ph) \subseteq Item
      /\ ph.node = <<>> <=> Members(ph) = {}
  BY <1>1, PosFacts
<1>. QED BY <1>1, <1>2, HeapAssumption

(* tt_ptrheap_add(): the new item is a member.                                *)
LEMMA AddSteps ==
    ASSUME HeapInv, NEW x \in Item, NEW k \in Key, Add(x, k)
    PROVE  HeapInv' /\ Members(ph') = Members(ph) \cup {x} /\ Queue!Put(x, k)
<1> DEFINE k2 == [key EXCEPT ![x] = k]
<1>1. k2 \in [Item -> Key] /\ k2 \in [Item -> Nat] /\ key \in [Item -> Nat]
      /\ k2[x] = k /\ \A y \in Item : y # x => k2[y] = key[y]
  BY HeapAssumption DEF HeapInv
<1>2. key' = k2 /\ ph' = tt_ptrheap_add(ph, key', x) /\ popped' = NoItem
      /\ ph.pos[x] = POS_NULL
  BY DEF Add
<1>. HIDE DEF k2
<1>3. x \notin Members(ph) /\ Members(ph) \subseteq Item
  BY <1>2, InHeap
<1>4. IsHeap(ph, k2)
  BY <1>1, <1>3, OrderedFrame DEF HeapInv
<1>5. /\ IsHeap(tt_ptrheap_add(ph, k2, x), k2)
      /\ Members(tt_ptrheap_add(ph, k2, x)) = Members(ph) \cup {x}
  BY <1>1, <1>3, <1>4, AddFacts
<1>6. IsHeap(ph', key') /\ Members(ph') = Members(ph) \cup {x}
  BY <1>2, <1>5
<1>7. HeapInv'
  BY <1>1, <1>2, <1>6 DEF HeapInv
<1>8. Queue!Put(x, k)
  BY <1>1, <1>2, <1>3, <1>6 DEF Queue!Put
<1>. QED BY <1>6, <1>7, <1>8

(* tt_ptrheap_fix() after a change of a key: the members stay.                *)
LEMMA ChangeSteps ==
    ASSUME HeapInv, NEW x \in Item, NEW k \in Key, ChangeKey(x, k)
    PROVE  HeapInv' /\ Queue!Put(x, k)
<1> DEFINE k2 == [key EXCEPT ![x] = k]
<1>1. k2 \in [Item -> Key] /\ k2 \in [Item -> Nat] /\ key \in [Item -> Nat]
      /\ k2[x] = k /\ \A y \in Item : y # x => k2[y] = key[y]
  BY HeapAssumption DEF HeapInv
<1>2. key' = k2 /\ ph' = tt_ptrheap_fix(ph, key', ph.pos[x]) /\ popped' = NoItem
      /\ ph.pos[x] # POS_NULL
  BY DEF ChangeKey
<1>. HIDE DEF k2
<1>3. x \in Members(ph) /\ Members(ph) \subseteq Item
  BY <1>2, InHeap
<1>4. IsHeap(ph, key) /\ \A y \in Members(ph) : y # x => k2[y] = key[y]
  BY <1>1, <1>3 DEF HeapInv
<1>5. /\ IsHeap(tt_ptrheap_fix(ph, k2, ph.pos[x]), k2)
      /\ Members(tt_ptrheap_fix(ph, k2, ph.pos[x])) = Members(ph)
  BY <1>1, <1>3, <1>4, FixChangedKey
<1>6. IsHeap(ph', key') /\ Members(ph') = Members(ph)
  BY <1>2, <1>5
<1>7. HeapInv'
  BY <1>1, <1>2, <1>6 DEF HeapInv
<1>8. Queue!Put(x, k)
  BY <1>1, <1>2, <1>3, <1>6 DEF Queue!Put
<1>. QED BY <1>7, <1>8

(* tt_ptrheap_remove() by the place the item knows.                           *)
LEMMA RemoveSteps ==
    ASSUME HeapInv, NEW x \in Item, Remove(x)
    PROVE  HeapInv' /\ Queue!Take({x})
<1> DEFINE k2 == [key EXCEPT ![x] = 0]
<1>1. k2 \in [Item -> Key] /\ key \in [Item -> Nat]
      /\ \A y \in Item : y # x => k2[y] = key[y]
  BY HeapAssumption DEF HeapInv
<1>2. key' = k2 /\ ph' = tt_ptrheap_remove(ph, key, ph.pos[x]) /\ popped' = NoItem
      /\ ph.pos[x] # POS_NULL
  BY DEF Remove
<1>. HIDE DEF k2
<1>3. x \in Members(ph) /\ Members(ph) \subseteq Item
  BY <1>2, InHeap
<1>4. /\ IsHeap(tt_ptrheap_remove(ph, key, ph.pos[x]), key)
      /\ Members(tt_ptrheap_remove(ph, key, ph.pos[x])) = Members(ph) \ {x}
  BY <1>1, <1>3, RemoveFacts DEF HeapInv
<1>5. IsHeap(ph', key) /\ Members(ph') = Members(ph) \ {x}
  BY <1>2, <1>4
<1>6. IsHeap(ph', k2)
  BY <1>1, <1>3, <1>5, OrderedFrame
<1>7. HeapInv'
  BY <1>1, <1>2, <1>6 DEF HeapInv
<1>8. Queue!Take({x})
  BY <1>1, <1>2, <1>3, <1>5 DEF Queue!Take
<1>. QED BY <1>7, <1>8

(* tt_ptrheap_pop(): what is returned has the least key of all.               *)
LEMMA PopSteps ==
    ASSUME HeapInv, Pop
    PROVE  HeapInv' /\ \E x \in Item : Queue!Pop(x)
<1> DEFINE x == tt_ptrheap_head(ph)
           k2 == [key EXCEPT ![x] = 0]
<1>1. key' = k2 /\ ph' = tt_ptrheap_pop(ph, key) /\ popped' = x
      /\ ph.node # <<>>
  BY DEF Pop
<1>2. Members(ph) # {} /\ Members(ph) \subseteq Item /\ key \in [Item -> Nat]
      /\ IsHeap(ph, key)
  BY <1>1, InHeap DEF HeapInv
<1>3. x \in Members(ph) /\ \A y \in Members(ph) : key[x] <= key[y]
  BY <1>2, HeadIsLeast
<1>. HIDE DEF x
<1>4. k2 \in [Item -> Key] /\ \A y \in Item : y # x => k2[y] = key[y]
  BY HeapAssumption DEF HeapInv
<1>. HIDE DEF k2
<1>5. /\ IsHeap(tt_ptrheap_pop(ph, key), key)
      /\ Members(tt_ptrheap_pop(ph, key)) = Members(ph) \ {tt_ptrheap_head(ph)}
  BY <1>2, PopFacts
<1>6. IsHeap(ph', key) /\ Members(ph') = Members(ph) \ {x}
  BY <1>1, <1>5 DEF x
<1>7. IsHeap(ph', k2)
  BY <1>2, <1>4, <1>6, OrderedFrame
<1>8. HeapInv'
  BY <1>1, <1>2, <1>3, <1>4, <1>7 DEF HeapInv
<1>9. Queue!Pop(x)
  BY <1>1, <1>2, <1>3, <1>4, <1>6 DEF Queue!Pop
<1>. QED BY <1>2, <1>3, <1>8, <1>9

(* tt_ptrheap_clear(): no item keeps a place.                                 *)
LEMMA ClearSteps ==
    ASSUME HeapInv, Clear
    PROVE  HeapInv' /\ Queue!Take(Members(ph))
<1> DEFINE k2 == [x \in Item |-> 0]
<1>1. ph' = tt_ptrheap_clear(ph) /\ key' = k2 /\ popped' = NoItem
  BY DEF Clear
<1>2. Sound(ph)
  BY InHeap
<1>3. ph' = EmptyHeap
  BY <1>1, <1>2, ClearFacts
<1>4. k2 \in [Item -> Key]
  BY HeapAssumption
<1>5. IsHeap(EmptyHeap, k2) /\ Members(EmptyHeap) = {}
  BY EmptyHeapFacts
<1>. HIDE DEF k2
<1>6. HeapInv'
  BY <1>1, <1>3, <1>4, <1>5 DEF HeapInv
<1>7. Queue!Take(Members(ph))
  BY <1>1, <1>3, <1>5 DEF Queue!Take
<1>. QED BY <1>6, <1>7

(* Any call keeps the heap sound and is one of the priority queue.            *)
LEMMA HeapSteps ==
    ASSUME HeapInv, [Next]_vars
    PROVE  HeapInv' /\ [Queue!Next]_(Queue!queueVars)
<1>1. ASSUME NEW x \in Item, NEW k \in Key, Add(x, k) \/ ChangeKey(x, k)
      PROVE  HeapInv' /\ Queue!Next
  BY <1>1, AddSteps, ChangeSteps DEF Queue!Next
<1>2. ASSUME NEW x \in Item, Remove(x)
      PROVE  HeapInv' /\ Queue!Next
  BY <1>2, RemoveSteps DEF Queue!Next
<1>3. CASE Pop
  BY <1>3, PopSteps DEF Queue!Next
<1>4. CASE Clear
  BY <1>4, ClearSteps DEF Queue!Next
<1>5. CASE UNCHANGED vars
  BY <1>5 DEF vars, HeapInv, Queue!queueVars
<1>. QED BY <1>1, <1>2, <1>3, <1>4, <1>5 DEF Next

LEMMA HeapStarts ==
    ASSUME Init
    PROVE  HeapInv /\ Queue!Init
<1>1. IsHeap(EmptyHeap, key) /\ Members(EmptyHeap) = {}
  BY EmptyHeapFacts
<1>2. key \in [Item -> Key]
  BY HeapAssumption DEF Init
<1>. QED BY <1>1, <1>2 DEF Init, HeapInv, Queue!Init

(* After every call the heap is in order and every item knows its place, as   *)
(* __ph_sanity_check() asserts and the timer manager relies on, for any       *)
(* number of items and any keys.                                              *)
THEOREM HeapIsSound == Spec => []HeapSound
<1>1. Init => HeapInv
  BY HeapStarts
<1>2. HeapInv /\ [Next]_vars => HeapInv'
  BY HeapSteps
<1>3. HeapInv => HeapSound
  BY DEF HeapInv, IsHeap, Sound, HeapSound, HeapOrder, PlaceInv
<1>. QED BY <1>1, <1>2, <1>3, PTL DEF Spec

(* tt_ptrheap_t is a priority queue: what tt_ptrheap_pop() returns has the    *)
(* least key of the items in the heap, and every call changes the members as  *)
(* its name says.                                                             *)
THEOREM HeapIsQueue == Spec => QueueSpec
<1>1. Init => HeapInv /\ Queue!Init
  BY HeapStarts
<1>2. HeapInv /\ [Next]_vars => HeapInv' /\ [Queue!Next]_(Queue!queueVars)
  BY HeapSteps
<1>. QED BY <1>1, <1>2, PTL DEF Spec, QueueSpec, Queue!Spec

-----------------------------------------------------------------------------
(* Lists of linked nodes (LinkedList).                                      *)

\* What is at place i of s, NULL beyond its ends.
At(s, i) == IF i \in 1 .. Len(s) THEN s[i] ELSE NULL

\* s with n behind its first i nodes, and s without the node at place i.
Ins(s, i, n) ==
    [j \in 1 .. Len(s) + 1 |-> IF j <= i THEN s[j] ELSE IF j = i + 1 THEN n ELSE s[j - 1]]

Del(s, i) == [j \in 1 .. Len(s) - 1 |-> IF j < i THEN s[j] ELSE s[j + 1]]

\* The fields of the lists and of the nodes have their types.
Fields ==
    /\ head \in [List -> Node \cup {NULL}] /\ tail \in [List -> Node \cup {NULL}]
    /\ count \in [List -> Nat]
    /\ lst \in [Node -> List \cup {NULL}]
    /\ prev \in [Node -> Node \cup {NULL}] /\ next \in [Node -> Node \cup {NULL}]

\* The pointers of list l are those of the sequence s.
Linked(l, s) ==
    /\ s \in Seq(Node) /\ Distinct(s)
    /\ head[l] = At(s, 1) /\ tail[l] = At(s, Len(s)) /\ count[l] = Len(s)
    /\ \A i \in 1 .. Len(s) :
          lst[s[i]] = l /\ prev[s[i]] = At(s, i - 1) /\ next[s[i]] = At(s, i + 1)

\* The inductive invariant: the pointers are those of the sequences v, and a node
\* outside of all lists has none.
Rep(v) ==
    /\ Fields
    /\ v \in [List -> Seq(Node)]
    /\ \A l \in List : Linked(l, v[l])
    /\ \A n \in Node : IF lst[n] = NULL THEN prev[n] = NULL /\ next[n] = NULL
                       ELSE n \in Nodes(v[lst[n]])

\* The places of r, which is s without the node at place i.
Closes(r, s, i) == \A k \in Nat : At(r, k) = IF k < i THEN At(s, k) ELSE At(s, k + 1)

(* A node more in a sequence.                                                 *)
LEMMA InsFacts ==
    ASSUME NEW s \in Seq(Node), Distinct(s), NEW n \in Node, n \notin Nodes(s),
           NEW i \in 0 .. Len(s), NEW r, r = Ins(s, i, n)
    PROVE  /\ r \in Seq(Node) /\ Len(r) = Len(s) + 1 /\ Distinct(r)
           /\ Nodes(r) = Nodes(s) \cup {n}
           /\ \A k \in Nat : At(r, k) = IF k <= i THEN At(s, k)
                                        ELSE IF k = i + 1 THEN n ELSE At(s, k - 1)
<1> DEFINE c == Len(s)
<1>1. c \in Nat /\ DOMAIN s = 1 .. c /\ i \in Nat /\ i <= c /\ \A j \in 1 .. c : s[j] \in Node
  OBVIOUS
<1>2. r = [j \in 1 .. c + 1 |-> IF j <= i THEN s[j] ELSE IF j = i + 1 THEN n ELSE s[j - 1]]
  BY DEF Ins
<1>3. \A j, k \in 1 .. c : s[j] = s[k] => j = k
  BY <1>1 DEF Distinct
<1>4. \A j \in 1 .. c : s[j] # n
  BY <1>1 DEF Nodes
<1>5. \A x : x \in Nodes(s) <=> \E j \in 1 .. c : x = s[j]
  BY <1>1 DEF Nodes
<1>. HIDE DEF c
<1>6. /\ \A j \in 1 .. c + 1 : j <= i => j \in 1 .. c /\ r[j] = s[j]
      /\ r[i + 1] = n /\ i + 1 \in 1 .. c + 1
      /\ \A j \in 1 .. c + 1 : j > i + 1 => j - 1 \in 1 .. c /\ r[j] = s[j - 1]
  BY <1>1, <1>2
<1>7. r \in Seq(Node) /\ Len(r) = c + 1 /\ DOMAIN r = 1 .. c + 1
  <2>1. \A j \in 1 .. c + 1 : r[j] \in Node
    BY <1>1, <1>6
  <2>2. r \in [1 .. c + 1 -> Node]
    BY <1>2, <2>1
  <2>3. c + 1 \in Nat
    BY <1>1
  <2>. QED BY <2>2, <2>3
<1>8. Distinct(r)
  <2>. SUFFICES ASSUME NEW j \in 1 .. c + 1, NEW k \in 1 .. c + 1, r[j] = r[k] PROVE j = k
    BY <1>7 DEF Distinct
  <2>. QED BY <1>1, <1>3, <1>4, <1>6
<1>9. Nodes(r) = Nodes(s) \cup {n}
  <2>1. \A x : x \in Nodes(r) <=> \E j \in 1 .. c + 1 : x = r[j]
    BY <1>7 DEF Nodes
  <2>2. ASSUME NEW x PROVE x \in Nodes(r) => x \in Nodes(s) \cup {n}
    BY <1>1, <1>5, <1>6, <2>1
  <2>3. ASSUME NEW j \in 1 .. c PROVE \E k \in 1 .. c + 1 : r[k] = s[j]
    <3>1. CASE j <= i
      BY <1>1, <1>6, <3>1
    <3>2. CASE j > i
      <4>1. j + 1 \in 1 .. c + 1 /\ j + 1 > i + 1 /\ (j + 1) - 1 = j
        BY <1>1, <3>2
      <4>. QED BY <1>6, <4>1
    <3>. QED BY <1>1, <3>1, <3>2
  <2>4. ASSUME NEW x \in Nodes(s) PROVE x \in Nodes(r)
    BY <1>5, <2>1, <2>3
  <2>5. n \in Nodes(r)
    BY <1>6, <2>1
  <2>. QED BY <2>2, <2>4, <2>5
<1>10. ASSUME NEW k \in Nat
       PROVE  At(r, k) = IF k <= i THEN At(s, k)
                         ELSE IF k = i + 1 THEN n ELSE At(s, k - 1)
  <2>1. At(r, k) = (IF k \in 1 .. c + 1 THEN r[k] ELSE NULL)
        /\ At(s, k) = (IF k \in 1 .. c THEN s[k] ELSE NULL)
        /\ At(s, k - 1) = (IF k - 1 \in 1 .. c THEN s[k - 1] ELSE NULL)
    BY <1>7 DEF At, c
  <2>. QED BY <1>1, <1>6, <2>1
<1>. QED BY <1>7, <1>8, <1>9, <1>10 DEF c

(* A node less.                                                               *)
LEMMA DelFacts ==
    ASSUME NEW s \in Seq(Node), Distinct(s), NEW i \in 1 .. Len(s), NEW r, r = Del(s, i)
    PROVE  /\ r \in Seq(Node) /\ Len(r) = Len(s) - 1 /\ Distinct(r)
           /\ Nodes(r) = Nodes(s) \ {s[i]} /\ Closes(r, s, i)
<1> DEFINE c == Len(s)
<1>1. c \in Nat /\ DOMAIN s = 1 .. c /\ i \in Nat /\ 1 <= i /\ i <= c
      /\ \A j \in 1 .. c : s[j] \in Node
  OBVIOUS
<1>2. r = [j \in 1 .. c - 1 |-> IF j < i THEN s[j] ELSE s[j + 1]]
  BY DEF Del
<1>3. \A j, k \in 1 .. c : s[j] = s[k] => j = k
  BY <1>1 DEF Distinct
<1>4. \A x : x \in Nodes(s) <=> \E j \in 1 .. c : x = s[j]
  BY <1>1 DEF Nodes
<1>. HIDE DEF c
<1>5. /\ \A j \in 1 .. c - 1 : j < i => j \in 1 .. c /\ r[j] = s[j]
      /\ \A j \in 1 .. c - 1 : j >= i => j + 1 \in 1 .. c /\ r[j] = s[j + 1]
  BY <1>1, <1>2
<1>6. r \in Seq(Node) /\ Len(r) = c - 1 /\ DOMAIN r = 1 .. c - 1
  <2>1. \A j \in 1 .. c - 1 : r[j] \in Node
    BY <1>1, <1>5
  <2>2. r \in [1 .. c - 1 -> Node]
    BY <1>2, <2>1
  <2>3. c - 1 \in Nat
    BY <1>1
  <2>. QED BY <2>2, <2>3
<1>7. Distinct(r)
  <2>. SUFFICES ASSUME NEW j \in 1 .. c - 1, NEW k \in 1 .. c - 1, r[j] = r[k] PROVE j = k
    BY <1>6 DEF Distinct
  <2>. QED BY <1>1, <1>3, <1>5
<1>8. Nodes(r) = Nodes(s) \ {s[i]}
  <2>1. \A x : x \in Nodes(r) <=> \E j \in 1 .. c - 1 : x = r[j]
    BY <1>6 DEF Nodes
  <2>2. ASSUME NEW j \in 1 .. c - 1 PROVE r[j] \in Nodes(s) /\ r[j] # s[i]
    BY <1>1, <1>3, <1>4, <1>5
  <2>3. ASSUME NEW j \in 1 .. c, j # i PROVE \E k \in 1 .. c - 1 : r[k] = s[j]
    <3>1. CASE j < i
      BY <1>1, <1>5, <3>1
    <3>2. CASE j > i
      <4>1. j - 1 \in 1 .. c - 1 /\ j - 1 >= i /\ (j - 1) + 1 = j
        BY <1>1, <3>2
      <4>. QED BY <1>5, <4>1
    <3>. QED BY <1>1, <2>3, <3>1, <3>2
  <2>4. ASSUME NEW x, x \in Nodes(s) \ {s[i]} PROVE x \in Nodes(r)
    <3>1. PICK j \in 1 .. c : x = s[j]
      BY <1>4, <2>4
    <3>2. j # i
      BY <2>4, <3>1
    <3>. QED BY <2>1, <2>3, <3>1, <3>2
  <2>. QED BY <2>1, <2>2, <2>4
<1>9. ASSUME NEW k \in Nat
      PROVE  At(r, k) = IF k < i THEN At(s, k) ELSE At(s, k + 1)
  <2>1. At(r, k) = (IF k \in 1 .. c - 1 THEN r[k] ELSE NULL)
        /\ At(s, k) = (IF k \in 1 .. c THEN s[k] ELSE NULL)
        /\ At(s, k + 1) = (IF k + 1 \in 1 .. c THEN s[k + 1] ELSE NULL)
    BY <1>6 DEF At, c
  <2>. QED BY <1>1, <1>5, <2>1
<1>. QED BY <1>6, <1>7, <1>8, <1>9 DEF c, Closes

\* Node n gets between p and q, behind the first i nodes of list l.
LinkAt(l, i, n, p, q) ==
    /\ lst' = [lst EXCEPT ![n] = l]
    /\ count' = [count EXCEPT ![l] = @ + 1]
    /\ head' = Lists!Put(head, l, p = NULL, n)
    /\ tail' = Lists!Put(tail, l, q = NULL, n)
    /\ next' \in [Node -> Node \cup {NULL}] /\ prev' \in [Node -> Node \cup {NULL}]
    /\ next'[n] = q /\ prev'[n] = p
    /\ \A m \in Node : m # n => /\ next'[m] = IF m = p THEN n ELSE next[m]
                               /\ prev'[m] = IF m = q THEN n ELSE prev[m]

\* Node n, which is between p and q in list l, leaves it.
UnlinkAt(l, n, p, q) ==
    /\ lst' = [lst EXCEPT ![n] = NULL]
    /\ count' = [count EXCEPT ![l] = @ - 1]
    /\ head' = Lists!Put(head, l, p = NULL, q)
    /\ tail' = Lists!Put(tail, l, q = NULL, p)
    /\ next' \in [Node -> Node \cup {NULL}] /\ prev' \in [Node -> Node \cup {NULL}]
    /\ next'[n] = NULL /\ prev'[n] = NULL
    /\ \A m \in Node : m # n => /\ next'[m] = IF m = p THEN q ELSE next[m]
                               /\ prev'[m] = IF m = q THEN p ELSE prev[m]

(* What a list holds, node by node.                                           *)
LEMMA RepFacts ==
    ASSUME NEW v, Rep(v), NEW l \in List
    PROVE  /\ v[l] \in Seq(Node) /\ Distinct(v[l]) /\ Len(v[l]) \in Nat /\ l # NULL
           /\ \A i \in 1 .. Len(v[l]) :
                 /\ v[l][i] \in Node /\ v[l][i] # NULL /\ lst[v[l][i]] = l
                 /\ At(v[l], i) = v[l][i]
           /\ \A i, j \in 1 .. Len(v[l]) : v[l][i] = v[l][j] => i = j
           /\ At(v[l], 0) = NULL /\ At(v[l], Len(v[l]) + 1) = NULL
           /\ \A i \in Nat : At(v[l], i) # NULL =>
                 /\ i \in 1 .. Len(v[l]) /\ At(v[l], i) = v[l][i]
           /\ \A n \in Node : n \in Nodes(v[l]) <=> lst[n] = l
<1>1. NULL \notin Node /\ NULL \notin List
  BY ListAssumption
<1>2. v[l] \in Seq(Node) /\ Distinct(v[l]) /\ \A i \in 1 .. Len(v[l]) : lst[v[l][i]] = l
  BY DEF Rep, Linked
<1>3. Len(v[l]) \in Nat /\ DOMAIN v[l] = 1 .. Len(v[l])
      /\ \A i \in 1 .. Len(v[l]) : v[l][i] \in Node
  BY <1>2
<1>4. \A n \in Node : n \in Nodes(v[l]) <=> lst[n] = l
  BY <1>1, <1>2, <1>3 DEF Rep, Nodes
<1>5. \A i, j \in 1 .. Len(v[l]) : v[l][i] = v[l][j] => i = j
  BY <1>2, <1>3 DEF Distinct
<1>. QED BY <1>1, <1>2, <1>3, <1>4, <1>5 DEF At

(* The pointers after a link, however it is reached.                          *)
LEMMA LinkStep ==
    ASSUME NEW v, Rep(v), NEW l \in List, NEW i \in 0 .. Len(v[l]), NEW n \in Node,
           lst[n] = NULL, NEW p, p = At(v[l], i), NEW q, q = At(v[l], i + 1),
           LinkAt(l, i, n, p, q)
    PROVE  Rep([v EXCEPT ![l] = Ins(v[l], i, n)])'
<1> DEFINE s == v[l]
           c == Len(s)
           r == Ins(s, i, n)
           w == [v EXCEPT ![l] = r]
<1>1. Fields /\ v \in [List -> Seq(Node)] /\ NULL \notin Node /\ l # NULL
  BY ListAssumption DEF Rep
<1>2. /\ s \in Seq(Node) /\ Distinct(s) /\ c \in Nat
      /\ \A j \in 1 .. c : s[j] \in Node /\ lst[s[j]] = l /\ s[j] # n /\ At(s, j) = s[j]
      /\ \A j, k \in 1 .. c : s[j] = s[k] => j = k
      /\ n \notin Nodes(s)
      /\ i \in Nat /\ i <= c
  BY <1>1, RepFacts
<1>3. /\ \A j \in 1 .. c : prev[s[j]] = At(s, j - 1) /\ next[s[j]] = At(s, j + 1)
      /\ head[l] = At(s, 1) /\ tail[l] = At(s, c) /\ count[l] = c
  BY DEF Rep, Linked
<1>4. /\ r \in Seq(Node) /\ Len(r) = c + 1 /\ Distinct(r)
      /\ Nodes(r) = Nodes(s) \cup {n}
      /\ \A k \in Nat : At(r, k) = IF k <= i THEN At(s, k)
                                   ELSE IF k = i + 1 THEN n ELSE At(s, k - 1)
  BY <1>2, InsFacts
<1>5. w \in [List -> Seq(Node)] /\ w[l] = r /\ \A k \in List : k # l => w[k] = v[k]
  BY <1>1, <1>4
<1>6. /\ p = IF i = 0 THEN NULL ELSE s[i]
      /\ q = IF i = c THEN NULL ELSE s[i + 1]
      /\ i # 0 => i \in 1 .. c
      /\ i # c => i + 1 \in 1 .. c
  BY <1>2 DEF At
<1>. HIDE DEF s, c, r, w
<1>7. Fields'
  BY <1>1 DEF Fields, LinkAt, Lists!Put
<1>8. lst'[n] = l /\ \A m \in Node : m # n => lst'[m] = lst[m]
  BY <1>1 DEF Fields, LinkAt
<1>9. Linked(l, r)'
  <2>1. head'[l] = At(r, 1) /\ tail'[l] = At(r, Len(r)) /\ count'[l] = Len(r)
    <3>1. head'[l] = (IF p = NULL THEN n ELSE head[l])
          /\ tail'[l] = (IF q = NULL THEN n ELSE tail[l]) /\ count'[l] = count[l] + 1
      BY <1>1 DEF Fields, LinkAt, Lists!Put
    <3>2. p = NULL <=> i = 0
      BY <1>1, <1>2, <1>6
    <3>3. q = NULL <=> i = c
      BY <1>1, <1>2, <1>6
    <3>4. head'[l] = At(r, 1)
      BY <1>2, <1>3, <1>4, <3>1, <3>2
    <3>5. tail'[l] = At(r, c + 1)
      BY <1>2, <1>3, <1>4, <3>1, <3>3
    <3>. QED BY <1>3, <1>4, <3>1, <3>4, <3>5
  <2>2. ASSUME NEW j \in 1 .. c + 1
        PROVE  lst'[r[j]] = l /\ prev'[r[j]] = At(r, j - 1) /\ next'[r[j]] = At(r, j + 1)
    <3>0. At(r, j) = r[j]
      BY <1>4 DEF At
    <3>1. CASE j = i + 1
      <4>1. r[j] = n /\ At(r, j - 1) = At(s, i) /\ At(r, j + 1) = At(s, i + 1)
        BY <1>2, <1>4, <3>0, <3>1
      <4>. QED BY <1>8, <3>1, <4>1 DEF LinkAt, s
    <3>2. CASE j <= i
      <4>1. j \in 1 .. c /\ r[j] = s[j] /\ At(r, j - 1) = At(s, j - 1)
        BY <1>2, <1>4, <3>0, <3>2
      <4>2. r[j] \in Node /\ r[j] # n /\ r[j] # q /\ (r[j] = p <=> j = i)
        BY <1>1, <1>2, <1>6, <3>2, <4>1
      <4>3. prev'[r[j]] = prev[s[j]] /\ next'[r[j]] = (IF j = i THEN n ELSE next[s[j]])
        BY <4>1, <4>2 DEF LinkAt
      <4>4. At(r, j + 1) = IF j = i THEN n ELSE At(s, j + 1)
        BY <1>2, <1>4, <3>2, <4>1
      <4>. QED BY <1>2, <1>3, <1>8, <4>1, <4>2, <4>3, <4>4
    <3>3. CASE j > i + 1
      <4>1. j - 1 \in 1 .. c /\ r[j] = s[j - 1] /\ At(r, j + 1) = At(s, j)
        <5>1. j - 1 \in 1 .. c /\ j \in Nat /\ j + 1 \in Nat /\ (j + 1) - 1 = j
              /\ j > i /\ j + 1 > i + 1
          BY <1>2, <3>3
        <5>2. At(r, j) = At(s, j - 1) /\ At(r, j + 1) = At(s, j)
          BY <1>2, <1>4, <3>3, <5>1
        <5>. QED BY <1>2, <3>0, <5>1, <5>2
      <4>2. r[j] \in Node /\ r[j] # n /\ r[j] # p /\ (r[j] = q <=> j = i + 2)
        BY <1>1, <1>2, <1>6, <3>3, <4>1
      <4>3. next'[r[j]] = next[s[j - 1]]
            /\ prev'[r[j]] = (IF j = i + 2 THEN n ELSE prev[s[j - 1]])
        BY <4>1, <4>2 DEF LinkAt
      <4>4. At(r, j - 1) = IF j = i + 2 THEN n ELSE At(s, j - 2)
        BY <1>2, <1>4, <3>3, <4>1
      <4>5. next[s[j - 1]] = At(s, j) /\ prev[s[j - 1]] = At(s, j - 2)
        BY <1>3, <4>1
      <4>. QED BY <1>2, <1>8, <4>1, <4>2, <4>3, <4>4, <4>5
    <3>. QED BY <1>2, <3>1, <3>2, <3>3
  <2>. QED BY <1>4, <2>1, <2>2 DEF Linked
<1>10. ASSUME NEW k \in List, k # l PROVE Linked(k, v[k])'
  <2>1. Linked(k, v[k])
    BY DEF Rep
  <2>2. head'[k] = head[k] /\ tail'[k] = tail[k] /\ count'[k] = count[k]
    BY <1>1, <1>10 DEF Fields, LinkAt, Lists!Put
  <2>3. ASSUME NEW j \in 1 .. Len(v[k])
        PROVE  /\ v[k][j] \in Node /\ v[k][j] # n
               /\ next'[v[k][j]] = next[v[k][j]] /\ prev'[v[k][j]] = prev[v[k][j]]
    <3>1. v[k][j] \in Node /\ lst[v[k][j]] = k /\ k # NULL
      BY RepFacts
    <3>2. v[k][j] # n /\ v[k][j] # p /\ v[k][j] # q
      BY <1>1, <1>2, <1>6, <1>10, <3>1
    <3>. QED BY <3>1, <3>2 DEF LinkAt
  <2>. QED BY <1>8, <2>1, <2>2, <2>3 DEF Linked
<1>11. ASSUME NEW m \in Node
       PROVE  IF lst'[m] = NULL THEN prev'[m] = NULL /\ next'[m] = NULL
              ELSE m \in Nodes(w[lst'[m]])
  <2>1. CASE m = n
    BY <1>1, <1>4, <1>5, <1>8, <2>1
  <2>2. CASE m # n
    <3>1. lst'[m] = lst[m] /\ (IF lst[m] = NULL THEN prev[m] = NULL /\ next[m] = NULL
                              ELSE m \in Nodes(v[lst[m]]))
      BY <1>8, <2>2 DEF Rep
    <3>2. CASE lst[m] = NULL
      <4>1. m # p /\ m # q
        BY <1>1, <1>2, <1>6, <3>2
      <4>. QED BY <2>2, <3>1, <3>2, <4>1 DEF LinkAt
    <3>3. CASE lst[m] # NULL
      <4>1. lst[m] \in List
        BY <1>1, <3>3 DEF Fields
      <4>. QED BY <1>4, <1>5, <3>1, <3>3, <4>1 DEF s
    <3>. QED BY <3>2, <3>3
  <2>. QED BY <2>1, <2>2
<1>12. \A k \in List : Linked(k, w[k])'
  BY <1>5, <1>9, <1>10
<1>. QED BY <1>5, <1>7, <1>11, <1>12 DEF Rep, w, r, s

(* The pointers after a node has left its list, wherever it was.              *)
LEMMA UnlinkStep ==
    ASSUME NEW v, Rep(v), NEW l \in List, NEW i \in 1 .. Len(v[l]), NEW n, n = v[l][i],
           NEW p, p = At(v[l], i - 1), NEW q, q = At(v[l], i + 1), UnlinkAt(l, n, p, q)
    PROVE  Rep([v EXCEPT ![l] = Del(v[l], i)])'
<1> DEFINE s == v[l]
           c == Len(s)
           r == Del(s, i)
           w == [v EXCEPT ![l] = r]
<1>1. Fields /\ v \in [List -> Seq(Node)] /\ NULL \notin Node /\ l # NULL
  BY ListAssumption DEF Rep
<1>2. /\ s \in Seq(Node) /\ Distinct(s) /\ c \in Nat
      /\ \A j \in 1 .. c : s[j] \in Node /\ lst[s[j]] = l /\ At(s, j) = s[j]
      /\ \A j, k \in 1 .. c : s[j] = s[k] => j = k
      /\ i \in Nat /\ 1 <= i /\ i <= c /\ n = s[i] /\ n \in Node
  BY <1>1, RepFacts
<1>3. /\ \A j \in 1 .. c : prev[s[j]] = At(s, j - 1) /\ next[s[j]] = At(s, j + 1)
      /\ head[l] = At(s, 1) /\ tail[l] = At(s, c) /\ count[l] = c
  BY DEF Rep, Linked
<1>4. /\ r \in Seq(Node) /\ Len(r) = c - 1 /\ Distinct(r)
      /\ Nodes(r) = Nodes(s) \ {n}
      /\ \A k \in Nat : At(r, k) = IF k < i THEN At(s, k) ELSE At(s, k + 1)
  <2>1. s \in Seq(Node) /\ Distinct(s) /\ i \in 1 .. Len(s) /\ r = Del(s, i)
    BY <1>2
  <2>. HIDE DEF s, r
  <2>2. /\ r \in Seq(Node) /\ Len(r) = Len(s) - 1 /\ Distinct(r)
        /\ Nodes(r) = Nodes(s) \ {s[i]} /\ Closes(r, s, i)
    BY ONLY <2>1, DelFacts
  <2>. QED BY <1>2, <2>2 DEF Closes
<1>5. w \in [List -> Seq(Node)] /\ w[l] = r /\ \A k \in List : k # l => w[k] = v[k]
  BY <1>1, <1>4
<1>6. /\ p = IF i = 1 THEN NULL ELSE s[i - 1]
      /\ q = IF i = c THEN NULL ELSE s[i + 1]
      /\ i # 1 => i - 1 \in 1 .. c
      /\ i # c => i + 1 \in 1 .. c
  BY <1>2 DEF At
<1>7. At(s, 0) = NULL /\ At(s, c + 1) = NULL
  BY RepFacts
<1>. HIDE DEF s, c, r, w
<1>8. lst'[n] = NULL /\ \A m \in Node : m # n => lst'[m] = lst[m]
  BY <1>1, <1>2 DEF Fields, UnlinkAt
<1>9. /\ head'[l] = (IF i = 1 THEN q ELSE head[l]) /\ tail'[l] = (IF i = c THEN p ELSE tail[l])
      /\ count'[l] = c - 1
  <2>1. head'[l] = (IF p = NULL THEN q ELSE head[l])
        /\ tail'[l] = (IF q = NULL THEN p ELSE tail[l]) /\ count'[l] = count[l] - 1
    BY <1>1 DEF Fields, UnlinkAt, Lists!Put
  <2>2. (p = NULL <=> i = 1) /\ (q = NULL <=> i = c)
    BY <1>1, <1>2, <1>6
  <2>. QED BY <1>3, <2>1, <2>2
<1>10. Fields'
  <2>1. p \in Node \cup {NULL} /\ q \in Node \cup {NULL}
    BY <1>2, <1>6
  <2>2. count'[l] \in Nat
    BY <1>2, <1>9
  <2>. QED BY <1>1, <2>1, <2>2 DEF Fields, UnlinkAt, Lists!Put
<1>11. Linked(l, r)'
  <2>1. head'[l] = At(r, 1) /\ tail'[l] = At(r, c - 1)
    <3>1. At(r, 1) = IF 1 < i THEN At(s, 1) ELSE At(s, 2)
      BY <1>4
    <3>2. head'[l] = At(r, 1)
      BY <1>2, <1>3, <1>9, <3>1 DEF s
    <3>3. At(r, c - 1) = IF c - 1 < i THEN At(s, c - 1) ELSE At(s, c)
      BY <1>2, <1>4
    <3>4. tail'[l] = At(r, c - 1)
      BY <1>2, <1>3, <1>9, <3>3 DEF s
    <3>. QED BY <3>2, <3>4
  <2>2. ASSUME NEW j \in 1 .. c - 1
        PROVE  lst'[r[j]] = l /\ prev'[r[j]] = At(r, j - 1) /\ next'[r[j]] = At(r, j + 1)
    <3>0. At(r, j) = r[j]
      BY <1>4 DEF At
    <3>1. CASE j < i
      <4>1. j \in 1 .. c /\ j \in Nat /\ j - 1 \in Nat /\ j - 1 < i /\ j + 1 \in Nat
            /\ (j + 1 < i <=> j # i - 1)
        BY <1>2, <3>1
      <4>2. r[j] = s[j] /\ At(r, j - 1) = At(s, j - 1)
            /\ At(r, j + 1) = IF j = i - 1 THEN At(s, i + 1) ELSE At(s, j + 1)
        <5>1. At(r, j + 1) = IF j + 1 < i THEN At(s, j + 1) ELSE At(s, (j + 1) + 1)
          BY <1>4, <4>1
        <5>2. j = i - 1 => (j + 1) + 1 = i + 1
          BY <1>2
        <5>. QED BY <1>2, <1>4, <3>0, <3>1, <4>1, <5>1, <5>2
      <4>3. r[j] \in Node /\ r[j] # n /\ r[j] # q /\ (r[j] = p <=> j = i - 1)
        BY <1>1, <1>2, <1>6, <3>1, <4>1, <4>2
      <4>4. prev'[r[j]] = prev[s[j]] /\ next'[r[j]] = (IF j = i - 1 THEN q ELSE next[s[j]])
        BY <4>2, <4>3 DEF UnlinkAt
      <4>. QED BY <1>2, <1>3, <1>8, <4>1, <4>2, <4>3, <4>4 DEF s
    <3>2. CASE j >= i
      <4>1. j + 1 \in 1 .. c /\ j \in Nat /\ j - 1 \in Nat /\ j + 1 \in Nat
            /\ (j - 1 < i <=> j = i) /\ (j - 1) + 1 = j /\ j + 1 # i
        BY <1>2, <3>2
      <4>2. r[j] = s[j + 1] /\ At(r, j + 1) = At(s, (j + 1) + 1)
            /\ At(r, j - 1) = IF j = i THEN At(s, i - 1) ELSE At(s, j)
        <5>1. At(r, j) = At(s, j + 1)
          BY <1>2, <1>4, <3>2, <4>1
        <5>2. At(r, j + 1) = At(s, (j + 1) + 1)
          BY <1>2, <1>4, <3>2, <4>1
        <5>3. At(r, j - 1) = IF j - 1 < i THEN At(s, j - 1) ELSE At(s, (j - 1) + 1)
          BY <1>4, <4>1
        <5>. QED BY <1>2, <3>0, <4>1, <5>1, <5>2, <5>3
      <4>3. r[j] \in Node /\ r[j] # n /\ r[j] # p /\ (r[j] = q <=> j = i)
        BY <1>1, <1>2, <1>6, <3>2, <4>1, <4>2
      <4>4. next'[r[j]] = next[s[j + 1]]
            /\ prev'[r[j]] = (IF j = i THEN p ELSE prev[s[j + 1]])
        BY <4>2, <4>3 DEF UnlinkAt
      <4>5. next[s[j + 1]] = At(s, (j + 1) + 1) /\ prev[s[j + 1]] = At(s, (j + 1) - 1)
            /\ (j + 1) - 1 = j
        BY <1>3, <4>1
      <4>. QED BY <1>2, <1>8, <4>1, <4>2, <4>3, <4>4, <4>5 DEF s
    <3>. QED BY <1>2, <3>1, <3>2
  <2>. QED BY <1>4, <1>9, <2>1, <2>2 DEF Linked
<1>12. ASSUME NEW k \in List, k # l PROVE Linked(k, v[k])'
  <2>1. Linked(k, v[k])
    BY DEF Rep
  <2>2. head'[k] = head[k] /\ tail'[k] = tail[k] /\ count'[k] = count[k]
    BY <1>1, <1>12 DEF Fields, UnlinkAt, Lists!Put
  <2>3. ASSUME NEW j \in 1 .. Len(v[k])
        PROVE  /\ v[k][j] \in Node /\ v[k][j] # n
               /\ next'[v[k][j]] = next[v[k][j]] /\ prev'[v[k][j]] = prev[v[k][j]]
    <3>1. v[k][j] \in Node /\ lst[v[k][j]] = k /\ k # NULL
      BY RepFacts
    <3>2. v[k][j] # n /\ v[k][j] # p /\ v[k][j] # q
      BY <1>1, <1>2, <1>6, <1>12, <3>1
    <3>. QED BY <3>1, <3>2 DEF UnlinkAt
  <2>. QED BY <1>8, <2>1, <2>2, <2>3 DEF Linked
<1>13. ASSUME NEW m \in Node
       PROVE  IF lst'[m] = NULL THEN prev'[m] = NULL /\ next'[m] = NULL
              ELSE m \in Nodes(w[lst'[m]])
  <2>1. CASE m = n
    BY <1>8, <2>1 DEF UnlinkAt
  <2>2. CASE m # n
    <3>1. lst'[m] = lst[m] /\ (IF lst[m] = NULL THEN prev[m] = NULL /\ next[m] = NULL
                              ELSE m \in Nodes(v[lst[m]]))
      BY <1>8, <2>2 DEF Rep
    <3>2. CASE lst[m] = NULL
      <4>1. m # p /\ m # q
        BY <1>1, <1>2, <1>6, <3>2
      <4>. QED BY <2>2, <3>1, <3>2, <4>1 DEF UnlinkAt
    <3>3. CASE lst[m] # NULL
      <4>1. lst[m] \in List
        BY <1>1, <3>3 DEF Fields
      <4>. QED BY <1>4, <1>5, <2>2, <3>1, <3>3, <4>1 DEF s
    <3>. QED BY <3>2, <3>3
  <2>. QED BY <2>1, <2>2
<1>14. \A k \in List : Linked(k, w[k])'
  BY <1>5, <1>11, <1>12
<1>. QED BY <1>5, <1>10, <1>13, <1>14 DEF Rep, w, r, s

-----------------------------------------------------------------------------
(* A walk along the pointers.                                                *)

\* u is what Walk() goes through: c nodes along f, from p on.
Goes(u, c, f, p) ==
    u = [i \in 1 .. c |-> IF i = 1 THEN p ELSE IF u[i - 1] = NULL THEN NULL ELSE f[u[i - 1]]]

(* There is one way to go.                                                    *)
LEMMA OneWay ==
    ASSUME NEW c \in Nat, NEW f, NEW p, NEW u, Goes(u, c, f, p), NEW w, Goes(w, c, f, p)
    PROVE  u = w
<1>1. DOMAIN u = 1 .. c /\ DOMAIN w = 1 .. c
  BY DEF Goes
<1>2. /\ \A i \in 1 .. c : u[i] = IF i = 1 THEN p ELSE IF u[i - 1] = NULL THEN NULL ELSE f[u[i - 1]]
      /\ \A i \in 1 .. c : w[i] = IF i = 1 THEN p ELSE IF w[i - 1] = NULL THEN NULL ELSE f[w[i - 1]]
  BY DEF Goes
<1> DEFINE T == {i \in 1 .. c : u[i] # w[i]}
<1>3. T = {}
  <2>. SUFFICES ASSUME T # {} PROVE FALSE
    OBVIOUS
  <2>1. T \subseteq Nat
    OBVIOUS
  <2>2. PICK m \in T : \A n \in T : m <= n
    BY <2>1, LeastNumber
  <2>3. m \in 1 .. c /\ u[m] # w[m] /\ m # 1
    BY <1>2
  <2>4. m - 1 \in 1 .. c /\ m - 1 \notin T
    BY <2>2, <2>3
  <2>5. u[m - 1] = w[m - 1]
    BY <2>4
  <2>. QED BY <1>2, <2>3, <2>5
<1>4. \A i \in 1 .. c : u[i] = w[i]
  BY <1>3
<1>5. u = [i \in 1 .. c |-> u[i]] /\ w = [i \in 1 .. c |-> w[i]]
  BY <1>1 DEF Goes
<1>. QED BY <1>4, <1>5

(* What Walk() goes through is known when one such way is.                    *)
LEMMA WalkIs ==
    ASSUME NEW l, NEW f, NEW p, NEW u, count[l] \in Nat, Goes(u, count[l], f, p)
    PROVE  Lists!Walk(l, f, p) = u
<1> DEFINE w == CHOOSE w : Goes(w, count[l], f, p)
<1>1. Lists!Walk(l, f, p) = w
  BY DEF Lists!Walk, Goes
<1>2. Goes(w, count[l], f, p)
  OBVIOUS
<1>. QED BY <1>1, <1>2, OneWay

\* The sequences as a user walks them: those of ListsSpec.
Val == [l \in List |-> Lists!Walk(l, next, head[l])]

(* A user who walks a list from its head meets its nodes.                     *)
LEMMA RepVal ==
    ASSUME NEW v, Rep(v)
    PROVE  Val = v
<1>1. ASSUME NEW l \in List PROVE Lists!Walk(l, next, head[l]) = v[l]
  <2> DEFINE s == v[l]
             c == Len(s)
  <2>1. /\ s \in Seq(Node) /\ c \in Nat /\ DOMAIN s = 1 .. c
        /\ \A i \in 1 .. c : s[i] \in Node /\ s[i] # NULL /\ At(s, i) = s[i]
    BY RepFacts
  <2>2. head[l] = At(s, 1) /\ count[l] = c /\ \A i \in 1 .. c : next[s[i]] = At(s, i + 1)
    BY DEF Rep, Linked
  <2>3. s = [i \in 1 .. c |-> s[i]]
    BY <2>1
  <2>. HIDE DEF s, c
  <2>4. ASSUME NEW i \in 1 .. c
        PROVE  s[i] = IF i = 1 THEN head[l] ELSE IF s[i - 1] = NULL THEN NULL ELSE next[s[i - 1]]
    <3>1. CASE i = 1
      BY <2>1, <2>2, <3>1
    <3>2. CASE i # 1
      <4>1. i - 1 \in 1 .. c /\ (i - 1) + 1 = i
        BY <2>1, <3>2
      <4>2. next[s[i - 1]] = At(s, (i - 1) + 1)
        BY <2>2, <4>1
      <4>. QED BY <2>1, <3>2, <4>1, <4>2
    <3>. QED BY <3>1, <3>2
  <2>5. Goes(s, c, next, head[l])
    BY <2>3, <2>4 DEF Goes
  <2>6. count[l] \in Nat /\ Goes(s, count[l], next, head[l])
    BY <2>1, <2>2, <2>5
  <2>. QED BY <2>6, WalkIs DEF s
<1>2. v = [l \in List |-> v[l]]
  BY DEF Rep
<1>. QED BY <1>1, <1>2 DEF Val

LEMMA RepValAfter ==
    ASSUME NEW v
    PROVE  Rep(v)' => Val' = v
<1>1. Rep(v) => Val = v
  BY RepVal
<1>2. Rep(v)' => (Val = v)'
  BY <1>1, PTL
<1>. QED BY <1>2

-----------------------------------------------------------------------------
(* The calls: four of them link a node, three unlink one.                    *)

\* The sequences after node n was linked behind the first i nodes of list l.
After(v, l, i, n) == [v EXCEPT ![l] = Ins(v[l], i, n)]

\* The sequences after the node at place i of list l was unlinked.
Without(v, l, i) == [v EXCEPT ![l] = Del(v[l], i)]

(* Where a linked node stands, and what its pointers are.                     *)
LEMMA PlaceOf ==
    ASSUME NEW v, Rep(v), NEW n \in Node, lst[n] # NULL
    PROVE  /\ lst[n] \in List
           /\ \E i \in 1 .. Len(v[lst[n]]) : /\ v[lst[n]][i] = n
                                            /\ prev[n] = At(v[lst[n]], i - 1)
                                            /\ next[n] = At(v[lst[n]], i + 1)
<1>1. lst[n] \in List
  BY DEF Rep, Fields
<1> DEFINE s == v[lst[n]]
<1>2. n \in Nodes(s) /\ s \in Seq(Node)
  BY <1>1 DEF Rep
<1>3. PICK i \in 1 .. Len(s) : s[i] = n
  BY <1>2 DEF Nodes
<1>4. prev[s[i]] = At(s, i - 1) /\ next[s[i]] = At(s, i + 1)
  BY <1>1, <1>3 DEF Rep, Linked
<1>. QED BY <1>1, <1>3, <1>4

(* An assignment through a pointer that may be NULL.                          *)
LEMMA SetFacts ==
    ASSUME NEW f \in [Node -> Node \cup {NULL}], NEW p, NEW x \in Node \cup {NULL},
           NEW g, g = Lists!Set(f, p, x)
    PROVE  /\ g \in [Node -> Node \cup {NULL}]
           /\ \A m \in Node : g[m] = IF m = p THEN x ELSE f[m]
<1>1. g = [m \in Node |-> IF m = p THEN x ELSE f[m]]
  BY DEF Lists!Set
<1>. QED BY <1>1

(* The neighbours of a place are nodes of the list, or there is none.         *)
LEMMA Neighbours ==
    ASSUME NEW v, Rep(v), NEW l \in List, NEW i \in Nat
    PROVE  /\ At(v[l], i) \in Node \cup {NULL}
           /\ \A n \in Node : lst[n] = NULL => At(v[l], i) # n
<1>1. At(v[l], i) # NULL => i \in 1 .. Len(v[l]) /\ At(v[l], i) = v[l][i]
  BY RepFacts
<1>2. \A j \in 1 .. Len(v[l]) : v[l][j] \in Node /\ lst[v[l][j]] = l /\ l # NULL
  BY RepFacts
<1>3. NULL \notin Node
  BY ListAssumption
<1>. QED BY <1>1, <1>2, <1>3

(* The ends of a list.                                                        *)
LEMMA Ends ==
    ASSUME NEW v, Rep(v), NEW l \in List
    PROVE  /\ Len(v[l]) \in Nat /\ count[l] = Len(v[l])
           /\ head[l] = At(v[l], 1) /\ tail[l] = At(v[l], Len(v[l]))
           /\ At(v[l], 0) = NULL /\ At(v[l], Len(v[l]) + 1) = NULL
<1>1. Linked(l, v[l])
  BY DEF Rep
<1>2. Len(v[l]) \in Nat /\ At(v[l], 0) = NULL /\ At(v[l], Len(v[l]) + 1) = NULL
  BY RepFacts
<1>. QED BY <1>1, <1>2 DEF Linked

(* tt_list_push_head()                                                        *)
LEMMA PushHeadLinks ==
    ASSUME NEW v, Rep(v), NEW l \in List, NEW n \in Node, Lists!tt_list_push_head(l, n)
    PROVE  lst[n] = NULL /\ \E i \in 0 .. Len(v[l]) : Rep(After(v, l, i, n))'
<1> DEFINE s == v[l]
           q == At(s, 1)
<1>1. Fields /\ NULL \notin Node /\ lst[n] = NULL /\ prev[n] = NULL
  BY ListAssumption DEF Rep, Lists!tt_list_push_head
<1>2. head[l] = q /\ At(s, 0) = NULL /\ 0 \in 0 .. Len(s) /\ q \in Node \cup {NULL} /\ q # n
  BY <1>1, Ends, Neighbours
<1>. HIDE DEF q
<1>3. LinkAt(l, 0, n, NULL, q)
  <2>. USE <1>1, <1>2 DEF Lists!tt_list_push_head, Fields
  <2>1. lst' = [lst EXCEPT ![n] = l] /\ count' = [count EXCEPT ![l] = @ + 1]
    OBVIOUS
  <2>2. head' = Lists!Put(head, l, NULL = NULL, n) /\ tail' = Lists!Put(tail, l, q = NULL, n)
    BY DEF Lists!Put
  <2>3. next' = [next EXCEPT ![n] = q]
    OBVIOUS
  <2>4. prev' \in [Node -> Node \cup {NULL}] /\ \A m \in Node : prev'[m] = IF m = q THEN n ELSE prev[m]
    BY SetFacts
  <2>. QED BY <2>1, <2>2, <2>3, <2>4 DEF LinkAt
<1>4. Rep(After(v, l, 0, n))'
  <2>1. q = At(v[l], 0 + 1) /\ NULL = At(v[l], 0)
    BY <1>2 DEF q
  <2>. QED BY <1>1, <1>2, <1>3, <2>1, LinkStep DEF After
<1>. QED BY <1>1, <1>2, <1>4

(* tt_list_push_tail()                                                        *)
LEMMA PushTailLinks ==
    ASSUME NEW v, Rep(v), NEW l \in List, NEW n \in Node, Lists!tt_list_push_tail(l, n)
    PROVE  lst[n] = NULL /\ \E i \in 0 .. Len(v[l]) : Rep(After(v, l, i, n))'
<1> DEFINE s == v[l]
           c == Len(s)
           p == At(s, c)
<1>1. Fields /\ NULL \notin Node /\ lst[n] = NULL /\ next[n] = NULL
  BY ListAssumption DEF Rep, Lists!tt_list_push_tail
<1>2. tail[l] = p /\ At(s, c + 1) = NULL /\ c \in 0 .. Len(s) /\ p \in Node \cup {NULL} /\ p # n
  BY <1>1, Ends, Neighbours
<1>. HIDE DEF p, c
<1>3. LinkAt(l, c, n, p, NULL)
  <2>. USE <1>1, <1>2 DEF Lists!tt_list_push_tail, Fields
  <2>1. lst' = [lst EXCEPT ![n] = l] /\ count' = [count EXCEPT ![l] = @ + 1]
    OBVIOUS
  <2>2. head' = Lists!Put(head, l, p = NULL, n) /\ tail' = Lists!Put(tail, l, NULL = NULL, n)
    BY DEF Lists!Put
  <2>3. prev' = [prev EXCEPT ![n] = p]
    OBVIOUS
  <2>4. next' \in [Node -> Node \cup {NULL}] /\ \A m \in Node : next'[m] = IF m = p THEN n ELSE next[m]
    <3>1. next' = Lists!Set(next, p, n) /\ next \in [Node -> Node \cup {NULL}]
          /\ n \in Node \cup {NULL}
      OBVIOUS
    <3>. QED BY ONLY <3>1, SetFacts
  <2>. QED BY <2>1, <2>2, <2>3, <2>4 DEF LinkAt
<1>4. Rep(After(v, l, c, n))'
  BY <1>1, <1>2, <1>3, LinkStep DEF After, p
<1>. QED BY <1>1, <1>2, <1>4

(* tt_list_insert_before()                                                    *)
LEMMA InsertBeforeLinks ==
    ASSUME NEW v, Rep(v), NEW pos \in Node, NEW n \in Node, pos # n,
           Lists!tt_list_insert_before(pos, n)
    PROVE  /\ lst[n] = NULL
           /\ \E l \in List : \E i \in 0 .. Len(v[l]) : Rep(After(v, l, i, n))'
<1>1. Fields /\ NULL \notin Node /\ lst[n] = NULL /\ lst[pos] # NULL
  BY ListAssumption DEF Rep, Lists!tt_list_insert_before
<1>2. PICK l \in List : l = lst[pos]
  BY <1>1, PlaceOf
<1> DEFINE s == v[l]
<1>3. PICK j \in 1 .. Len(s) : s[j] = pos /\ prev[pos] = At(s, j - 1)
  BY <1>1, <1>2, PlaceOf
<1> DEFINE i == j - 1
           p == At(s, i)
<1>4. i \in 0 .. Len(s) /\ At(s, i + 1) = pos /\ prev[pos] = p /\ tail[l] # NULL
      /\ p \in Node \cup {NULL} /\ p # n
  <2>1. Len(s) \in Nat /\ At(s, j) = s[j] /\ \A k \in 1 .. Len(s) : s[k] # NULL /\ At(s, k) = s[k]
    BY <1>2, RepFacts
  <2>2. tail[l] = At(s, Len(s)) /\ Len(s) \in 1 .. Len(s)
    BY <1>2, <2>1, Ends
  <2>3. i \in Nat
    BY <2>1
  <2>4. p \in Node \cup {NULL} /\ p # n
    BY <1>1, <1>2, <2>3, Neighbours
  <2>. HIDE DEF p
  <2>. QED BY <1>3, <2>1, <2>2, <2>4 DEF p
<1>. HIDE DEF p, i
<1>5. LinkAt(l, i, n, p, pos)
  <2>. USE <1>1, <1>2, <1>4 DEF Lists!tt_list_insert_before, Fields
  <2>1. lst' = [lst EXCEPT ![n] = l] /\ count' = [count EXCEPT ![l] = @ + 1]
    OBVIOUS
  <2>2. head' = Lists!Put(head, l, p = NULL, n) /\ tail' = Lists!Put(tail, l, pos = NULL, n)
    BY DEF Lists!Put
  <2>3. next' = [Lists!Set(next, p, n) EXCEPT ![n] = pos]
        /\ prev' = [prev EXCEPT ![n] = p, ![pos] = n]
    OBVIOUS
  <2> DEFINE g == Lists!Set(next, p, n)
  <2>4. g \in [Node -> Node \cup {NULL}] /\ \A m \in Node : g[m] = IF m = p THEN n ELSE next[m]
    <3>1. next \in [Node -> Node \cup {NULL}] /\ n \in Node \cup {NULL}
      OBVIOUS
    <3>. QED BY ONLY <3>1, SetFacts
  <2>. HIDE DEF g
  <2>5. /\ next' = [g EXCEPT ![n] = pos] /\ prev' = [prev EXCEPT ![n] = p, ![pos] = n]
        /\ prev \in [Node -> Node \cup {NULL}] /\ p \in Node \cup {NULL}
        /\ n \in Node /\ pos \in Node /\ pos # n
    BY <2>3 DEF g
  <2>6. next' \in [Node -> Node \cup {NULL}] /\ prev' \in [Node -> Node \cup {NULL}]
    BY ONLY <2>4, <2>5
  <2>7. next'[n] = pos /\ prev'[n] = p
    BY ONLY <2>4, <2>5
  <2>8. \A m \in Node : m # n => /\ next'[m] = IF m = p THEN n ELSE next[m]
                                /\ prev'[m] = IF m = pos THEN n ELSE prev[m]
    BY ONLY <2>4, <2>5
  <2>. QED BY <2>1, <2>2, <2>6, <2>7, <2>8 DEF LinkAt
<1>6. Rep(After(v, l, i, n))'
  BY <1>1, <1>2, <1>4, <1>5, LinkStep DEF After, p
<1>. QED BY <1>1, <1>4, <1>6

(* tt_list_insert_after()                                                     *)
LEMMA InsertAfterLinks ==
    ASSUME NEW v, Rep(v), NEW pos \in Node, NEW n \in Node, pos # n,
           Lists!tt_list_insert_after(pos, n)
    PROVE  /\ lst[n] = NULL
           /\ \E l \in List : \E i \in 0 .. Len(v[l]) : Rep(After(v, l, i, n))'
<1>1. Fields /\ NULL \notin Node /\ lst[n] = NULL /\ lst[pos] # NULL
  BY ListAssumption DEF Rep, Lists!tt_list_insert_after
<1>2. PICK l \in List : l = lst[pos]
  BY <1>1, PlaceOf
<1> DEFINE s == v[l]
<1>3. PICK i \in 1 .. Len(s) : s[i] = pos /\ next[pos] = At(s, i + 1)
  BY <1>1, <1>2, PlaceOf
<1> DEFINE q == At(s, i + 1)
<1>4. i \in 0 .. Len(s) /\ At(s, i) = pos /\ next[pos] = q
      /\ q \in Node \cup {NULL} /\ q # n
  <2>1. Len(s) \in Nat /\ \A k \in 1 .. Len(s) : At(s, k) = s[k]
    BY <1>2, RepFacts
  <2>2. i + 1 \in Nat
    OBVIOUS
  <2>3. q \in Node \cup {NULL} /\ q # n
    BY <1>1, <1>2, <2>2, Neighbours
  <2>. QED BY <1>3, <2>1, <2>3
<1>. HIDE DEF q
<1>5. LinkAt(l, i, n, pos, q)
  <2>. USE <1>1, <1>2, <1>4 DEF Lists!tt_list_insert_after, Fields
  <2>1. lst' = [lst EXCEPT ![n] = l] /\ count' = [count EXCEPT ![l] = @ + 1]
    OBVIOUS
  <2>2. head' = Lists!Put(head, l, pos = NULL, n) /\ tail' = Lists!Put(tail, l, q = NULL, n)
    BY DEF Lists!Put
  <2>3. prev' = [Lists!Set(prev, q, n) EXCEPT ![n] = pos]
        /\ next' = [next EXCEPT ![n] = q, ![pos] = n]
    OBVIOUS
  <2> DEFINE g == Lists!Set(prev, q, n)
  <2>4. g \in [Node -> Node \cup {NULL}] /\ \A m \in Node : g[m] = IF m = q THEN n ELSE prev[m]
    <3>1. prev \in [Node -> Node \cup {NULL}] /\ n \in Node \cup {NULL}
      OBVIOUS
    <3>. QED BY ONLY <3>1, SetFacts
  <2>. HIDE DEF g
  <2>5. /\ prev' = [g EXCEPT ![n] = pos] /\ next' = [next EXCEPT ![n] = q, ![pos] = n]
        /\ next \in [Node -> Node \cup {NULL}] /\ q \in Node \cup {NULL}
        /\ n \in Node /\ pos \in Node /\ pos # n
    BY <2>3 DEF g
  <2>6. next' \in [Node -> Node \cup {NULL}] /\ prev' \in [Node -> Node \cup {NULL}]
    BY ONLY <2>4, <2>5
  <2>7. next'[n] = q /\ prev'[n] = pos
    BY ONLY <2>4, <2>5
  <2>8. \A m \in Node : m # n => /\ next'[m] = IF m = pos THEN n ELSE next[m]
                                /\ prev'[m] = IF m = q THEN n ELSE prev[m]
    BY ONLY <2>4, <2>5
  <2>. QED BY <2>1, <2>2, <2>6, <2>7, <2>8 DEF LinkAt
<1>6. Rep(After(v, l, i, n))'
  BY <1>1, <1>2, <1>4, <1>5, LinkStep DEF After, q
<1>. QED BY <1>1, <1>4, <1>6

(* tt_list_pop_head()                                                         *)
LEMMA PopHeadUnlinks ==
    ASSUME NEW v, Rep(v), NEW l \in List, Lists!tt_list_pop_head(l)
    PROVE  \E i \in 1 .. Len(v[l]) : Rep(Without(v, l, i))'
<1> DEFINE s == v[l]
           q == At(s, 2)
<1>1. PICK h : h = head[l]
  OBVIOUS
<1>2. Fields /\ NULL \notin Node /\ h # NULL
  BY <1>1, ListAssumption DEF Rep, Lists!tt_list_pop_head
<1>3. h = At(s, 1) /\ At(s, 0) = NULL
  BY <1>1, Ends
<1>4. 1 \in 1 .. Len(s) /\ h = s[1] /\ h \in Node
  BY <1>2, <1>3, RepFacts
<1>5. next[h] = q
  <2>1. next[s[1]] = At(s, 1 + 1)
    BY <1>4 DEF Rep, Linked
  <2>. QED BY <1>4, <2>1
<1>6. q \in Node \cup {NULL}
  BY Neighbours
<1>. HIDE DEF q
<1>7. UnlinkAt(l, h, NULL, q)
  <2>. USE <1>1, <1>2, <1>4, <1>5 DEF Lists!tt_list_pop_head, Fields
  <2>1. lst' = [lst EXCEPT ![h] = NULL] /\ count' = [count EXCEPT ![l] = @ - 1]
    OBVIOUS
  <2>2. head' = Lists!Put(head, l, NULL = NULL, q) /\ tail' = Lists!Put(tail, l, q = NULL, NULL)
    BY DEF Lists!Put
  <2> DEFINE g == Lists!Set(prev, q, NULL)
  <2>3. next' = [next EXCEPT ![h] = NULL] /\ prev' = [g EXCEPT ![h] = NULL]
    OBVIOUS
  <2>4. g \in [Node -> Node \cup {NULL}] /\ \A m \in Node : g[m] = IF m = q THEN NULL ELSE prev[m]
    <3>1. prev \in [Node -> Node \cup {NULL}] /\ NULL \in Node \cup {NULL}
      OBVIOUS
    <3>. QED BY ONLY <3>1, SetFacts
  <2>. HIDE DEF g
  <2>. QED BY <2>1, <2>2, <2>3, <2>4 DEF UnlinkAt
<1>8. Rep(Without(v, l, 1))'
  <2>1. NULL = At(v[l], 1 - 1) /\ q = At(v[l], 1 + 1)
    BY <1>3 DEF q
  <2>. QED BY <1>4, <1>7, <2>1, UnlinkStep DEF Without
<1>. QED BY <1>4, <1>8

(* tt_list_pop_tail()                                                         *)
LEMMA PopTailUnlinks ==
    ASSUME NEW v, Rep(v), NEW l \in List, Lists!tt_list_pop_tail(l)
    PROVE  \E i \in 1 .. Len(v[l]) : Rep(Without(v, l, i))'
<1> DEFINE s == v[l]
           c == Len(s)
           p == At(s, c - 1)
<1>1. PICK t : t = tail[l]
  OBVIOUS
<1>2. Fields /\ NULL \notin Node /\ t # NULL
  BY <1>1, ListAssumption DEF Rep, Lists!tt_list_pop_tail
<1>3. t = At(s, c) /\ At(s, c + 1) = NULL /\ c \in Nat
  BY <1>1, Ends
<1>4. c \in 1 .. Len(s) /\ t = s[c] /\ t \in Node
  BY <1>2, <1>3, RepFacts
<1>5. prev[t] = p
  <2>1. prev[s[c]] = At(s, c - 1)
    BY <1>4 DEF Rep, Linked
  <2>. QED BY <1>4, <2>1
<1>6. p \in Node \cup {NULL}
  <2>1. c - 1 \in Nat
    BY <1>3, <1>4
  <2>. QED BY <2>1, Neighbours
<1>. HIDE DEF p, c
<1>7. UnlinkAt(l, t, p, NULL)
  <2>. USE <1>1, <1>2, <1>4, <1>5 DEF Lists!tt_list_pop_tail, Fields
  <2>1. lst' = [lst EXCEPT ![t] = NULL] /\ count' = [count EXCEPT ![l] = @ - 1]
    OBVIOUS
  <2>2. head' = Lists!Put(head, l, p = NULL, NULL) /\ tail' = Lists!Put(tail, l, NULL = NULL, p)
    BY DEF Lists!Put
  <2> DEFINE g == Lists!Set(next, p, NULL)
  <2>3. prev' = [prev EXCEPT ![t] = NULL] /\ next' = [g EXCEPT ![t] = NULL]
    OBVIOUS
  <2>4. g \in [Node -> Node \cup {NULL}] /\ \A m \in Node : g[m] = IF m = p THEN NULL ELSE next[m]
    <3>1. next \in [Node -> Node \cup {NULL}] /\ NULL \in Node \cup {NULL}
      OBVIOUS
    <3>. QED BY ONLY <3>1, SetFacts
  <2>. HIDE DEF g
  <2>. QED BY <2>1, <2>2, <2>3, <2>4 DEF UnlinkAt
<1>8. Rep(Without(v, l, c))'
  <2>1. c \in 1 .. Len(v[l]) /\ t = v[l][c] /\ p = At(v[l], c - 1) /\ NULL = At(v[l], c + 1)
    BY <1>3, <1>4 DEF p, c
  <2>. QED BY <1>7, <2>1, UnlinkStep DEF Without
<1>. QED BY <1>4, <1>8

(* tt_list_remove() of a linked node                                          *)
LEMMA RemoveUnlinks ==
    ASSUME NEW v, Rep(v), NEW n \in Node, Lists!tt_list_remove(n)
    PROVE  \E l \in List : \E i \in 1 .. Len(v[l]) : Rep(Without(v, l, i))'
<1>1. Fields /\ NULL \notin Node /\ lst[n] # NULL
  BY ListAssumption DEF Rep, Lists!tt_list_remove
<1>2. PICK l \in List : l = lst[n]
  BY <1>1, PlaceOf
<1> DEFINE s == v[l]
<1>3. PICK i \in 1 .. Len(s) : s[i] = n /\ prev[n] = At(s, i - 1) /\ next[n] = At(s, i + 1)
  BY <1>1, <1>2, PlaceOf
<1> DEFINE p == At(s, i - 1)
           q == At(s, i + 1)
<1>4. p \in Node \cup {NULL} /\ q \in Node \cup {NULL} /\ p # n /\ q # n
      /\ prev[n] = p /\ next[n] = q
  <2>1. i - 1 \in Nat /\ i + 1 \in Nat /\ Len(s) \in Nat
    BY RepFacts
  <2>2. p # NULL => i - 1 \in 1 .. Len(s) /\ p = s[i - 1]
    BY <2>1, RepFacts
  <2>3. q # NULL => i + 1 \in 1 .. Len(s) /\ q = s[i + 1]
    BY <2>1, RepFacts
  <2>4. \A j, k \in 1 .. Len(s) : s[j] = s[k] => j = k
    BY RepFacts
  <2>5. p \in Node \cup {NULL} /\ q \in Node \cup {NULL}
    BY <2>1, Neighbours
  <2>. HIDE DEF p, q
  <2>6. i - 1 # i /\ i + 1 # i
    OBVIOUS
  <2>7. p # n
    BY <1>1, <1>3, <2>2, <2>4, <2>6
  <2>8. q # n
    BY <1>1, <1>3, <2>3, <2>4, <2>6
  <2>. QED BY <1>3, <2>5, <2>7, <2>8 DEF p, q
<1>. HIDE DEF p, q
<1>5. UnlinkAt(l, n, p, q)
  <2>. USE <1>1, <1>2, <1>4 DEF Lists!tt_list_remove, Fields
  <2>1. lst' = [lst EXCEPT ![n] = NULL] /\ count' = [count EXCEPT ![l] = @ - 1]
    OBVIOUS
  <2>2. head' = Lists!Put(head, l, p = NULL, q) /\ tail' = Lists!Put(tail, l, q = NULL, p)
    OBVIOUS
  <2> DEFINE f == Lists!Set(next, p, q)
             g == Lists!Set(prev, q, p)
  <2>3. next' = [f EXCEPT ![n] = NULL] /\ prev' = [g EXCEPT ![n] = NULL]
    OBVIOUS
  <2>4. f \in [Node -> Node \cup {NULL}] /\ \A m \in Node : f[m] = IF m = p THEN q ELSE next[m]
    <3>1. next \in [Node -> Node \cup {NULL}] /\ q \in Node \cup {NULL}
      OBVIOUS
    <3>. QED BY ONLY <3>1, SetFacts
  <2>5. g \in [Node -> Node \cup {NULL}] /\ \A m \in Node : g[m] = IF m = q THEN p ELSE prev[m]
    <3>1. prev \in [Node -> Node \cup {NULL}] /\ p \in Node \cup {NULL}
      OBVIOUS
    <3>. QED BY ONLY <3>1, SetFacts
  <2>. HIDE DEF f, g
  <2>. QED BY <2>1, <2>2, <2>3, <2>4, <2>5 DEF UnlinkAt
<1>6. Rep(Without(v, l, i))'
  <2>1. n = v[l][i] /\ p = At(v[l], i - 1) /\ q = At(v[l], i + 1)
    BY <1>3 DEF p, q
  <2>. QED BY <1>5, <2>1, UnlinkStep DEF Without
<1>. QED BY <1>6

-----------------------------------------------------------------------------
(* The pointers implement sequences.                                         *)

(* What SeqLists makes of a sequence when a node is inserted.                 *)
LEMMA InsIs ==
    ASSUME NEW s \in Seq(Node), NEW n \in Node, NEW i \in 0 .. Len(s)
    PROVE  Ins(s, i, n) = SubSeq(s, 1, i) \o <<n>> \o SubSeq(s, i + 1, Len(s))
<1> DEFINE c == Len(s)
           a == SubSeq(s, 1, i)
           b == SubSeq(s, i + 1, c)
           r == a \o <<n>> \o b
<1>1. c \in Nat /\ i \in Nat /\ i <= c /\ \A j \in 1 .. c : s[j] \in Node
  OBVIOUS
<1>. HIDE DEF c
<1>2. a \in Seq(Node) /\ Len(a) = i /\ \A j \in 1 .. i : a[j] = s[j]
  <2>1. 1 \in Int /\ i \in Int /\ \A j \in 1 .. i : s[j] \in Node
    BY <1>1
  <2>2. /\ a \in Seq(Node) /\ Len(a) = IF 1 <= i THEN i - 1 + 1 ELSE 0
        /\ \A j \in 1 .. i - 1 + 1 : a[j] = s[1 + j - 1]
    BY <2>1, SubSeqProperties
  <2>. HIDE DEF a
  <2>. QED BY <1>1, <2>2
<1>3. b \in Seq(Node) /\ Len(b) = c - i /\ \A j \in 1 .. c - i : b[j] = s[i + j]
  <2>1. i + 1 \in Int /\ c \in Int /\ \A j \in i + 1 .. c : s[j] \in Node
    BY <1>1
  <2>2. /\ b \in Seq(Node) /\ Len(b) = IF i + 1 <= c THEN c - (i + 1) + 1 ELSE 0
        /\ \A j \in 1 .. c - (i + 1) + 1 : b[j] = s[i + 1 + j - 1]
    BY <2>1, SubSeqProperties
  <2>. HIDE DEF b
  <2>. QED BY <1>1, <2>2
<1>. HIDE DEF a, b
<1> DEFINE d == a \o <<n>>
<1>4. d \in Seq(Node) /\ Len(d) = i + 1 /\ \A j \in 1 .. i + 1 : d[j] = IF j <= i THEN s[j] ELSE n
  <2>1. <<n>> \in Seq(Node) /\ Len(<<n>>) = 1 /\ <<n>>[1] = n
    OBVIOUS
  <2>2. /\ d \in Seq(Node) /\ Len(d) = Len(a) + Len(<<n>>)
        /\ \A j \in 1 .. Len(a) + Len(<<n>>) : d[j] = IF j <= Len(a) THEN a[j] ELSE <<n>>[j - Len(a)]
    BY <1>2, <2>1, ConcatProperties
  <2>. HIDE DEF d
  <2>3. Len(d) = i + 1 /\ Len(a) + Len(<<n>>) = i + 1
    BY <1>1, <1>2, <2>1, <2>2
  <2>4. ASSUME NEW j \in 1 .. i + 1 PROVE d[j] = IF j <= i THEN s[j] ELSE n
    <3>1. CASE j <= i
      BY <1>1, <1>2, <2>2, <2>3, <3>1
    <3>2. CASE j = i + 1
      <4>1. j - Len(a) = 1 /\ ~(j <= Len(a))
        BY <1>1, <1>2, <3>2
      <4>. QED BY <1>1, <1>2, <2>1, <2>2, <2>3, <3>2, <4>1
    <3>. QED BY <1>1, <3>1, <3>2
  <2>. QED BY <2>2, <2>3, <2>4
<1>. HIDE DEF d
<1>5. /\ r \in Seq(Node) /\ DOMAIN r = 1 .. c + 1
      /\ \A j \in 1 .. c + 1 : r[j] = IF j <= i THEN s[j] ELSE IF j = i + 1 THEN n ELSE s[j - 1]
  <2>1. r = d \o b
    BY DEF d
  <2>2. /\ d \o b \in Seq(Node) /\ Len(d \o b) = Len(d) + Len(b)
        /\ \A j \in 1 .. Len(d) + Len(b) : (d \o b)[j] = IF j <= Len(d) THEN d[j] ELSE b[j - Len(d)]
    BY <1>3, <1>4, ConcatProperties
  <2>. HIDE DEF r
  <2>3. Len(d) + Len(b) = c + 1 /\ Len(r) = c + 1 /\ r \in Seq(Node)
    BY <1>1, <1>3, <1>4, <2>1, <2>2
  <2>4. ASSUME NEW j \in 1 .. c + 1
        PROVE  r[j] = IF j <= i THEN s[j] ELSE IF j = i + 1 THEN n ELSE s[j - 1]
    <3>1. CASE j <= i + 1
      BY <1>1, <1>4, <2>1, <2>2, <2>3, <3>1
    <3>2. CASE j > i + 1
      <4>1. j - (i + 1) \in 1 .. c - i /\ i + (j - (i + 1)) = j - 1
        BY <1>1, <3>2
      <4>2. r[j] = b[j - (i + 1)]
        BY <1>1, <1>4, <2>1, <2>2, <2>3, <3>2
      <4>. QED BY <1>1, <1>3, <3>2, <4>1, <4>2
    <3>. QED BY <1>1, <3>1, <3>2
  <2>. QED BY <2>3, <2>4
<1>. HIDE DEF r
<1>6. r = [j \in 1 .. c + 1 |-> r[j]]
  BY <1>5
<1>7. r = [j \in 1 .. c + 1 |-> IF j <= i THEN s[j] ELSE IF j = i + 1 THEN n ELSE s[j - 1]]
  BY <1>5, <1>6
<1>. QED BY <1>7 DEF Ins, r, a, b, c

(* What SeqLists makes of a sequence when a node is removed.                  *)
LEMMA DelIs ==
    ASSUME NEW s \in Seq(Node), Distinct(s)
    PROVE  /\ \A i \in 1 .. Len(s) : Lists!Lists!tt_list_remove(s, s[i]) = Del(s, i)
           /\ \A n : n \notin Nodes(s) => Lists!Lists!tt_list_remove(s, n) = s
<1>1. DOMAIN s = 1 .. Len(s) /\ Lists!Lists!Nodes(s) = Nodes(s)
  BY DEF Lists!Lists!Nodes, Nodes
<1>2. ASSUME NEW i \in 1 .. Len(s)
      PROVE  s[i] \in Nodes(s) /\ Lists!Lists!PosOf(s, s[i]) = i
  <2>1. \A j \in DOMAIN s : s[j] = s[i] => j = i
    BY <1>1 DEF Distinct
  <2>2. i \in DOMAIN s
    BY <1>1
  <2>3. Lists!Lists!PosOf(s, s[i]) = i
    BY <2>1, <2>2 DEF Lists!Lists!PosOf
  <2>. QED BY <2>2, <2>3 DEF Nodes
<1>. QED BY <1>1, <1>2 DEF Lists!Lists!tt_list_remove, Del

(* Nodes of one list are not those of another one.                            *)
LEMMA InOneList ==
    ASSUME NEW v, Rep(v), NEW n \in Node, NEW l \in List, n \in Nodes(v[l]) \/ lst[n] = NULL
    PROVE  \A k \in List : k # l \/ lst[n] = NULL => n \notin Nodes(v[k])
<1>1. \A k \in List : n \in Nodes(v[k]) <=> lst[n] = k
  BY RepFacts
<1>2. NULL \notin List
  BY ListAssumption
<1>. QED BY <1>1, <1>2

(* A link is an insertion, an unlink a removal.                               *)
LEMMA LinkRefines ==
    ASSUME NEW v, Rep(v), NEW l \in List, NEW i \in 0 .. Len(v[l]), NEW n \in Node,
           lst[n] = NULL, Rep(After(v, l, i, n))'
    PROVE  Lists!Lists!Next
<1>1. Val = v /\ Val' = After(v, l, i, n)
  BY RepVal, RepValAfter
<1>2. \A k \in List : n \notin Nodes(v[k])
  BY InOneList
<1>3. v[l] \in Seq(Node) /\ v \in [List -> Seq(Node)]
  BY DEF Rep
<1>4. Val' = [Val EXCEPT ![l] = SubSeq(Val[l], 1, i) \o <<n>> \o SubSeq(Val[l], i + 1, Len(Val[l]))]
  BY <1>1, <1>3, InsIs DEF After
<1>5. Lists!Lists!Insert(l, i, n)
  BY <1>1, <1>2, <1>4 DEF Lists!Lists!Insert, Lists!Lists!Unlinked, Lists!Lists!Nodes, Nodes, Val
<1>6. i \in 0 .. Len(Val[l])
  BY <1>1
<1>. QED BY <1>5, <1>6 DEF Lists!Lists!Next, Val

LEMMA UnlinkRefines ==
    ASSUME NEW v, Rep(v), NEW l \in List, NEW i \in 1 .. Len(v[l]), Rep(Without(v, l, i))'
    PROVE  Lists!Lists!Next
<1> DEFINE n == v[l][i]
<1>1. Val = v /\ Val' = Without(v, l, i)
  BY RepVal, RepValAfter
<1>2. n \in Node /\ n \in Nodes(v[l])
  BY RepFacts DEF Nodes
<1>3. \A k \in List : k # l => n \notin Nodes(v[k])
  BY <1>2, InOneList
<1>4. v \in [List -> Seq(Node)] /\ \A k \in List : Distinct(v[k])
  BY DEF Rep, Linked
<1>5. ASSUME NEW k \in List
      PROVE  Without(v, l, i)[k] = Lists!Lists!tt_list_remove(v[k], n)
  <2>1. v[k] \in Seq(Node) /\ Distinct(v[k])
    BY <1>4
  <2>2. CASE k = l
    BY <1>4, <2>1, <2>2, DelIs DEF Without
  <2>3. CASE k # l
    BY <1>3, <1>4, <2>1, <2>3, DelIs DEF Without
  <2>. QED BY <2>2, <2>3
<1>. HIDE DEF n
<1>6. Val' = [k \in List |-> Lists!Lists!tt_list_remove(Val[k], n)]
  <2>1. Without(v, l, i) = [k \in List |-> Without(v, l, i)[k]]
    BY <1>4 DEF Without
  <2>. QED BY <1>1, <1>5, <2>1
<1>7. Lists!Lists!Remove(n)
  BY <1>6 DEF Lists!Lists!Remove, Val
<1>. QED BY <1>2, <1>7 DEF Lists!Lists!Next

(* What the pointers have in common in all states: they are those of some     *)
(* sequences, no node being in two of them.                                   *)
ListsInv == \E v : Rep(v)

LEMMA ListsStart ==
    ASSUME Lists!Init
    PROVE  ListsInv /\ Lists!Lists!Init
<1> DEFINE v == [l \in List |-> <<>>]
<1>1. /\ head = [l \in List |-> NULL] /\ tail = [l \in List |-> NULL]
      /\ count = [l \in List |-> 0] /\ lst = [n \in Node |-> NULL]
      /\ prev = [n \in Node |-> NULL] /\ next = [n \in Node |-> NULL]
  BY DEF Lists!Init
<1>2. Fields
  BY <1>1 DEF Fields
<1>3. <<>> \in Seq(Node) /\ Len(<<>>) = 0 /\ Distinct(<<>>)
  BY DEF Distinct
<1>4. \A l \in List : v[l] = <<>> /\ Linked(l, v[l])
  BY <1>1, <1>3 DEF Linked, At
<1>5. Rep(v)
  BY <1>1, <1>2, <1>3, <1>4 DEF Rep
<1>6. Val = v
  BY <1>5, RepVal
<1>7. Lists!Lists!Init
  BY <1>6 DEF Lists!Lists!Init, Val
<1>. QED BY <1>5, <1>7 DEF ListsInv

(* Every call keeps the pointers those of sequences and is one of SeqLists.    *)
LEMMA ListsStep ==
    ASSUME ListsInv, [Lists!Next]_(Lists!vars)
    PROVE  ListsInv' /\ [Lists!Lists!Next]_Val
<1>1. PICK v : Rep(v)
  BY DEF ListsInv
<1>2. ASSUME NEW n \in Node, lst[n] = NULL,
             \E l \in List : \E i \in 0 .. Len(v[l]) : Rep(After(v, l, i, n))'
      PROVE  ListsInv' /\ Lists!Lists!Next
  BY <1>1, <1>2, LinkRefines DEF ListsInv
<1>3. ASSUME \E l \in List : \E i \in 1 .. Len(v[l]) : Rep(Without(v, l, i))'
      PROVE  ListsInv' /\ Lists!Lists!Next
  BY <1>1, <1>3, UnlinkRefines DEF ListsInv
<1>4. CASE UNCHANGED Lists!vars
  <2>1. Rep(v)'
    BY <1>1, <1>4 DEF Lists!vars, Rep, Linked, Fields
  <2>2. UNCHANGED Val
    BY <1>4 DEF Lists!vars, Val, Lists!Walk
  <2>. QED BY <2>1, <2>2 DEF ListsInv
<1>5. CASE Lists!Next
  <2>1. ASSUME NEW l \in List, NEW n \in Node, Lists!tt_list_push_head(l, n)
        PROVE  ListsInv' /\ Lists!Lists!Next
    BY <1>1, <1>2, <2>1, PushHeadLinks
  <2>2. ASSUME NEW l \in List, NEW n \in Node, Lists!tt_list_push_tail(l, n)
        PROVE  ListsInv' /\ Lists!Lists!Next
    BY <1>1, <1>2, <2>2, PushTailLinks
  <2>3. ASSUME NEW l \in List, Lists!tt_list_pop_head(l)
        PROVE  ListsInv' /\ Lists!Lists!Next
    BY <1>1, <1>3, <2>3, PopHeadUnlinks
  <2>4. ASSUME NEW l \in List, Lists!tt_list_pop_tail(l)
        PROVE  ListsInv' /\ Lists!Lists!Next
    BY <1>1, <1>3, <2>4, PopTailUnlinks
  <2>5. ASSUME NEW n \in Node, NEW pos \in Node \ {n}, Lists!tt_list_insert_before(pos, n)
        PROVE  ListsInv' /\ Lists!Lists!Next
    BY <1>1, <1>2, <2>5, InsertBeforeLinks
  <2>6. ASSUME NEW n \in Node, NEW pos \in Node \ {n}, Lists!tt_list_insert_after(pos, n)
        PROVE  ListsInv' /\ Lists!Lists!Next
    BY <1>1, <1>2, <2>6, InsertAfterLinks
  <2>7. ASSUME NEW n \in Node, Lists!tt_list_remove(n)
        PROVE  ListsInv' /\ Lists!Lists!Next
    BY <1>1, <1>3, <2>7, RemoveUnlinks
  <2>. QED BY <1>5, <2>1, <2>2, <2>3, <2>4, <2>5, <2>6, <2>7 DEF Lists!Next
<1>. QED BY <1>4, <1>5

(* Both walks along a list meet its nodes, in opposite orders.                *)
LEMMA RepIsWellLinked ==
    ASSUME NEW v, Rep(v)
    PROVE  WellLinked
<1>1. ASSUME NEW l \in List
      PROVE  LET f == Lists!Walk(l, next, head[l])
                 b == Lists!Walk(l, prev, tail[l])
                 c == count[l]
             IN  /\ \A i \in 1 .. c : f[i] \in Node /\ lst[f[i]] = l /\ b[i] = f[c + 1 - i]
                 /\ c = 0 => head[l] = NULL /\ tail[l] = NULL
                 /\ c > 0 => next[f[c]] = NULL /\ prev[f[1]] = NULL
  <2> DEFINE s == v[l]
             c == Len(s)
             b == [i \in 1 .. c |-> s[c + 1 - i]]
  <2>1. /\ s \in Seq(Node) /\ c \in Nat
        /\ \A i \in 1 .. c : s[i] \in Node /\ s[i] # NULL /\ At(s, i) = s[i] /\ lst[s[i]] = l
    BY RepFacts
  <2>2. /\ count[l] = c /\ head[l] = At(s, 1) /\ tail[l] = At(s, c)
        /\ At(s, 0) = NULL /\ At(s, c + 1) = NULL
    BY Ends
  <2>3. \A i \in 1 .. c : prev[s[i]] = At(s, i - 1) /\ next[s[i]] = At(s, i + 1)
    BY DEF Rep, Linked
  <2>4. Lists!Walk(l, next, head[l]) = s
    BY RepVal DEF Val
  <2>. HIDE DEF s, c
  <2>5. Goes(b, c, prev, tail[l])
    <3>1. ASSUME NEW i \in 1 .. c
          PROVE  b[i] = IF i = 1 THEN tail[l] ELSE IF b[i - 1] = NULL THEN NULL ELSE prev[b[i - 1]]
      <4>1. CASE i = 1
        BY <2>1, <2>2, <4>1
      <4>2. CASE i # 1
        <5> DEFINE j == c + 1 - (i - 1)
        <5>1. i - 1 \in 1 .. c /\ j \in 1 .. c /\ j - 1 = c + 1 - i /\ c + 1 - i \in 1 .. c
          BY <2>1, <4>2
        <5>2. b[i - 1] = s[j] /\ b[i] = s[c + 1 - i]
          BY <5>1
        <5>. HIDE DEF j, b
        <5>3. prev[s[j]] = s[c + 1 - i] /\ s[j] # NULL
          BY <2>1, <2>3, <5>1
        <5>. QED BY <4>2, <5>2, <5>3
      <4>. QED BY <4>1, <4>2
    <3>2. b = [i \in 1 .. c |-> b[i]]
      OBVIOUS
    <3>. HIDE DEF b
    <3>. QED BY <3>1, <3>2 DEF Goes
  <2>6. Lists!Walk(l, prev, tail[l]) = b
    <3>. HIDE DEF b
    <3>. QED BY <2>1, <2>2, <2>5, WalkIs
  <2>7. c > 0 => next[s[c]] = NULL /\ prev[s[1]] = NULL
    <3>1. c > 0 => c \in 1 .. c /\ 1 \in 1 .. c /\ 1 - 1 = 0
      BY <2>1
    <3>. QED BY <2>2, <2>3, <3>1
  <2>8. c = 0 => head[l] = NULL /\ tail[l] = NULL
    BY <2>2 DEF At, c
  <2>. QED BY <2>1, <2>2, <2>4, <2>6, <2>7, <2>8
<1>2. \A n \in Node : lst[n] = NULL => prev[n] = NULL /\ next[n] = NULL
  BY DEF Rep
<1>. QED BY <1>1, <1>2 DEF WellLinked, Lists!WellLinked

(* tt_list_t: whatever calls are made, the two directions of every list agree *)
(* and end where they should, every node knows its list, the counts are right *)
(* and an unlinked node has no pointer left, for any number of lists and      *)
(* nodes.                                                                     *)
THEOREM ListsAreWellLinked == Lists!Spec => []WellLinked
<1>1. Lists!Init => ListsInv
  BY ListsStart
<1>2. ListsInv /\ [Lists!Next]_(Lists!vars) => ListsInv'
  BY ListsStep
<1>3. ListsInv => WellLinked
  BY RepIsWellLinked DEF ListsInv
<1>. QED BY <1>1, <1>2, <1>3, PTL DEF Lists!Spec

(* tt_list_t implements the sequences of TTList that the other modules work   *)
(* with.                                                                      *)
THEOREM ListsAreSequences == Lists!Spec => ListsSpec
<1>1. Lists!Init => ListsInv /\ Lists!Lists!Init
  BY ListsStart
<1>2. ListsInv /\ [Lists!Next]_(Lists!vars) => ListsInv' /\ [Lists!Lists!Next]_Val
  BY ListsStep
<1>. QED BY <1>1, <1>2, PTL DEF Lists!Spec, ListsSpec, Lists!ListsSpec, Lists!Lists!Spec, Val

-----------------------------------------------------------------------------
(* The slab (Slab).                                                         *)

\* The objects of the frames that may be allocated, and lists of them.
Object == Block \X (1 .. bulk_num)

ObjLists == {l \in Seq(Object) : Distinct(l)}

\* The objects of l without the first i of frame b.
Rest(l, b, i) == {o \in Nodes(l) : o[1] = b => ~(o[2] \in 1 .. i)}

(* What one turn of the loop of __slab_free_frame() does.                     *)
LEMMA TakeOut ==
    ASSUME NEW m \in ObjLists, NEW l \in ObjLists, NEW b \in Block,
           NEW i \in 1 .. bulk_num, Nodes(m) = Rest(l, b, i - 1)
    PROVE  /\ tt_list_remove(m, <<b, i>>) \in ObjLists
           /\ Nodes(tt_list_remove(m, <<b, i>>)) = Rest(l, b, i)
<1>1. m \in Seq(Object) /\ Distinct(m) /\ Nodes(l) \subseteq Object
  BY DEF ObjLists, Nodes
<1>2. /\ tt_list_remove(m, <<b, i>>) \in Seq(Object)
      /\ Nodes(tt_list_remove(m, <<b, i>>)) = Nodes(m) \ {<<b, i>>}
      /\ Distinct(tt_list_remove(m, <<b, i>>))
  BY <1>1, RemoveNode
<1>3. Rest(l, b, i - 1) \ {<<b, i>>} = Rest(l, b, i)
  <2>1. bulk_num \in Nat /\ i \in Nat /\ (\A j \in Nat : j \in 1 .. i <=> j \in 1 .. i - 1 \/ j = i)
    BY SizeAssumption
  <2>2. ASSUME NEW o \in Nodes(l)
        PROVE  o \in Rest(l, b, i - 1) \ {<<b, i>>} <=> o \in Rest(l, b, i)
    <3>1. o = <<o[1], o[2]>> /\ o[2] \in Nat
      BY <1>1, <2>1 DEF Object
    <3>2. o = <<b, i>> <=> o[1] = b /\ o[2] = i
      BY <3>1
    <3>. QED BY <2>1, <3>1, <3>2 DEF Rest
  <2>. QED BY <2>2 DEF Rest
<1>. QED BY <1>2, <1>3 DEF ObjLists

(* __slab_free_frame() takes the objects of the frame, and only them, out of   *)
(* the list of free objects.                                                *)
LEMMA WithoutFacts ==
    ASSUME NEW l \in Seq(Object), Distinct(l), NEW b \in Block
    PROVE  /\ Slabs!Without(l, b) \in Seq(Object) /\ Distinct(Slabs!Without(l, b))
           /\ Nodes(Slabs!Without(l, b)) = {o \in Nodes(l) : o[1] # b}
<1> DEFINE n == bulk_num
           step == [i \in 1 .. n |-> [m \in ObjLists |-> tt_list_remove(m, <<b, i>>)]]
           W == CHOOSE g : g = [i \in 0 .. n |-> IF i = 0 THEN l
                                                 ELSE tt_list_remove(g[i - 1], <<b, i>>)]
<1>1. n \in Nat /\ l \in ObjLists
  BY SizeAssumption DEF ObjLists
<1>2. step \in [1 .. n -> [ObjLists -> ObjLists]]
  <2>1. ASSUME NEW m \in ObjLists, NEW i \in 1 .. n
        PROVE  tt_list_remove(m, <<b, i>>) \in ObjLists
    BY RemoveNode DEF ObjLists
  <2>. QED BY <2>1
<1>3. \A i \in 1 .. n, m \in ObjLists : step[i][m] = tt_list_remove(m, <<b, i>>)
  OBVIOUS
<1>. HIDE DEF step
<1>4. PICK g \in [0 .. n -> ObjLists] : IsChain(g, n, l, step)
  BY <1>1, <1>2, ChainExists
<1>5. g = [i \in 0 .. n |-> IF i = 0 THEN l ELSE tt_list_remove(g[i - 1], <<b, i>>)]
  <2>1. ASSUME NEW i \in 0 .. n
        PROVE  g[i] = IF i = 0 THEN l ELSE tt_list_remove(g[i - 1], <<b, i>>)
    <3>1. g[i] = IF i = 0 THEN l ELSE step[i][g[i - 1]]
      BY <1>4 DEF IsChain
    <3>2. i # 0 => i \in 1 .. n /\ i - 1 \in 0 .. n
      BY <1>1
    <3>. QED BY <1>3, <1>4, <3>1, <3>2
  <2>2. DOMAIN g = 0 .. n
    BY <1>4
  <2>. QED BY <2>1, <2>2
<1>6. W = [i \in 0 .. n |-> IF i = 0 THEN l ELSE tt_list_remove(W[i - 1], <<b, i>>)]
  BY <1>5
<1>. HIDE DEF W
<1> DEFINE T == {i \in Nat : i <= n => W[i] \in ObjLists /\ Nodes(W[i]) = Rest(l, b, i)}
<1>7. 0 \in T
  <2>1. W[0] = l
    BY <1>1, <1>6
  <2>2. Rest(l, b, 0) = Nodes(l)
    BY DEF Rest
  <2>. QED BY <1>1, <2>1, <2>2
<1>8. ASSUME NEW i \in T PROVE i + 1 \in T
  <2>1. i \in Nat /\ i + 1 \in Nat /\ (i + 1) - 1 = i
    OBVIOUS
  <2>2. ASSUME i + 1 <= n PROVE W[i + 1] \in ObjLists /\ Nodes(W[i + 1]) = Rest(l, b, i + 1)
    <3>1. i <= n /\ i + 1 \in 1 .. n /\ i + 1 \in 0 .. n /\ i + 1 # 0
      BY <1>1, <2>1, <2>2
    <3>2. W[i + 1] = tt_list_remove(W[i], <<b, i + 1>>)
      BY <1>6, <2>1, <3>1
    <3>3. W[i] \in ObjLists /\ Nodes(W[i]) = Rest(l, b, (i + 1) - 1)
      BY <2>1, <3>1
    <3>. HIDE DEF T
    <3>. QED BY ONLY <1>1, <3>1, <3>2, <3>3, TakeOut, b \in Block
  <2>. QED BY <2>1, <2>2
<1>9. T \subseteq Nat
  OBVIOUS
<1>10. n \in T
  <2>. HIDE DEF T
  <2>. QED BY <1>1, <1>7, <1>8, <1>9, AllNumbers
<1>11. W[n] \in ObjLists /\ Nodes(W[n]) = Rest(l, b, n)
  BY <1>1, <1>10
<1>12. Slabs!Without(l, b) = W[n]
  BY DEF Slabs!Without, Slabs!tt_list_remove, Slabs!Nodes, Slabs!PosOf, tt_list_remove,
         Nodes, PosOf, W
<1>13. Rest(l, b, n) = {o \in Nodes(l) : o[1] # b}
  <2>1. Nodes(l) \subseteq Object
    BY DEF Nodes
  <2>. QED BY <2>1 DEF Rest, Object
<1>. QED BY <1>11, <1>12, <1>13 DEF ObjLists

(* A new frame is cut into objects of its own.                              *)
LEMMA CutFacts ==
    ASSUME NEW b \in Block
    PROVE  /\ Slabs!Cut(b) \in Seq(Object) /\ Distinct(Slabs!Cut(b))
           /\ Nodes(Slabs!Cut(b)) = {b} \X (1 .. bulk_num)
           /\ Slabs!Cut(b) # <<>>
<1>1. bulk_num \in Nat /\ bulk_num > 0
  BY SizeAssumption
<1>2. \A i \in 1 .. bulk_num : Slabs!Cut(b)[i] = <<b, i>>
  BY DEF Slabs!Cut
<1>3. Slabs!Cut(b) \in Seq(Object) /\ DOMAIN Slabs!Cut(b) = 1 .. bulk_num
  BY <1>1 DEF Slabs!Cut, Object
<1>4. Distinct(Slabs!Cut(b))
  BY <1>2, <1>3 DEF Distinct
<1>5. Nodes(Slabs!Cut(b)) = {b} \X (1 .. bulk_num)
  BY <1>2, <1>3 DEF Nodes
<1>6. Slabs!Cut(b) # <<>>
  BY <1>1, <1>3
<1>. QED BY <1>3, <1>4, <1>5, <1>6

\* The objects of frame b in U.
Of(U, b) == {o \in U : o[1] = b}

\* The inductive invariant of a slab: frames and free objects are lists of what is
\* there, every object of a frame is free or used, and the counts are those of the
\* used objects, which have to be 0 where a frame is yet to be allocated.
Slabbed(frames, objs, refs, U) ==
    /\ frames \in Seq(Block) /\ Distinct(frames)
    /\ objs \in Seq(Object) /\ Distinct(objs)
    /\ U \subseteq Object /\ IsFiniteSet(U)
    /\ U \cap Nodes(objs) = {}
    /\ U \cup Nodes(objs) = Nodes(frames) \X (1 .. bulk_num)
    /\ refs \in [Block -> Nat] /\ \A b \in Block : refs[b] = Cardinality(Of(U, b))

SlabInv == Slabbed(frame_list, obj_list, ref, used)

(* One object more or less in use is one more or less of its frame.          *)
LEMMA CountUsed ==
    ASSUME NEW U, IsFiniteSet(U), NEW o
    PROVE  /\ \A b : IsFiniteSet(Of(U, b)) /\ Cardinality(Of(U, b)) \in Nat
           /\ \A b : o \notin U => Cardinality(Of(U \cup {o}, b)) =
                        IF b = o[1] THEN Cardinality(Of(U, b)) + 1 ELSE Cardinality(Of(U, b))
           /\ \A b : o \in U => Cardinality(Of(U \ {o}, b)) =
                        IF b = o[1] THEN Cardinality(Of(U, b)) - 1 ELSE Cardinality(Of(U, b))
<1>1. ASSUME NEW b PROVE IsFiniteSet(Of(U, b)) /\ Cardinality(Of(U, b)) \in Nat
  BY FS_Subset, FS_CardinalityType DEF Of
<1>2. ASSUME NEW b, o \notin U
      PROVE  Cardinality(Of(U \cup {o}, b)) =
                IF b = o[1] THEN Cardinality(Of(U, b)) + 1 ELSE Cardinality(Of(U, b))
  <2>1. CASE b = o[1]
    <3>1. Of(U \cup {o}, b) = Of(U, b) \cup {o} /\ o \notin Of(U, b)
      BY <1>2, <2>1 DEF Of
    <3>. QED BY <1>1, <2>1, <3>1, FS_AddElement
  <2>2. CASE b # o[1]
    BY <2>2 DEF Of
  <2>. QED BY <2>1, <2>2
<1>3. ASSUME NEW b, o \in U
      PROVE  Cardinality(Of(U \ {o}, b)) =
                IF b = o[1] THEN Cardinality(Of(U, b)) - 1 ELSE Cardinality(Of(U, b))
  <2>1. CASE b = o[1]
    <3>1. Of(U \ {o}, b) = Of(U, b) \ {o} /\ o \in Of(U, b)
      BY <1>3, <2>1 DEF Of
    <3>. QED BY <1>1, <2>1, <3>1, FS_RemoveElement
  <2>2. CASE b # o[1]
    <3>1. Of(U \ {o}, b) = Of(U, b)
      BY <2>2 DEF Of
    <3>. QED BY <2>2, <3>1
  <2>. QED BY <2>1, <2>2
<1>. QED BY <1>1, <1>2, <1>3

(* The first free object is handed out.                                     *)
LEMMA ObjectTaken ==
    ASSUME NEW fl, NEW l, NEW rf, NEW U, Slabbed(fl, l, rf, U), l # <<>>
    PROVE  Slabbed(fl, Tail(l), [rf EXCEPT ![Head(l)[1]] = @ + 1], U \cup {Head(l)})
<1> DEFINE o == Head(l)
           rf1 == [rf EXCEPT ![o[1]] = @ + 1]
<1>. USE DEF Slabbed
<1>1. /\ o \in Object /\ Tail(l) \in Seq(Object) /\ Distinct(Tail(l))
      /\ Nodes(Tail(l)) = Nodes(l) \ {o} /\ o \in Nodes(l)
  BY TailTakesHead
<1>2. o \notin U /\ o[1] \in Block
  BY <1>1 DEF Object
<1>. HIDE DEF o
<1>3. U \cup {o} \subseteq Object /\ IsFiniteSet(U \cup {o})
  BY <1>1, FS_AddElement
<1>4. /\ (U \cup {o}) \cap Nodes(Tail(l)) = {}
      /\ (U \cup {o}) \cup Nodes(Tail(l)) = Nodes(fl) \X (1 .. bulk_num)
  BY <1>1
<1>5. rf1 \in [Block -> Nat] /\ \A b \in Block : rf1[b] = IF b = o[1] THEN rf[b] + 1 ELSE rf[b]
  BY <1>2
<1>6. \A b \in Block : Cardinality(Of(U \cup {o}, b)) =
                IF b = o[1] THEN Cardinality(Of(U, b)) + 1 ELSE Cardinality(Of(U, b))
  BY <1>2, CountUsed
<1>. HIDE DEF rf1
<1>7. \A b \in Block : rf1[b] = Cardinality(Of(U \cup {o}, b))
  <2>1. \A b \in Block : rf[b] = Cardinality(Of(U, b))
    OBVIOUS
  <2>. QED BY ONLY <1>5, <1>6, <2>1
<1>. QED BY <1>1, <1>3, <1>4, <1>5, <1>7 DEF o, rf1

(* A frame is added when no object is free.                                 *)
LEMMA FrameAdded ==
    ASSUME NEW fl, NEW rf, NEW U, Slabbed(fl, <<>>, rf, U), NEW b \in Block, b \notin Nodes(fl)
    PROVE  Slabbed(tt_list_push_tail(fl, b), Slabs!Cut(b), rf, U) /\ Slabs!Cut(b) # <<>>
<1>. USE DEF Slabbed
<1>1. /\ Slabs!Cut(b) \in Seq(Object) /\ Distinct(Slabs!Cut(b)) /\ Slabs!Cut(b) # <<>>
      /\ Nodes(Slabs!Cut(b)) = {b} \X (1 .. bulk_num)
  BY CutFacts
<1>2. /\ tt_list_push_tail(fl, b) \in Seq(Block) /\ Distinct(tt_list_push_tail(fl, b))
      /\ Nodes(tt_list_push_tail(fl, b)) = Nodes(fl) \cup {b}
  BY PushNew
<1>3. Nodes(<<>>) = {}
  BY DEF Nodes
<1>4. U = Nodes(fl) \X (1 .. bulk_num)
  BY <1>3
<1>5. /\ U \cap Nodes(Slabs!Cut(b)) = {}
      /\ U \cup Nodes(Slabs!Cut(b)) = (Nodes(fl) \cup {b}) \X (1 .. bulk_num)
  BY <1>1, <1>4
<1>. QED BY <1>1, <1>2, <1>5

(* An object returns.                                                       *)
LEMMA ObjectReturned ==
    ASSUME NEW fl, NEW l, NEW rf, NEW U, Slabbed(fl, l, rf, U), NEW o \in U
    PROVE  /\ Slabbed(fl, tt_list_push_head(l, o), [rf EXCEPT ![o[1]] = @ - 1], U \ {o})
           /\ o[1] \in Nodes(fl) /\ o[1] \in Block
<1> DEFINE rf1 == [rf EXCEPT ![o[1]] = @ - 1]
<1>. USE DEF Slabbed
<1>1. o \in Object /\ o[1] \in Block /\ o[1] \in Nodes(fl) /\ o \notin Nodes(l)
  BY DEF Object
<1>2. /\ tt_list_push_head(l, o) \in Seq(Object) /\ Distinct(tt_list_push_head(l, o))
      /\ Nodes(tt_list_push_head(l, o)) = Nodes(l) \cup {o}
  BY <1>1, PushHead
<1>3. U \ {o} \subseteq Object /\ IsFiniteSet(U \ {o})
  BY FS_RemoveElement
<1>4. /\ (U \ {o}) \cap (Nodes(l) \cup {o}) = {}
      /\ (U \ {o}) \cup (Nodes(l) \cup {o}) = Nodes(fl) \X (1 .. bulk_num)
  BY <1>1
<1>5. \A b \in Block : Cardinality(Of(U \ {o}, b)) =
                IF b = o[1] THEN Cardinality(Of(U, b)) - 1 ELSE Cardinality(Of(U, b))
  BY CountUsed
<1>6. \A b \in Block : rf1[b] = IF b = o[1] THEN rf[b] - 1 ELSE rf[b]
  BY <1>1
<1>7. \A b \in Block : Cardinality(Of(U \ {o}, b)) \in Nat
  BY <1>3, CountUsed
<1>8. DOMAIN rf1 = Block /\ rf1 = [b \in Block |-> rf1[b]]
  BY <1>1
<1>. HIDE DEF rf1
<1>9. \A b \in Block : rf1[b] = Cardinality(Of(U \ {o}, b))
  <2>1. \A b \in Block : rf[b] = Cardinality(Of(U, b))
    OBVIOUS
  <2>. QED BY ONLY <1>5, <1>6, <2>1
<1>10. rf1 \in [Block -> Nat]
  <2>1. \A b \in Block : rf1[b] \in Nat
    BY ONLY <1>7, <1>9
  <2>2. PICK f : f = rf1
    OBVIOUS
  <2>3. f = [b \in Block |-> f[b]] /\ \A b \in Block : f[b] \in Nat
    BY ONLY <1>8, <2>1, <2>2, Zenon
  <2>4. f \in [Block -> Nat]
    BY ONLY <2>3
  <2>. QED BY ONLY <2>2, <2>4, Zenon
<1>. QED BY <1>1, <1>2, <1>3, <1>4, <1>9, <1>10 DEF rf1

(* A frame none of whose objects is in use is given back.                    *)
LEMMA FrameFreed ==
    ASSUME NEW fl, NEW l, NEW rf, NEW U, Slabbed(fl, l, rf, U), NEW b \in Block, rf[b] = 0
    PROVE  Slabbed(tt_list_remove(fl, b), Slabs!Without(l, b), rf, U)
<1>. USE DEF Slabbed
<1>1. Of(U, b) = {}
  BY CountUsed, FS_EmptySet
<1>2. /\ tt_list_remove(fl, b) \in Seq(Block) /\ Distinct(tt_list_remove(fl, b))
      /\ Nodes(tt_list_remove(fl, b)) = Nodes(fl) \ {b}
  BY RemoveNode
<1>3. /\ Slabs!Without(l, b) \in Seq(Object) /\ Distinct(Slabs!Without(l, b))
      /\ Nodes(Slabs!Without(l, b)) = {o \in Nodes(l) : o[1] # b}
  BY WithoutFacts
<1>4. U \cap Nodes(Slabs!Without(l, b)) = {}
  BY <1>3
<1>5. U \cup Nodes(Slabs!Without(l, b)) = (Nodes(fl) \ {b}) \X (1 .. bulk_num)
  BY <1>1, <1>3 DEF Of
<1>. QED BY <1>2, <1>3, <1>4, <1>5

(* The slab is destroyed when nothing is in use.                             *)
LEMMA AllFreed ==
    ASSUME NEW fl, NEW l, NEW rf, NEW U, Slabbed(fl, l, rf, U), \A b \in Nodes(fl) : rf[b] = 0
    PROVE  Slabbed(<<>>, <<>>, rf, U)
<1>. USE DEF Slabbed
<1>1. ASSUME NEW b \in Nodes(fl) PROVE Of(U, b) = {}
  <2>1. b \in Block
    BY DEF Nodes
  <2>2. Cardinality(Of(U, b)) = 0 /\ IsFiniteSet(Of(U, b))
    BY <2>1, CountUsed
  <2>. QED BY <2>2, FS_EmptySet
<1>2. U = {}
  BY <1>1 DEF Of
<1>3. Nodes(<<>>) = {} /\ Distinct(<<>>)
  BY DEF Nodes, Distinct
<1>. QED BY <1>2, <1>3

(* The module Slab speaks of lists by the same definitions.                  *)
LEMMA SlabLists ==
    \A l, x : /\ Slabs!Nodes(l) = Nodes(l) /\ Slabs!Distinct(l) = Distinct(l)
              /\ Slabs!tt_list_remove(l, x) = tt_list_remove(l, x)
              /\ Slabs!tt_list_push_head(l, x) = tt_list_push_head(l, x)
              /\ Slabs!tt_list_push_tail(l, x) = tt_list_push_tail(l, x)
  BY DEF Slabs!Nodes, Nodes, Slabs!Distinct, Distinct, Slabs!tt_list_remove, tt_list_remove,
         Slabs!PosOf, PosOf, Slabs!tt_list_push_head, tt_list_push_head,
         Slabs!tt_list_push_tail, tt_list_push_tail

(* A slab is created without frames.                                        *)
LEMMA SlabStarts == Slabs!Init => SlabInv
<1>. SUFFICES ASSUME Slabs!Init PROVE SlabInv
  OBVIOUS
<1>1. Nodes(<<>>) = {} /\ Distinct(<<>>) /\ \A b : Of({}, b) = {}
  BY DEF Nodes, Distinct, Of
<1>2. IsFiniteSet({}) /\ Cardinality({}) = 0
  BY FS_EmptySet
<1>3. /\ frame_list = <<>> /\ obj_list = <<>> /\ used = {} /\ ref = [b \in Block |-> 0]
  BY DEF Slabs!Init
<1>4. \A b \in Block : ref[b] = Cardinality(Of(used, b))
  BY <1>1, <1>2, <1>3
<1>5. ref \in [Block -> Nat]
  BY <1>3
<1>6. /\ frame_list \in Seq(Block) /\ obj_list \in Seq(Object) /\ used \subseteq Object
      /\ used \cap Nodes(obj_list) = {}
      /\ used \cup Nodes(obj_list) = Nodes(frame_list) \X (1 .. bulk_num)
  BY <1>1, <1>3
<1>. QED BY <1>1, <1>2, <1>3, <1>4, <1>5, <1>6 DEF SlabInv, Slabbed

(* Every call keeps the invariant.                                          *)
LEMMA SlabSteps == SlabInv /\ [Slabs!Next]_(Slabs!vars) => SlabInv'
<1>. SUFFICES ASSUME SlabInv, [Slabs!Next]_(Slabs!vars) PROVE SlabInv'
  OBVIOUS
<1>0. Slabbed(frame_list, obj_list, ref, used)
  BY DEF SlabInv
<1>1. CASE Slabs!tt_slab_destroy
  <2>1. Slabbed(<<>>, <<>>, ref, used)
    BY <1>0, <1>1, SlabLists, AllFreed DEF Slabs!tt_slab_destroy
  <2>. QED BY <1>1, <2>1 DEF Slabs!tt_slab_destroy, SlabInv
<1>2. CASE Slabs!tt_slab_alloc_tag
  <2>1. Slabbed(frame_list, Tail(obj_list), [ref EXCEPT ![Head(obj_list)[1]] = @ + 1],
                used \cup {Head(obj_list)})
    BY <1>0, <1>2, ObjectTaken DEF Slabs!tt_slab_alloc_tag
  <2>. QED BY <1>2, <2>1 DEF Slabs!tt_slab_alloc_tag, Slabs!Take, SlabInv
<1>3. ASSUME NEW b \in Block, Slabs!__slab_alloc_frame(b) PROVE SlabInv'
  <2> DEFINE l == Slabs!Cut(b)
  <2>1. /\ obj_list = <<>> /\ b \notin Nodes(frame_list)
        /\ frame_list' = tt_list_push_tail(frame_list, b) /\ Slabs!Take(l)
    BY <1>3, SlabLists DEF Slabs!__slab_alloc_frame
  <2>2. Slabbed(frame_list', l, ref, used) /\ l # <<>>
    BY <1>0, <2>1, FrameAdded
  <2>. HIDE DEF l
  <2>3. Slabbed(frame_list', Tail(l), [ref EXCEPT ![Head(l)[1]] = @ + 1], used \cup {Head(l)})
    BY <2>2, ObjectTaken
  <2>. QED BY <2>1, <2>3 DEF Slabs!Take, SlabInv
<1>4. ASSUME NEW o \in used, Slabs!tt_slab_free(o) PROVE SlabInv'
  <2> DEFINE b == o[1]
             l == tt_list_push_head(obj_list, o)
             rf == [ref EXCEPT ![b] = @ - 1]
             frees == Slabs!Returned(b) /\ Slabs!Plenty
  <2>1. Slabbed(frame_list, l, rf, used \ {o}) /\ b \in Block
    BY <1>0, ObjectReturned
  <2>2. /\ used' = used \ {o}
        /\ ref' = [ref EXCEPT ![b] = IF frees THEN 0 ELSE @ - 1]
        /\ obj_list' = IF frees THEN Slabs!Without(l, b) ELSE l
        /\ frame_list' = IF frees THEN tt_list_remove(frame_list, b) ELSE frame_list
    BY <1>4, SlabLists DEF Slabs!tt_slab_free
  <2>3. ref \in [Block -> Nat]
    BY <1>0 DEF Slabbed
  <2>4. CASE frees
    <3>1. ref[b] = 1
      BY <2>4 DEF Slabs!Returned
    <3>2. rf[b] = 0 /\ ref' = rf
      BY <2>1, <2>2, <2>3, <2>4, <3>1
    <3>3. Slabbed(tt_list_remove(frame_list, b), Slabs!Without(l, b), rf, used \ {o})
      <4>. HIDE DEF b, l, rf
      <4>. QED BY <2>1, <3>2, FrameFreed
    <3>. QED BY <2>2, <2>4, <3>2, <3>3 DEF SlabInv
  <2>5. CASE ~frees
    <3>1. ref' = rf
      BY <2>2, <2>5
    <3>. QED BY <2>1, <2>2, <2>5, <3>1 DEF SlabInv
  <2>. QED BY <2>4, <2>5
<1>5. CASE UNCHANGED Slabs!vars
  BY <1>0, <1>5 DEF Slabs!vars, SlabInv
<1>. QED BY <1>1, <1>2, <1>3, <1>4, <1>5 DEF Slabs!Next

(* No frame is given back while the user or the list of free objects has       *)
(* something of it, no object is lost or handed out twice, and the counts that *)
(* tt_slab_free() and tt_slab_destroy() go by are those of the objects in use. *)
THEOREM SlabsAreSound == Slabs!Spec => []SlabSound
<1>1. SlabInv => SlabSound
  <2>. SUFFICES ASSUME SlabInv PROVE SlabSound
    OBVIOUS
  <2>1. Slabbed(frame_list, obj_list, ref, used)
    BY DEF SlabInv
  <2>2. Slabs!Backed
    BY <2>1, SlabLists DEF Slabs!Backed, Slabbed
  <2>3. Slabs!RefsCount
    <3>1. Nodes(frame_list) \subseteq Block
      BY <2>1 DEF Slabbed, Nodes
    <3>2. \A b \in Nodes(frame_list) : ref[b] = Cardinality({o \in used : o[1] = b})
      BY <2>1, <3>1 DEF Slabbed, Of
    <3>3. Slabs!Nodes(frame_list) = Nodes(frame_list)
      BY SlabLists
    <3>4. \A S : Slabs!Cardinality(S) = Cardinality(S)
      BY DEF Slabs!Cardinality, Cardinality
    <3>. QED BY <3>2, <3>3, <3>4 DEF Slabs!RefsCount
  <2>. QED BY <2>2, <2>3 DEF SlabSound
<1>. QED BY <1>1, SlabStarts, SlabSteps, PTL DEF Slabs!Spec

-----------------------------------------------------------------------------
(* The hash map (HashMap).                                                  *)

\* The slots, the nodes in them, and the slot of a key.
MapSlot == 0 .. sll_num - 1

In(s) == UNION {Nodes(s[i]) : i \in MapSlot}

HomeOf(k) == hash[k] % sll_num

\* Every slot is a list of nodes whose keys belong there, and no key is there twice.
Mapped(s, ky) ==
    /\ s \in [MapSlot -> Seq(HNode)] /\ \A i \in MapSlot : Distinct(s[i])
    /\ ky \in [HNode -> HKey \cup {NoKey}]
    /\ \A i \in MapSlot : \A n \in Nodes(s[i]) : ky[n] \in HKey /\ HomeOf(ky[n]) = i
    /\ \A m, n \in In(s) : ky[m] = ky[n] => m = n

(* The module HashMap speaks of lists and sets by the same definitions.       *)
LEMMA MapLists ==
    /\ \A l, x : /\ Map!Nodes(l) = Nodes(l) /\ Map!Distinct(l) = Distinct(l)
                 /\ Map!PosOf(l, x) = PosOf(l, x)
                 /\ Map!tt_list_remove(l, x) = tt_list_remove(l, x)
                 /\ Map!tt_list_push_head(l, x) = tt_list_push_head(l, x)
    /\ Map!Slot = MapSlot /\ Map!Inside = In(sll) /\ \A k : Map!__find_sll(k) = HomeOf(k)
    /\ \A S : Map!Cardinality(S) = Cardinality(S)
<1>1. \A l : Map!Nodes(l) = Nodes(l)
  BY DEF Map!Nodes, Nodes
<1>2. Map!Slot = MapSlot /\ \A k : Map!__find_sll(k) = HomeOf(k)
  BY DEF Map!Slot, MapSlot, Map!__find_sll, HomeOf
<1>3. Map!Inside = In(sll)
  BY <1>1, <1>2 DEF Map!Inside, In
<1>4. \A S : Map!Cardinality(S) = Cardinality(S)
  BY DEF Map!Cardinality, Cardinality
<1>5. \A l, x : /\ Map!Distinct(l) = Distinct(l) /\ Map!PosOf(l, x) = PosOf(l, x)
                /\ Map!tt_list_push_head(l, x) = tt_list_push_head(l, x)
  BY DEF Map!Distinct, Distinct, Map!PosOf, PosOf, Map!tt_list_push_head, tt_list_push_head
<1>6. \A l, x : Map!tt_list_remove(l, x) = tt_list_remove(l, x)
  BY DEF Map!tt_list_remove, tt_list_remove, Map!Nodes, Nodes, Map!PosOf, PosOf
<1>. QED BY <1>1, <1>2, <1>3, <1>4, <1>5, <1>6

(* The slot of a key is one of the map.                                      *)
LEMMA HomeIsSlot == ASSUME NEW k \in HKey PROVE HomeOf(k) \in MapSlot
<1>1. hash[k] \in Nat /\ sll_num \in Nat /\ sll_num > 0
  BY SizeAssumption
<1>. QED BY <1>1 DEF HomeOf, MapSlot

(* A node is in the slot of its key.                                         *)
LEMMA InHome ==
    ASSUME NEW s, NEW ky, Mapped(s, ky), NEW n \in In(s)
    PROVE  /\ n \in HNode /\ ky[n] \in HKey /\ HomeOf(ky[n]) \in MapSlot
           /\ n \in Nodes(s[HomeOf(ky[n])])
           /\ \A i \in MapSlot : n \in Nodes(s[i]) => i = HomeOf(ky[n])
<1>1. PICK i \in MapSlot : n \in Nodes(s[i])
  BY DEF In
<1>2. s[i] \in Seq(HNode) /\ ky[n] \in HKey /\ HomeOf(ky[n]) = i
  BY <1>1 DEF Mapped
<1>3. n \in HNode
  BY <1>1, <1>2 DEF Nodes
<1>4. \A j \in MapSlot : n \in Nodes(s[j]) => j = HomeOf(ky[n])
  BY DEF Mapped
<1>. QED BY <1>1, <1>2, <1>3, <1>4

(* The search goes to the slot of the key and takes the first node that has it: *)
(* it finds a node with the key whenever there is one.                        *)
LEMMA FindFacts ==
    ASSUME Mapped(sll, hkey), NEW k \in HKey
    PROVE  /\ Map!tt_hmap_find(k) = NoNode => \A m \in In(sll) : hkey[m] # k
           /\ Map!tt_hmap_find(k) # NoNode =>
                 Map!tt_hmap_find(k) \in In(sll) /\ hkey[Map!tt_hmap_find(k)] = k
<1> DEFINE l == sll[HomeOf(k)]
           at == {i \in DOMAIN l : hkey[l[i]] = k}
           p == CHOOSE i \in at : \A j \in at : i <= j
<1>1. Map!tt_hmap_find(k) = IF at = {} THEN NoNode ELSE l[p]
  BY DEF Map!tt_hmap_find, Map!__find_sll, HomeOf
<1>2. HomeOf(k) \in MapSlot /\ l \in Seq(HNode)
  BY HomeIsSlot DEF Mapped
<1>3. CASE at = {}
  <2>1. ASSUME NEW m \in In(sll), hkey[m] = k PROVE FALSE
    <3>1. m \in Nodes(l)
      BY <2>1, InHome
    <3>. QED BY <1>3, <2>1, <3>1 DEF Nodes
  <2>. QED BY <1>1, <1>3, <2>1
<1>4. CASE at # {}
  <2>1. at \subseteq Nat
    BY <1>2
  <2>2. \E i \in at : \A j \in at : i <= j
    <3>. HIDE DEF at
    <3>. QED BY <1>4, <2>1, LeastNumber
  <2>3. p \in at
    BY <2>2
  <2>. HIDE DEF p
  <2>4. l[p] \in Nodes(l) /\ hkey[l[p]] = k /\ l[p] \in HNode
    BY <1>2, <2>3 DEF Nodes
  <2>5. l[p] \in In(sll)
    BY <1>2, <2>4 DEF In
  <2>6. l[p] # NoNode
    BY <2>4, SizeAssumption
  <2>. HIDE DEF at, l
  <2>. QED BY <1>1, <1>4, <2>4, <2>5, <2>6
<1>. QED BY <1>3, <1>4

\* The slots with node n added, or removed, under key k.
PutIn(s, n, k) == [s EXCEPT ![HomeOf(k)] = tt_list_push_head(@, n)]

TakenFrom(s, n, k) == [s EXCEPT ![HomeOf(k)] = tt_list_remove(@, n)]

(* A node that is not in the map is added under a key that is not in it.       *)
LEMMA NodeAdded ==
    ASSUME NEW s, NEW ky, Mapped(s, ky), NEW n \in HNode, n \notin In(s),
           NEW k \in HKey, \A m \in In(s) : ky[m] # k
    PROVE  /\ Mapped(PutIn(s, n, k), [ky EXCEPT ![n] = k])
           /\ In(PutIn(s, n, k)) = In(s) \cup {n}
<1> DEFINE h == HomeOf(k)
           l == tt_list_push_head(s[h], n)
           t == [s EXCEPT ![h] = l]
           kn == [ky EXCEPT ![n] = k]
<1>. USE DEF Mapped
<1>1. h \in MapSlot /\ n \notin Nodes(s[h])
  BY HomeIsSlot DEF In
<1>. HIDE DEF h
<1>2. l \in Seq(HNode) /\ Distinct(l) /\ Nodes(l) = Nodes(s[h]) \cup {n}
  BY <1>1, PushHead
<1>. HIDE DEF l
<1>3. /\ t \in [MapSlot -> Seq(HNode)] /\ t[h] = l
      /\ \A i \in MapSlot : i # h => t[i] = s[i]
  BY <1>1, <1>2
<1>. HIDE DEF t
<1>4. \A i \in MapSlot : Distinct(t[i])
  BY <1>2, <1>3
<1>5. \A i \in MapSlot : \A m : m \in Nodes(t[i]) <=> m \in Nodes(s[i]) \/ (m = n /\ i = h)
  BY <1>2, <1>3
<1>6. In(t) = In(s) \cup {n}
  BY <1>1, <1>5 DEF In
<1>7. kn \in [HNode -> HKey \cup {NoKey}] /\ kn[n] = k /\ \A m \in HNode : m # n => kn[m] = ky[m]
  OBVIOUS
<1>8. \A m \in In(s) : m \in HNode /\ m # n
  BY InHome
<1>. HIDE DEF kn
<1>9. ASSUME NEW i \in MapSlot, NEW m \in Nodes(t[i]) PROVE kn[m] \in HKey /\ HomeOf(kn[m]) = i
  <2>1. CASE m = n
    <3>1. i = h
      BY <1>5, <1>8, <2>1 DEF In
    <3>. QED BY <1>7, <2>1, <3>1 DEF h
  <2>2. CASE m # n
    <3>1. m \in Nodes(s[i]) /\ m \in HNode
      BY <1>5, <1>8, <2>2 DEF In
    <3>. QED BY <1>7, <2>2, <3>1
  <2>. QED BY <2>1, <2>2
<1>10. \A m, q \in In(t) : kn[m] = kn[q] => m = q
  BY <1>6, <1>7, <1>8
<1>11. Mapped(t, kn)
  BY <1>3, <1>4, <1>7, <1>9, <1>10
<1>. QED BY <1>6, <1>11 DEF t, l, h, kn, PutIn

(* A node of the map is removed from the slot of its key.                    *)
LEMMA NodeRemoved ==
    ASSUME NEW s, NEW ky, Mapped(s, ky), NEW n \in In(s)
    PROVE  /\ Mapped(TakenFrom(s, n, ky[n]), [ky EXCEPT ![n] = NoKey])
           /\ In(TakenFrom(s, n, ky[n])) = In(s) \ {n}
<1> DEFINE h == HomeOf(ky[n])
           l == tt_list_remove(s[h], n)
           t == [s EXCEPT ![h] = l]
           kn == [ky EXCEPT ![n] = NoKey]
<1>. USE DEF Mapped
<1>1. /\ n \in HNode /\ h \in MapSlot /\ n \in Nodes(s[h])
      /\ \A i \in MapSlot : n \in Nodes(s[i]) => i = h
  BY InHome
<1>. HIDE DEF h
<1>2. l \in Seq(HNode) /\ Distinct(l) /\ Nodes(l) = Nodes(s[h]) \ {n}
  BY <1>1, RemoveNode
<1>. HIDE DEF l
<1>3. /\ t \in [MapSlot -> Seq(HNode)] /\ t[h] = l
      /\ \A i \in MapSlot : i # h => t[i] = s[i]
  BY <1>1, <1>2
<1>. HIDE DEF t
<1>4. \A i \in MapSlot : Distinct(t[i])
  BY <1>2, <1>3
<1>5. \A i \in MapSlot : \A m : m \in Nodes(t[i]) <=> m \in Nodes(s[i]) /\ m # n
  BY <1>1, <1>2, <1>3
<1>6. In(t) = In(s) \ {n}
  BY <1>5 DEF In
<1>7. kn \in [HNode -> HKey \cup {NoKey}] /\ \A m \in HNode : m # n => kn[m] = ky[m]
  BY <1>1
<1>8. \A m \in In(s) : m \in HNode
  BY InHome
<1>. HIDE DEF kn
<1>9. ASSUME NEW i \in MapSlot, NEW m \in Nodes(t[i]) PROVE kn[m] \in HKey /\ HomeOf(kn[m]) = i
  <2>1. m \in Nodes(s[i]) /\ m # n /\ m \in HNode
    BY <1>5, <1>8 DEF In
  <2>. QED BY <1>7, <2>1
<1>10. \A m, q \in In(t) : kn[m] = kn[q] => m = q
  BY <1>6, <1>7, <1>8
<1>11. Mapped(t, kn)
  BY <1>3, <1>4, <1>7, <1>9, <1>10
<1>. QED BY <1>6, <1>11 DEF t, l, h, kn, TakenFrom

-----------------------------------------------------------------------------
(* Walks over the map.                                                      *)

(* A node of a list without repetition stands at one place.                  *)
LEMMA PlaceIn ==
    ASSUME NEW S, NEW l \in Seq(S), Distinct(l)
    PROVE  /\ \A x \in Nodes(l) : PosOf(l, x) \in 1 .. Len(l) /\ l[PosOf(l, x)] = x
           /\ \A i \in 1 .. Len(l) : l[i] \in Nodes(l) /\ PosOf(l, l[i]) = i
<1>1. DOMAIN l = 1 .. Len(l)
  OBVIOUS
<1>2. ASSUME NEW x \in Nodes(l) PROVE PosOf(l, x) \in 1 .. Len(l) /\ l[PosOf(l, x)] = x
  <2>1. \E i \in DOMAIN l : l[i] = x
    BY DEF Nodes
  <2>. QED BY <1>1, <2>1 DEF PosOf
<1>3. ASSUME NEW i \in 1 .. Len(l) PROVE l[i] \in Nodes(l) /\ PosOf(l, l[i]) = i
  <2>1. l[i] \in Nodes(l)
    BY <1>1 DEF Nodes
  <2>2. PosOf(l, l[i]) \in 1 .. Len(l) /\ l[PosOf(l, l[i])] = l[i]
    BY <1>2, <2>1
  <2>. QED BY <1>1, <2>1, <2>2 DEF Distinct
<1>. QED BY <1>2, <1>3

(* A push moves every other node one place on.                               *)
LEMMA PushOrder ==
    ASSUME NEW S, NEW l \in Seq(S), Distinct(l), NEW n \in S, n \notin Nodes(l)
    PROVE  \A x, y \in Nodes(l) :
              PosOf(l, x) <= PosOf(l, y) <=>
              PosOf(tt_list_push_head(l, n), x) <= PosOf(tt_list_push_head(l, n), y)
<1> DEFINE t == tt_list_push_head(l, n)
<1>1. t \in Seq(S) /\ Distinct(t)
  BY PushHead
<1>2. Len(l) \in Nat /\ Len(t) = Len(l) + 1 /\ \A i \in 1 .. Len(l) : t[i + 1] = l[i]
  BY DEF tt_list_push_head
<1>. HIDE DEF t
<1>3. ASSUME NEW x \in Nodes(l) PROVE PosOf(t, x) = PosOf(l, x) + 1 /\ PosOf(l, x) \in Nat
  <2>1. PosOf(l, x) \in 1 .. Len(l) /\ l[PosOf(l, x)] = x
    BY PlaceIn
  <2>2. t[PosOf(l, x) + 1] = x /\ PosOf(l, x) + 1 \in 1 .. Len(t)
    BY <1>2, <2>1
  <2>3. PosOf(t, t[PosOf(l, x) + 1]) = PosOf(l, x) + 1
    BY <1>1, <2>2, PlaceIn
  <2>. QED BY <2>1, <2>2, <2>3
<1>. QED BY <1>3 DEF t

(* The nodes that stay keep their order.                                     *)
LEMMA RemoveOrder ==
    ASSUME NEW S, NEW l \in Seq(S), Distinct(l), NEW n \in Nodes(l)
    PROVE  \A x, y \in Nodes(l) \ {n} :
              PosOf(l, x) <= PosOf(l, y) <=>
              PosOf(tt_list_remove(l, n), x) <= PosOf(tt_list_remove(l, n), y)
<1> DEFINE t == tt_list_remove(l, n)
           p == PosOf(l, n)
<1>1. t \in Seq(S) /\ Distinct(t)
  BY RemoveNode
<1>2. p \in 1 .. Len(l) /\ l[p] = n /\ Len(l) \in Nat
  BY PlaceIn
<1>3. t = [i \in 1 .. Len(l) - 1 |-> IF i < p THEN l[i] ELSE l[i + 1]]
  BY DEF tt_list_remove
<1>4. Len(t) = Len(l) - 1
  BY <1>1, <1>2, <1>3
<1>. HIDE DEF t, p
<1>5. ASSUME NEW x \in Nodes(l) \ {n}
      PROVE  /\ PosOf(t, x) = IF PosOf(l, x) < p THEN PosOf(l, x) ELSE PosOf(l, x) - 1
             /\ PosOf(l, x) \in Nat /\ PosOf(l, x) # p
  <2>1. PosOf(l, x) \in 1 .. Len(l) /\ l[PosOf(l, x)] = x
    BY PlaceIn
  <2>2. PosOf(l, x) # p
    BY <1>2, <2>1
  <2>3. PICK j \in Int : j = IF PosOf(l, x) < p THEN PosOf(l, x) ELSE PosOf(l, x) - 1
    BY <1>2, <2>1
  <2>4. j \in 1 .. Len(l) - 1 /\ (IF j < p THEN l[j] ELSE l[j + 1]) = x
    BY <1>2, <2>1, <2>2, <2>3
  <2>5. j \in 1 .. Len(t) /\ t[j] = x
    BY <1>3, <1>4, <2>4
  <2>6. PosOf(t, t[j]) = j
    BY <1>1, <2>5, PlaceIn
  <2>. QED BY <2>1, <2>2, <2>3, <2>5, <2>6
<1>6. p \in Nat
  BY <1>2
<1>. QED BY <1>5, <1>6 DEF t

\* The nodes a walk w has yet to come to: those of later slots, and those of its
\* slot from its node on.
Ahead(s, w) ==
    {n \in In(s) : \E i \in MapSlot :
        /\ n \in Nodes(s[i])
        /\ \/ i > w.idx
           \/ i = w.idx /\ w.node # NoNode /\ PosOf(s[i], w.node) <= PosOf(s[i], n)}

\* The cursor stands at the end of a slot or at a node of it.
AtPlace(s, w) ==
    /\ w \in [kind : {"none", "iter", "foreach"}, idx : 0 .. sll_num, node : HNode \cup {NoNode}]
    /\ w.node # NoNode => w.idx \in MapSlot /\ w.node \in Nodes(s[w.idx])

\* Of the nodes that stay, a walk has come once to those that are not ahead of it, and
\* to no other.
Walked(s, w, sn, st) ==
    /\ AtPlace(s, w)
    /\ st \subseteq In(s)
    /\ sn \in Seq(HNode)
    /\ \A n \in st : n \in Nodes(sn) <=> n \notin Ahead(s, w)
    /\ \A n \in st : \A i, j \in DOMAIN sn : sn[i] = n /\ sn[j] = n => i = j

(* A change of the map that keeps the nodes K in their slots and in their order *)
(* does not change which of them are ahead.                                  *)
LEMMA StillAhead ==
    ASSUME NEW s, NEW t, NEW w, NEW K, K \subseteq In(s), K \subseteq In(t),
           w.node # NoNode => w.node \in K /\ w.node \in Nodes(s[w.idx]),
           \A i \in MapSlot : \A x \in K : x \in Nodes(s[i]) <=> x \in Nodes(t[i]),
           \A i \in MapSlot : \A x, y \in K : x \in Nodes(s[i]) /\ y \in Nodes(s[i]) =>
              (PosOf(s[i], x) <= PosOf(s[i], y) <=> PosOf(t[i], x) <= PosOf(t[i], y))
    PROVE  \A n \in K : n \in Ahead(s, w) <=> n \in Ahead(t, w)
<1>. SUFFICES ASSUME NEW n \in K PROVE n \in Ahead(s, w) <=> n \in Ahead(t, w)
  OBVIOUS
<1>1. ASSUME NEW i \in MapSlot, n \in Nodes(s[i]), i = w.idx, w.node # NoNode
      PROVE  PosOf(s[i], w.node) <= PosOf(s[i], n) <=> PosOf(t[i], w.node) <= PosOf(t[i], n)
  BY <1>1
<1>2. \A i \in MapSlot : n \in Nodes(s[i]) <=> n \in Nodes(t[i])
  OBVIOUS
<1>. QED BY <1>1, <1>2 DEF Ahead

(* Adding a node disturbs no walk.                                           *)
LEMMA WalkAfterAdd ==
    ASSUME NEW s, NEW ky, Mapped(s, ky), NEW w, NEW sn, NEW st, Walked(s, w, sn, st),
           NEW n \in HNode, n \notin In(s), NEW k \in HKey, \A m \in In(s) : ky[m] # k
    PROVE  Walked(PutIn(s, n, k), w, sn, st)
<1> DEFINE h == HomeOf(k)
           t == PutIn(s, n, k)
<1>1. Mapped(t, [ky EXCEPT ![n] = k]) /\ In(t) = In(s) \cup {n}
  BY ONLY NodeAdded, Mapped(s, ky), n \in HNode, n \notin In(s), k \in HKey,
          \A m \in In(s) : ky[m] # k
<1>2. h \in MapSlot /\ s[h] \in Seq(HNode) /\ Distinct(s[h]) /\ n \notin Nodes(s[h])
  BY HomeIsSlot DEF Mapped, In
<1>3. t[h] = tt_list_push_head(s[h], n) /\ \A i \in MapSlot : i # h => t[i] = s[i]
  BY <1>2 DEF Mapped, PutIn
<1>4. Nodes(t[h]) = Nodes(s[h]) \cup {n}
  BY <1>2, <1>3, PushHead
<1>. HIDE DEF t, h
<1>5. \A i \in MapSlot : \A x \in In(s) : x \in Nodes(s[i]) <=> x \in Nodes(t[i])
  BY <1>3, <1>4
<1>6. \A i \in MapSlot : \A x, y \in In(s) : x \in Nodes(s[i]) /\ y \in Nodes(s[i]) =>
        (PosOf(s[i], x) <= PosOf(s[i], y) <=> PosOf(t[i], x) <= PosOf(t[i], y))
  BY <1>2, <1>3, PushOrder
<1>7. AtPlace(s, w)
  BY DEF Walked
<1>8. w.node # NoNode => w.node \in In(s) /\ w.node \in Nodes(s[w.idx])
  BY <1>7 DEF AtPlace, In
<1>9. \A m \in In(s) : m \in Ahead(s, w) <=> m \in Ahead(t, w)
  BY <1>1, <1>5, <1>6, <1>8, StillAhead
<1>10. AtPlace(t, w)
  BY <1>5, <1>7, <1>8 DEF AtPlace
<1>11. Walked(t, w, sn, st)
  BY <1>1, <1>9, <1>10 DEF Walked
<1>. QED BY <1>11 DEF t, h

(* Nor does removing one that the walk does not stand at.                     *)
LEMMA WalkAfterRemove ==
    ASSUME NEW s, NEW ky, Mapped(s, ky), NEW w, NEW sn, NEW st, Walked(s, w, sn, st),
           NEW n \in In(s), n # w.node
    PROVE  Walked(TakenFrom(s, n, ky[n]), w, sn, st \ {n})
<1> DEFINE h == HomeOf(ky[n])
           t == TakenFrom(s, n, ky[n])
<1>1. Mapped(t, [ky EXCEPT ![n] = NoKey]) /\ In(t) = In(s) \ {n}
  BY NodeRemoved
<1>2. h \in MapSlot /\ s[h] \in Seq(HNode) /\ Distinct(s[h]) /\ n \in Nodes(s[h])
  BY InHome DEF Mapped
<1>3. t[h] = tt_list_remove(s[h], n) /\ \A i \in MapSlot : i # h => t[i] = s[i]
  BY <1>2 DEF Mapped, TakenFrom
<1>4. Nodes(t[h]) = Nodes(s[h]) \ {n}
  BY <1>2, <1>3, RemoveNode
<1>. HIDE DEF t, h
<1>5. \A i \in MapSlot : \A x \in In(s) \ {n} : x \in Nodes(s[i]) <=> x \in Nodes(t[i])
  BY <1>3, <1>4
<1>6. \A i \in MapSlot : \A x, y \in In(s) \ {n} : x \in Nodes(s[i]) /\ y \in Nodes(s[i]) =>
        (PosOf(s[i], x) <= PosOf(s[i], y) <=> PosOf(t[i], x) <= PosOf(t[i], y))
  BY <1>2, <1>3, RemoveOrder
<1>7. AtPlace(s, w)
  BY DEF Walked
<1>8. w.node # NoNode => w.node \in In(s) \ {n} /\ w.node \in Nodes(s[w.idx])
  BY <1>7 DEF AtPlace, In
<1>9. \A m \in In(s) \ {n} : m \in Ahead(s, w) <=> m \in Ahead(t, w)
  BY <1>1, <1>5, <1>6, <1>8, StillAhead
<1>10. AtPlace(t, w)
  BY <1>5, <1>7, <1>8 DEF AtPlace
<1>11. Walked(t, w, sn, st \ {n})
  BY <1>1, <1>9, <1>10 DEF Walked
<1>. QED BY <1>11 DEF t, h

\* The nodes of the slots from i on.
Later(s, i) == {n \in In(s) : \E j \in MapSlot : j >= i /\ n \in Nodes(s[j])}

(* A walk that begins at slot i has all nodes of that and later slots before it. *)
LEMMA FirstFacts ==
    ASSUME Mapped(sll, hkey), NEW i \in 0 .. sll_num, NEW kind \in {"iter", "foreach"}
    PROVE  /\ AtPlace(sll, Map!FirstFrom(i, kind))
           /\ Ahead(sll, Map!FirstFrom(i, kind)) = Later(sll, i)
           /\ Map!FirstFrom(i, kind).kind = kind
<1> DEFINE full == {j \in MapSlot : j >= i /\ sll[j] # <<>>}
           j0 == CHOOSE x \in full : \A y \in full : x <= y
<1>1. sll_num \in Nat /\ sll_num > 0 /\ MapSlot \subseteq Nat
  BY SizeAssumption DEF MapSlot
<1>2. Map!FirstFrom(i, kind) =
        IF full = {} THEN [kind |-> kind, idx |-> sll_num, node |-> NoNode]
        ELSE [kind |-> kind, idx |-> j0, node |-> Head(sll[j0])]
  BY DEF Map!FirstFrom, Map!NoWalk, Map!Slot, MapSlot
<1>3. \A j \in MapSlot : sll[j] \in Seq(HNode) /\ Distinct(sll[j])
  BY DEF Mapped
<1>4. CASE full = {}
  <2> DEFINE w == [kind |-> kind, idx |-> sll_num, node |-> NoNode]
  <2>1. AtPlace(sll, w)
    BY <1>1 DEF AtPlace
  <2>2. \A j \in MapSlot : ~(j > sll_num) /\ j # sll_num
    BY <1>1 DEF MapSlot
  <2>3. Ahead(sll, w) = {}
    BY <2>2 DEF Ahead
  <2>4. \A j \in MapSlot : j >= i => Nodes(sll[j]) = {}
    BY <1>4 DEF Nodes
  <2>5. Later(sll, i) = {}
    BY <2>4 DEF Later
  <2>. QED BY <1>2, <1>4, <2>1, <2>3, <2>5
<1>5. CASE full # {}
  <2>1. full \subseteq Nat
    BY <1>1
  <2>2. \E x \in full : \A y \in full : x <= y
    <3>. HIDE DEF full
    <3>. QED BY <1>5, <2>1, LeastNumber
  <2>3. j0 \in full /\ \A y \in full : j0 <= y
    BY <2>2
  <2>4. j0 \in MapSlot /\ j0 \in Nat /\ j0 >= i /\ sll[j0] # <<>>
    BY <1>1, <2>3
  <2>5. \A j \in MapSlot : j >= i /\ sll[j] # <<>> => j0 <= j
    BY <2>3
  <2>. HIDE DEF j0, full
  <2> DEFINE l == sll[j0]
             x == Head(l)
             w == [kind |-> kind, idx |-> j0, node |-> x]
  <2>6. l \in Seq(HNode) /\ Distinct(l) /\ x = l[1] /\ 1 \in 1 .. Len(l)
    BY <1>3, <2>4
  <2>7. x \in Nodes(l) /\ x \in HNode /\ PosOf(l, x) = 1
    <3>. HIDE DEF l
    <3>. QED BY <2>6, PlaceIn DEF Nodes
  <2>8. x # NoNode
    BY <2>7, SizeAssumption
  <2>9. \A n \in Nodes(l) : PosOf(l, x) <= PosOf(l, n)
    <3>. HIDE DEF l
    <3>. QED BY <2>6, <2>7, PlaceIn
  <2>. HIDE DEF x
  <2>10. AtPlace(sll, w)
    BY <1>1, <2>4, <2>7 DEF AtPlace, MapSlot
  <2>11. ASSUME NEW n \in In(sll) PROVE n \in Ahead(sll, w) <=> n \in Later(sll, i)
    <3>1. n \in Ahead(sll, w) <=>
            \E j \in MapSlot : n \in Nodes(sll[j]) /\ (j > j0 \/ j = j0)
      BY <2>8, <2>9 DEF Ahead
    <3>2. \A j \in MapSlot : n \in Nodes(sll[j]) => sll[j] # <<>>
      BY DEF Nodes
    <3>3. \A j \in MapSlot : n \in Nodes(sll[j]) => ((j > j0 \/ j = j0) <=> j >= i)
      <4>. SUFFICES ASSUME NEW j \in MapSlot, n \in Nodes(sll[j])
                    PROVE  (j > j0 \/ j = j0) <=> j >= i
        OBVIOUS
      <4>1. j \in Nat /\ i \in Nat /\ (j >= i => j0 <= j)
        BY <1>1, <2>5, <3>2
      <4>. QED BY ONLY <4>1, <2>4
    <3>. QED BY <3>1, <3>3 DEF Later
  <2>12. Ahead(sll, w) = Later(sll, i)
    BY <2>11 DEF Ahead, Later
  <2>. QED BY <1>2, <1>5, <2>10, <2>12 DEF x
<1>. QED BY <1>4, <1>5

(* From a node to the one behind it: that node, and no other, is no longer ahead. *)
LEMMA NextFacts ==
    ASSUME Mapped(sll, hkey), NEW i \in MapSlot, NEW n \in Nodes(sll[i]),
           NEW kind \in {"iter", "foreach"}
    PROVE  LET w == [kind |-> kind, idx |-> i, node |-> n]
               v == [kind |-> kind, idx |-> i, node |-> Map!NextOf(n, i)]
           IN  /\ AtPlace(sll, v)
               /\ n \in Ahead(sll, w) /\ Ahead(sll, v) = Ahead(sll, w) \ {n}
               /\ Map!NextOf(n, i) = NoNode => Ahead(sll, v) = Later(sll, i + 1)
<1> DEFINE l == sll[i]
           p == PosOf(l, n)
           x == Map!NextOf(n, i)
           w == [kind |-> kind, idx |-> i, node |-> n]
           v == [kind |-> kind, idx |-> i, node |-> x]
<1>1. l \in Seq(HNode) /\ Distinct(l)
  BY DEF Mapped
<1>2. n \in In(sll) /\ n \in HNode /\ n # NoNode
  <2>1. n \in In(sll)
    BY DEF In
  <2>. QED BY <2>1, InHome, SizeAssumption
<1>3. \A j \in MapSlot : n \in Nodes(sll[j]) => j = i
  BY <1>2, InHome
<1>4. x = IF p = Len(l) THEN NoNode ELSE l[p + 1]
  BY MapLists DEF Map!NextOf
<1>5. i \in Nat /\ i \in 0 .. sll_num /\ MapSlot \subseteq Nat
  BY SizeAssumption DEF MapSlot
<1>. HIDE DEF x, l
<1>6. /\ Len(l) \in Nat /\ p \in 1 .. Len(l) /\ l[p] = n
      /\ \A m \in Nodes(l) : PosOf(l, m) \in 1 .. Len(l) /\ l[PosOf(l, m)] = m
  BY <1>1, PlaceIn DEF l
<1>. HIDE DEF p
<1>7. \A m \in Nodes(l) : PosOf(l, m) = p <=> m = n
  BY <1>6 DEF p
<1>8. \A m \in In(sll) : m \in Ahead(sll, w) <=>
        \E j \in MapSlot : m \in Nodes(sll[j]) /\ (j > i \/ (j = i /\ p <= PosOf(l, m)))
  BY <1>2 DEF Ahead, p, l
<1>9. n \in Ahead(sll, w)
  <2>1. n \in Nodes(l) /\ p <= PosOf(l, n)
    BY <1>6, <1>7 DEF l
  <2>. QED BY <1>2, <1>8, <2>1 DEF l
<1>10. CASE p = Len(l)
  <2>1. x = NoNode
    BY <1>4, <1>10
  <2>2. AtPlace(sll, v)
    BY <1>5, <2>1 DEF AtPlace
  <2>3. \A m \in In(sll) : m \in Ahead(sll, v) <=>
          \E j \in MapSlot : m \in Nodes(sll[j]) /\ j > i
    BY <2>1 DEF Ahead
  <2>4. \A m \in Nodes(l) : p <= PosOf(l, m) <=> m = n
    BY <1>6, <1>7, <1>10
  <2>5. ASSUME NEW m \in In(sll) PROVE m \in Ahead(sll, v) <=> m \in Ahead(sll, w) /\ m # n
    BY <1>3, <1>5, <1>8, <2>3, <2>4 DEF l
  <2>6. Ahead(sll, v) = Ahead(sll, w) \ {n}
    BY <2>5 DEF Ahead
  <2>7. \A j \in MapSlot : j > i <=> j >= i + 1
    BY <1>5
  <2>8. Ahead(sll, v) = Later(sll, i + 1)
    BY <2>3, <2>7 DEF Ahead, Later
  <2>. QED BY <1>9, <2>2, <2>6, <2>8 DEF x
<1>11. CASE p # Len(l)
  <2>1. p + 1 \in 1 .. Len(l) /\ x = l[p + 1]
    BY <1>4, <1>6, <1>11
  <2>2. x \in Nodes(l) /\ PosOf(l, x) = p + 1
    BY <1>1, <2>1, PlaceIn
  <2>3. x \in HNode /\ x # NoNode
    <3>1. x \in HNode
      BY <1>1, <2>1
    <3>. QED BY <3>1, SizeAssumption
  <2>4. AtPlace(sll, v)
    BY <1>5, <2>2, <2>3 DEF AtPlace, l
  <2>5. \A m \in In(sll) : m \in Ahead(sll, v) <=>
          \E j \in MapSlot : m \in Nodes(sll[j]) /\ (j > i \/ (j = i /\ p + 1 <= PosOf(l, m)))
    BY <2>2, <2>3 DEF Ahead, l
  <2>6. \A m \in Nodes(l) : p + 1 <= PosOf(l, m) <=> p <= PosOf(l, m) /\ m # n
    BY <1>6, <1>7
  <2>7. ASSUME NEW m \in In(sll) PROVE m \in Ahead(sll, v) <=> m \in Ahead(sll, w) /\ m # n
    BY <1>3, <1>5, <1>8, <2>5, <2>6 DEF l
  <2>8. Ahead(sll, v) = Ahead(sll, w) \ {n}
    BY <2>7 DEF Ahead
  <2>. QED BY <1>9, <2>3, <2>4, <2>8 DEF x
<1>. QED BY <1>10, <1>11

(* A walk comes to a node that is ahead of it.                               *)
LEMMA NodeVisited ==
    ASSUME NEW s, NEW w, NEW sn, NEW st, Walked(s, w, sn, st), NEW n \in HNode, NEW v,
           n \in Ahead(s, w), AtPlace(s, v), Ahead(s, v) = Ahead(s, w) \ {n}
    PROVE  Walked(s, v, Append(sn, n), st)
<1> DEFINE t == Append(sn, n)
<1>1. sn \in Seq(HNode)
  BY DEF Walked
<1>2. t \in Seq(HNode) /\ Nodes(t) = Nodes(sn) \cup {n}
  BY <1>1, PushTail DEF tt_list_push_tail
<1>3. /\ DOMAIN t = 1 .. Len(sn) + 1 /\ DOMAIN sn = 1 .. Len(sn) /\ Len(sn) \in Nat
      /\ t[Len(sn) + 1] = n /\ \A i \in 1 .. Len(sn) : t[i] = sn[i]
  BY <1>1
<1>. HIDE DEF t
<1>4. \A m \in st : m \in Nodes(t) <=> m \notin Ahead(s, v)
  BY <1>2 DEF Walked
<1>5. ASSUME NEW m \in st, NEW i \in DOMAIN t, NEW j \in DOMAIN t, t[i] = m, t[j] = m
      PROVE  i = j
  <2>1. CASE m = n
    <3>1. n \notin Nodes(sn)
      BY <2>1 DEF Walked
    <3>2. ASSUME NEW q \in DOMAIN t, t[q] = n PROVE q = Len(sn) + 1
      <4>1. q \notin 1 .. Len(sn)
        BY <1>3, <3>1, <3>2 DEF Nodes
      <4>. QED BY <1>3, <4>1
    <3>. QED BY <1>5, <2>1, <3>2
  <2>2. CASE m # n
    <3>1. i \in DOMAIN sn /\ j \in DOMAIN sn /\ sn[i] = m /\ sn[j] = m
      BY <1>3, <1>5, <2>2
    <3>. QED BY <3>1 DEF Walked
  <2>. QED BY <2>1, <2>2
<1>6. st \subseteq In(s)
  BY DEF Walked
<1>7. Walked(s, v, t, st)
  BY <1>2, <1>4, <1>5, <1>6 DEF Walked
<1>. QED BY <1>7 DEF t

\* No walk is going on.
Idle == [kind |-> "none", idx |-> sll_num, node |-> NoNode]

\* The inductive invariant of the map with a walk over it.
MapInv ==
    /\ Mapped(sll, hkey)
    /\ IsFiniteSet(In(sll)) /\ hcount = Cardinality(In(sll))
    /\ Walked(sll, walk, seen, stay)
    /\ walk.kind = "none" => walk = Idle /\ seen = <<>> /\ stay = {}

(* A map is created empty, and without a walk.                               *)
LEMMA EmptyMap ==
    ASSUME NEW s, s = [i \in MapSlot |-> <<>>], NEW ky, ky = [n \in HNode |-> NoKey]
    PROVE  /\ Mapped(s, ky) /\ In(s) = {}
           /\ \A w : AtPlace(s, w) => Walked(s, w, <<>>, {})
<1>1. Nodes(<<>>) = {} /\ Distinct(<<>>)
  BY DEF Nodes, Distinct
<1>2. \A i \in MapSlot : Nodes(s[i]) = {} /\ Distinct(s[i]) /\ s[i] \in Seq(HNode)
  BY <1>1
<1>3. In(s) = {}
  BY <1>2 DEF In
<1>4. Mapped(s, ky)
  BY <1>2, <1>3 DEF Mapped
<1>5. \A w : AtPlace(s, w) => Walked(s, w, <<>>, {})
  BY DEF Walked
<1>. QED BY <1>3, <1>4, <1>5

LEMMA IdleFacts ==
    /\ Map!NoWalk = Idle
    /\ \A s : AtPlace(s, Idle)
    /\ \A s : Walked(s, Idle, <<>>, {})
<1>1. sll_num \in Nat
  BY SizeAssumption
<1>2. \A s : AtPlace(s, Idle)
  BY <1>1 DEF AtPlace, Idle
<1>3. \A s : Walked(s, Idle, <<>>, {})
  BY <1>2 DEF Walked
<1>. QED BY <1>2, <1>3 DEF Map!NoWalk, Idle

LEMMA MapStarts == Map!Init => MapInv
<1>. SUFFICES ASSUME Map!Init PROVE MapInv
  OBVIOUS
<1>1. /\ sll = [i \in MapSlot |-> <<>>] /\ hkey = [n \in HNode |-> NoKey]
      /\ hcount = 0 /\ walk = Idle /\ seen = <<>> /\ stay = {}
  BY MapLists, IdleFacts DEF Map!Init
<1>2. Mapped(sll, hkey) /\ In(sll) = {}
  BY <1>1, EmptyMap
<1>. QED BY <1>1, <1>2, IdleFacts, FS_EmptySet DEF MapInv

(* Calls that change the map.                                               *)
LEMMA MapChanges ==
    ASSUME MapInv
    PROVE  /\ \A k \in HKey, n \in HNode : Map!tt_hmap_add(k, n) => MapInv'
           /\ \A n \in HNode : Map!tt_hmap_remove(n) => MapInv'
           /\ Map!tt_hmap_clear => MapInv'
<1>0. /\ Mapped(sll, hkey) /\ Walked(sll, walk, seen, stay)
      /\ IsFiniteSet(In(sll)) /\ hcount = Cardinality(In(sll))
      /\ walk.kind = "none" => walk = Idle /\ seen = <<>> /\ stay = {}
  BY DEF MapInv
<1>1. ASSUME NEW k \in HKey, NEW n \in HNode, Map!tt_hmap_add(k, n) PROVE MapInv'
  <2>1. /\ n \notin In(sll) /\ Map!tt_hmap_find(k) = NoNode
        /\ sll' = PutIn(sll, n, k) /\ hkey' = [hkey EXCEPT ![n] = k] /\ hcount' = hcount + 1
        /\ walk' = walk /\ seen' = seen /\ stay' = stay
    BY <1>1, MapLists DEF Map!tt_hmap_add, PutIn
  <2>2. \A m \in In(sll) : hkey[m] # k
    BY <1>0, <2>1, FindFacts
  <2>3. Mapped(sll', hkey') /\ In(sll') = In(sll) \cup {n}
    <3>1. Mapped(PutIn(sll, n, k), [hkey EXCEPT ![n] = k])
      BY <1>0, <2>1, <2>2, NodeAdded
    <3>2. In(PutIn(sll, n, k)) = In(sll) \cup {n}
      BY <1>0, <2>1, <2>2, NodeAdded
    <3>. QED BY <2>1, <3>1, <3>2
  <2>4. Walked(sll', walk', seen', stay')
    BY <1>0, <2>1, <2>2, WalkAfterAdd
  <2>5. IsFiniteSet(In(sll')) /\ hcount' = Cardinality(In(sll'))
    BY <1>0, <2>1, <2>3, FS_AddElement
  <2>. QED BY <1>0, <2>1, <2>3, <2>4, <2>5 DEF MapInv
<1>2. ASSUME NEW n \in HNode, Map!tt_hmap_remove(n) PROVE MapInv'
  <2>1. /\ n \in In(sll) /\ n # walk.node
        /\ sll' = TakenFrom(sll, n, hkey[n]) /\ hkey' = [hkey EXCEPT ![n] = NoKey]
        /\ hcount' = hcount - 1 /\ walk' = walk /\ seen' = seen /\ stay' = stay \ {n}
    BY <1>2, MapLists DEF Map!tt_hmap_remove, Map!Without, TakenFrom
  <2>2. Mapped(sll', hkey') /\ In(sll') = In(sll) \ {n}
    BY <1>0, <2>1, NodeRemoved
  <2>3. Walked(sll', walk', seen', stay')
    BY <1>0, <2>1, WalkAfterRemove
  <2>4. IsFiniteSet(In(sll')) /\ hcount' = Cardinality(In(sll'))
    BY <1>0, <2>1, <2>2, FS_RemoveElement
  <2>. QED BY <1>0, <2>1, <2>2, <2>3, <2>4 DEF MapInv
<1>3. ASSUME Map!tt_hmap_clear PROVE MapInv'
  <2>1. /\ sll' = [i \in MapSlot |-> <<>>] /\ hkey' = [n \in HNode |-> NoKey] /\ hcount' = 0
        /\ walk.kind = "none" /\ walk' = walk /\ seen' = seen /\ stay' = stay
    BY <1>3, MapLists DEF Map!tt_hmap_clear
  <2>2. Mapped(sll', hkey') /\ In(sll') = {}
    BY <2>1, EmptyMap
  <2>3. Walked(sll', walk', seen', stay')
    BY <1>0, <2>1, IdleFacts
  <2>. QED BY <1>0, <2>1, <2>2, <2>3, FS_EmptySet DEF MapInv
<1>. QED BY <1>1, <1>2, <1>3

(* A walk that has everything before it may begin.                           *)
LEMMA NewWalk ==
    ASSUME NEW s, NEW w, AtPlace(s, w), Ahead(s, w) = In(s)
    PROVE  Walked(s, w, <<>>, In(s))
<1>1. Nodes(<<>>) = {}
  BY DEF Nodes
<1>2. <<>> \in Seq(HNode) /\ DOMAIN <<>> = {}
  OBVIOUS
<1>. QED BY <1>1, <1>2 DEF Walked

(* tt_hmap_foreach() begins with the first node of the first slot.            *)
LEMMA ForeachFirst ==
    ASSUME Mapped(sll, hkey)
    PROVE  LET w == [kind |-> "foreach", idx |-> 0,
                     node |-> IF sll[0] = <<>> THEN NoNode ELSE Head(sll[0])]
           IN  AtPlace(sll, w) /\ Ahead(sll, w) = In(sll)
<1> DEFINE l == sll[0]
           x == IF l = <<>> THEN NoNode ELSE Head(l)
           w == [kind |-> "foreach", idx |-> 0, node |-> x]
<1>1. 0 \in MapSlot /\ 0 \in 0 .. sll_num /\ \A i \in MapSlot : i > 0 \/ i = 0
  BY SizeAssumption DEF MapSlot
<1>2. l \in Seq(HNode) /\ Distinct(l)
  BY <1>1 DEF Mapped
<1>3. x # NoNode => x \in Nodes(l) /\ \A n \in Nodes(l) : PosOf(l, x) <= PosOf(l, n)
  <2>. SUFFICES ASSUME x # NoNode
                PROVE  x \in Nodes(l) /\ \A n \in Nodes(l) : PosOf(l, x) <= PosOf(l, n)
    OBVIOUS
  <2>1. l # <<>> /\ x = l[1] /\ 1 \in 1 .. Len(l)
    BY <1>2
  <2>. HIDE DEF l, x
  <2>2. x \in Nodes(l) /\ PosOf(l, x) = 1
    BY <1>2, <2>1, PlaceIn
  <2>. QED BY <1>2, <2>2, PlaceIn
<1>4. x = NoNode => Nodes(l) = {}
  <2>. SUFFICES ASSUME x = NoNode PROVE l = <<>>
    BY DEF Nodes
  <2>1. l # <<>> => Head(l) \in HNode
    BY <1>2
  <2>. QED BY <2>1, SizeAssumption
<1>5. x \in HNode \cup {NoNode}
  BY <1>2
<1>. HIDE DEF x
<1>6. AtPlace(sll, w)
  BY <1>1, <1>3, <1>5 DEF AtPlace
<1>7. ASSUME NEW n \in In(sll) PROVE n \in Ahead(sll, w)
  <2>1. PICK i \in MapSlot : n \in Nodes(sll[i])
    BY DEF In
  <2>2. CASE i > 0
    BY <2>1, <2>2 DEF Ahead
  <2>3. CASE i = 0
    BY <1>3, <1>4, <2>1, <2>3 DEF Ahead
  <2>. QED BY <1>1, <2>2, <2>3
<1>8. Ahead(sll, w) = In(sll)
  BY <1>7 DEF Ahead
<1>. QED BY <1>6, <1>8 DEF x

(* A walk begins.                                                           *)
LEMMA WalkBegins ==
    ASSUME MapInv
    PROVE  Map!tt_hmap_iter \/ Map!tt_hmap_foreach => MapInv'
<1>0. /\ Mapped(sll, hkey)
      /\ IsFiniteSet(In(sll)) /\ hcount = Cardinality(In(sll))
  BY DEF MapInv
<1>1. ASSUME NEW w, AtPlace(sll, w), Ahead(sll, w) = In(sll), w.kind # "none", Map!Begin(w)
      PROVE  MapInv'
  <2>1. /\ walk' = w /\ seen' = <<>> /\ stay' = In(sll)
        /\ sll' = sll /\ hkey' = hkey /\ hcount' = hcount
    BY <1>1, MapLists DEF Map!Begin
  <2>2. Walked(sll', walk', seen', stay')
    BY <1>1, <2>1, NewWalk
  <2>. QED BY <1>0, <1>1, <2>1, <2>2 DEF MapInv
<1>2. ASSUME Map!tt_hmap_iter PROVE MapInv'
  <2>1. 0 \in 0 .. sll_num /\ MapSlot \subseteq Nat
    BY SizeAssumption DEF MapSlot
  <2>2. Later(sll, 0) = In(sll)
    BY <2>1 DEF Later, In
  <2>3. PICK w : w = Map!FirstFrom(0, "iter")
    OBVIOUS
  <2>4. AtPlace(sll, w) /\ Ahead(sll, w) = In(sll) /\ w.kind = "iter"
    BY <1>0, <2>1, <2>2, <2>3, FirstFacts
  <2>. QED BY <1>1, <1>2, <2>3, <2>4 DEF Map!tt_hmap_iter
<1>3. ASSUME Map!tt_hmap_foreach PROVE MapInv'
  <2>1. PICK w : w = [kind |-> "foreach", idx |-> 0,
                      node |-> IF sll[0] = <<>> THEN NoNode ELSE Head(sll[0])]
    OBVIOUS
  <2>2. AtPlace(sll, w) /\ Ahead(sll, w) = In(sll)
    BY <1>0, <2>1, ForeachFirst
  <2>. QED BY <1>1, <1>3, <2>1, <2>2 DEF Map!tt_hmap_foreach
<1>. QED BY <1>2, <1>3

(* A walk goes on, or ends.                                                 *)
LEMMA WalkGoesOn ==
    ASSUME MapInv
    PROVE  Map!tt_hmap_iter_next \/ Map!ForeachNext \/ Map!WalkEnds => MapInv'
<1>0. /\ Mapped(sll, hkey) /\ Walked(sll, walk, seen, stay) /\ AtPlace(sll, walk)
      /\ IsFiniteSet(In(sll)) /\ hcount = Cardinality(In(sll))
  BY DEF MapInv, Walked
<1>1. ASSUME NEW w, NEW sn, Walked(sll, w, sn, stay), w.kind # "none",
             walk' = w, seen' = sn, stay' = stay, sll' = sll, hkey' = hkey, hcount' = hcount
      PROVE  MapInv'
  BY <1>0, <1>1 DEF MapInv
<1>2. ASSUME NEW w, Walked(sll, w, seen, stay), w.node # NoNode, w.kind \in {"iter", "foreach"}
      PROVE  LET v == [kind |-> w.kind, idx |-> w.idx, node |-> Map!NextOf(w.node, w.idx)]
             IN  /\ AtPlace(sll, v) /\ w.node \in HNode /\ w.node \in Ahead(sll, w)
                 /\ Ahead(sll, v) = Ahead(sll, w) \ {w.node}
                 /\ Map!NextOf(w.node, w.idx) = NoNode =>
                      w.idx + 1 \in 0 .. sll_num /\ Ahead(sll, v) = Later(sll, w.idx + 1)
  <2>1. /\ w.idx \in MapSlot /\ w.node \in Nodes(sll[w.idx]) /\ w.node \in HNode
        /\ w = [kind |-> w.kind, idx |-> w.idx, node |-> w.node]
    BY <1>2 DEF Walked, AtPlace
  <2>2. w.idx + 1 \in 0 .. sll_num
    BY <2>1, SizeAssumption DEF MapSlot
  <2>3. PICK i, n, kind : i = w.idx /\ n = w.node /\ kind = w.kind
    OBVIOUS
  <2>4. w = [kind |-> kind, idx |-> i, node |-> n] /\ i \in MapSlot /\ n \in Nodes(sll[i])
        /\ kind \in {"iter", "foreach"}
    BY <1>2, <2>1, <2>3
  <2> DEFINE v == [kind |-> kind, idx |-> i, node |-> Map!NextOf(n, i)]
  <2>5. /\ AtPlace(sll, v)
        /\ n \in Ahead(sll, [kind |-> kind, idx |-> i, node |-> n])
        /\ Ahead(sll, v) = Ahead(sll, [kind |-> kind, idx |-> i, node |-> n]) \ {n}
        /\ Map!NextOf(n, i) = NoNode => Ahead(sll, v) = Later(sll, i + 1)
    BY <1>0, <2>4, NextFacts
  <2>6. Ahead(sll, [kind |-> kind, idx |-> i, node |-> n]) = Ahead(sll, w)
    BY <2>4
  <2>7. v = [kind |-> w.kind, idx |-> w.idx, node |-> Map!NextOf(w.node, w.idx)]
    BY <2>3
  <2>. QED BY <2>1, <2>2, <2>3, <2>5, <2>6, <2>7
<1>3. ASSUME Map!tt_hmap_iter_next PROVE MapInv'
  <2>1. /\ walk.kind = "iter" /\ walk.node # NoNode
        /\ walk' = Map!Onward(walk.node, walk.idx) /\ seen' = Append(seen, walk.node)
        /\ sll' = sll /\ hkey' = hkey /\ hcount' = hcount /\ stay' = stay
    BY <1>3 DEF Map!tt_hmap_iter_next
  <2> DEFINE x == Map!NextOf(walk.node, walk.idx)
             v == [kind |-> "iter", idx |-> walk.idx, node |-> x]
  <2>2. /\ AtPlace(sll, v) /\ walk.node \in HNode /\ walk.node \in Ahead(sll, walk)
        /\ Ahead(sll, v) = Ahead(sll, walk) \ {walk.node}
        /\ x = NoNode => walk.idx + 1 \in 0 .. sll_num /\ Ahead(sll, v) = Later(sll, walk.idx + 1)
    BY <1>0, <1>2, <2>1
  <2>3. Map!Onward(walk.node, walk.idx) =
          IF x # NoNode THEN v ELSE Map!FirstFrom(walk.idx + 1, "iter")
    BY DEF Map!Onward
  <2>. HIDE DEF v, x
  <2>4. PICK u : u = Map!Onward(walk.node, walk.idx)
    OBVIOUS
  <2>5. AtPlace(sll, u) /\ Ahead(sll, u) = Ahead(sll, walk) \ {walk.node} /\ u.kind = "iter"
    <3>1. CASE x # NoNode
      BY <2>2, <2>3, <2>4, <3>1 DEF v
    <3>2. CASE x = NoNode
      BY <1>0, <2>2, <2>3, <2>4, <3>2, FirstFacts
    <3>. QED BY <3>1, <3>2
  <2>6. Walked(sll, u, Append(seen, walk.node), stay)
    BY <1>0, <2>2, <2>5, NodeVisited
  <2>. QED BY <1>1, <2>1, <2>4, <2>5, <2>6
<1>4. ASSUME Map!ForeachNext PROVE MapInv'
  <2> DEFINE f == IF walk.node = NoNode THEN Map!FirstFrom(walk.idx + 1, "foreach") ELSE walk
  <2>1. /\ walk.kind = "foreach" /\ walk.idx < sll_num
        /\ sll' = sll /\ hkey' = hkey /\ hcount' = hcount /\ stay' = stay
        /\ IF f.node = NoNode THEN walk' = f /\ seen' = seen
           ELSE walk' = [f EXCEPT !.node = Map!NextOf(f.node, f.idx)] /\ seen' = Append(seen, f.node)
    BY <1>4 DEF Map!ForeachNext
  <2>2. PICK w : w = f
    OBVIOUS
  <2>3. Walked(sll, w, seen, stay) /\ w.kind = "foreach"
    <3>1. CASE walk.node = NoNode
      <4>1. walk.idx \in Nat /\ walk.idx + 1 \in 0 .. sll_num /\ MapSlot \subseteq Nat
        BY <1>0, <2>1, SizeAssumption DEF AtPlace, MapSlot
      <4>2. w = Map!FirstFrom(walk.idx + 1, "foreach")
        BY <2>2, <3>1
      <4>3. /\ AtPlace(sll, w) /\ w.kind = "foreach"
            /\ Ahead(sll, w) = Later(sll, walk.idx + 1)
        BY <1>0, <4>1, <4>2, FirstFacts
      <4>4. \A i \in MapSlot : i > walk.idx <=> i >= walk.idx + 1
        BY <4>1
      <4>5. Ahead(sll, walk) = Later(sll, walk.idx + 1)
        BY <3>1, <4>4 DEF Ahead, Later
      <4>. QED BY <1>0, <4>3, <4>5 DEF Walked
    <3>2. CASE walk.node # NoNode
      BY <1>0, <2>1, <2>2, <3>2
    <3>. QED BY <3>1, <3>2
  <2>. HIDE DEF f
  <2>4. CASE w.node = NoNode
    BY <1>1, <2>1, <2>2, <2>3, <2>4
  <2>5. CASE w.node # NoNode
    <3> DEFINE v == [kind |-> "foreach", idx |-> w.idx, node |-> Map!NextOf(w.node, w.idx)]
    <3>1. /\ AtPlace(sll, v) /\ w.node \in HNode /\ w.node \in Ahead(sll, w)
          /\ Ahead(sll, v) = Ahead(sll, w) \ {w.node}
      BY <1>2, <2>3, <2>5
    <3>2. walk' = v /\ seen' = Append(seen, w.node)
      <4>1. w = [kind |-> w.kind, idx |-> w.idx, node |-> w.node]
        BY <2>3 DEF Walked, AtPlace
      <4>2. walk' = [w EXCEPT !.node = Map!NextOf(w.node, w.idx)]
        BY <2>1, <2>2, <2>5
      <4>. QED BY <2>1, <2>2, <2>3, <2>5, <4>1, <4>2
    <3>. HIDE DEF v
    <3>3. PICK u : u = v
      OBVIOUS
    <3>4. Walked(sll, u, Append(seen, w.node), stay)
      BY <2>3, <3>1, <3>3, NodeVisited
    <3>5. u.kind # "none"
      BY <3>3 DEF v
    <3>. QED BY <1>1, <2>1, <3>2, <3>3, <3>4, <3>5
  <2>. QED BY <2>4, <2>5
<1>5. ASSUME Map!WalkEnds PROVE MapInv'
  <2>1. /\ walk' = Idle /\ seen' = <<>> /\ stay' = {}
        /\ sll' = sll /\ hkey' = hkey /\ hcount' = hcount
    BY <1>5, IdleFacts DEF Map!WalkEnds
  <2>. QED BY <1>0, <2>1, IdleFacts DEF MapInv
<1>. QED BY <1>3, <1>4, <1>5

(* Every step keeps the invariant.                                          *)
LEMMA MapSteps == MapInv /\ [Map!Next]_(Map!vars) => MapInv'
<1>. SUFFICES ASSUME MapInv, [Map!Next]_(Map!vars) PROVE MapInv'
  OBVIOUS
<1>1. CASE UNCHANGED Map!vars
  BY <1>1 DEF Map!vars, MapInv
<1>2. CASE Map!Next
  BY <1>2, MapChanges, WalkBegins, WalkGoesOn DEF Map!Next
<1>. QED BY <1>1, <1>2

(* Every node is found by its key, and no other, and the count is right; a walk *)
(* comes to every node that stays in the map, once, though tt_hmap_add() and    *)
(* tt_hmap_remove() change the map between its steps.  Spec leaves two calls    *)
(* to nobody while a walk goes on, as the code cannot bear them: removing the   *)
(* node that comes next (tt_hmap_iter_next() and tt_hmap_foreach() hold its     *)
(* address) and tt_hmap_clear().                                               *)
THEOREM MapsAreSound == Map!Spec => []MapSound
<1>1. MapInv => MapSound
  <2>. SUFFICES ASSUME MapInv PROVE MapSound
    OBVIOUS
  <2>1. /\ Mapped(sll, hkey) /\ Walked(sll, walk, seen, stay)
        /\ hcount = Cardinality(In(sll))
    BY DEF MapInv
  <2>2. ASSUME NEW k \in HKey
        PROVE  LET n == Map!tt_hmap_find(k)
               IN  {m \in In(sll) : hkey[m] = k} = IF n = NoNode THEN {} ELSE {n}
    BY <2>1, FindFacts DEF Mapped
  <2>3. Map!Finds
    BY <2>1, <2>2, MapLists DEF Map!Finds
  <2>4. Map!Through => stay \subseteq Nodes(seen)
    <3>. SUFFICES ASSUME Map!Through, NEW n \in stay PROVE n \in Nodes(seen)
      OBVIOUS
    <3>1. walk.idx = sll_num /\ AtPlace(sll, walk)
      BY <2>1 DEF Map!Through, Walked
    <3>2. \A i \in MapSlot : ~(i > sll_num) /\ i # sll_num
      BY SizeAssumption DEF MapSlot
    <3>3. n \notin Ahead(sll, walk)
      BY <3>1, <3>2 DEF Ahead
    <3>. QED BY <2>1, <3>3 DEF Walked
  <2>5. ASSUME NEW n \in stay PROVE Cardinality({i \in DOMAIN seen : seen[i] = n}) <= 1
    <3> DEFINE T == {i \in DOMAIN seen : seen[i] = n}
    <3>1. \A i, j \in T : i = j
      BY <2>1 DEF Walked
    <3>. HIDE DEF T
    <3>2. Cardinality(T) <= 1
      <4>1. CASE T = {}
        BY <4>1, FS_EmptySet
      <4>2. CASE T # {}
        <5>1. PICK p : T = {p}
          BY <3>1, <4>2
        <5>2. Cardinality(T) = 1
          BY ONLY <5>1, FS_Singleton
        <5>. QED BY <5>2
      <4>. QED BY <4>1, <4>2
    <3>. QED BY <3>2 DEF T
  <2>6. Map!WalkComplete
    BY <2>4, <2>5, MapLists DEF Map!WalkComplete
  <2>. QED BY <2>3, <2>6 DEF MapSound
<1>. QED BY <1>1, MapStarts, MapSteps, PTL DEF Map!Spec

-----------------------------------------------------------------------------
(* The queue in frames (FrameQueue).                                        *)

Value == Obj \cup {Junk}

Frame == [start : 0 .. obj_per_frame, end : 0 .. obj_per_frame,
          obj : [0 .. obj_per_frame - 1 -> Value]]

\* How many objects a frame holds, and its j-th one.
Held(f) == f.end - f.start

Jth(f, j) == f.obj[f.start + j - 1]

\* The objects of the frames s, one frame after the other.
ContentsOf(s) ==
    LET c[k \in 0 .. Len(s)] == IF k = 0 THEN <<>> ELSE c[k - 1] \o Frames!Objects(s[k])
    IN  c[Len(s)]

\* c lists the objects of the frames s; g[k] of them are in the first k frames.
Laid(c, s, g) ==
    /\ c \in Seq(Value) /\ Len(c) = g[Len(s)]
    /\ g \in [0 .. Len(s) -> Nat] /\ g[0] = 0
    /\ \A k \in 1 .. Len(s) : g[k] = g[k - 1] + Held(s[k])
    /\ \A k \in 1 .. Len(s) : \A j \in 1 .. Held(s[k]) : c[g[k - 1] + j] = Jth(s[k], j)

\* Frames that may hold objects.
Filled(s) == s \in Seq(Frame) /\ \A k \in 1 .. Len(s) : s[k].start < s[k].end

(* What is known of a frame that may be empty.                              *)
LEMMA SlotFacts ==
    ASSUME NEW f \in Frame, f.start <= f.end
    PROVE  /\ Held(f) \in Nat
           /\ \A j \in 1 .. Held(f) : f.start + j - 1 \in 0 .. obj_per_frame - 1 /\ Jth(f, j) \in Value
           /\ Frames!Objects(f) \in Seq(Value) /\ Len(Frames!Objects(f)) = Held(f)
           /\ \A j \in 1 .. Held(f) : Frames!Objects(f)[j] = Jth(f, j)
<1>1. /\ f.start \in Nat /\ f.end \in Nat /\ f.end <= obj_per_frame /\ obj_per_frame \in Nat
      /\ f.obj \in [0 .. obj_per_frame - 1 -> Value]
  BY SizeAssumption DEF Frame
<1>2. Held(f) \in Nat
  BY <1>1 DEF Held
<1>3. ASSUME NEW j \in 1 .. Held(f)
      PROVE  f.start + j - 1 \in 0 .. obj_per_frame - 1 /\ Jth(f, j) \in Value
  <2>1. f.start + j - 1 \in 0 .. obj_per_frame - 1
    BY <1>1 DEF Held
  <2>. QED BY <1>1, <2>1 DEF Jth
<1>4. Frames!Objects(f) = [j \in 1 .. Held(f) |-> Jth(f, j)]
  BY DEF Frames!Objects, Frames!Size, Held, Jth
<1>. QED BY <1>2, <1>3, <1>4

(* And of one that is not.                                                  *)
LEMMA FrameFacts ==
    ASSUME NEW f \in Frame, f.start < f.end
    PROVE  /\ Held(f) \in Nat \ {0}
           /\ \A j \in 1 .. Held(f) : Jth(f, j) \in Value
           /\ Frames!Objects(f) \in Seq(Value) /\ Len(Frames!Objects(f)) = Held(f)
           /\ \A j \in 1 .. Held(f) : Frames!Objects(f)[j] = Jth(f, j)
<1>1. f.start \in Nat /\ f.end \in Nat /\ f.start <= f.end
  BY SizeAssumption DEF Frame
<1>2. Held(f) # 0
  BY <1>1 DEF Held
<1>. QED BY <1>1, <1>2, SlotFacts

(* And of all of them.                                                       *)
LEMMA FilledFacts ==
    ASSUME NEW s, Filled(s)
    PROVE  /\ Len(s) \in Nat
           /\ \A k \in 1 .. Len(s) : s[k] \in Frame /\ Held(s[k]) \in Nat \ {0}
<1>1. Len(s) \in Nat /\ \A k \in 1 .. Len(s) : s[k] \in Frame /\ s[k].start < s[k].end
  BY DEF Filled
<1>. QED BY <1>1, FrameFacts

(* Later frames end later.                                                  *)
LEMMA LaidGrows ==
    ASSUME NEW c, NEW s, Filled(s), NEW g, Laid(c, s, g), NEW k \in 0 .. Len(s)
    PROVE  \A m \in 0 .. Len(s) : (k <= m => g[k] <= g[m]) /\ (k < m => g[k] < g[m])
<1>0. Len(s) \in Nat /\ \A m \in 1 .. Len(s) : s[m] \in Frame /\ s[m].start < s[m].end
  BY DEF Filled
<1> DEFINE T == {m \in Nat : m <= Len(s) /\ k < m => g[k] < g[m]}
<1>1. 0 \in T
  BY <1>0
<1>2. ASSUME NEW m \in T PROVE m + 1 \in T
  <2>. SUFFICES ASSUME m + 1 <= Len(s), k < m + 1 PROVE g[k] < g[m + 1]
    OBVIOUS
  <2>1. m \in Nat /\ m + 1 \in 1 .. Len(s) /\ m \in 0 .. Len(s) /\ (m + 1) - 1 = m
    BY <1>0
  <2>2. Held(s[m + 1]) \in Nat \ {0}
    BY <1>0, <2>1, FrameFacts
  <2>3. g[m + 1] = g[m] + Held(s[m + 1]) /\ g[m] \in Nat /\ g[k] \in Nat
    BY <2>1 DEF Laid
  <2>4. k = m \/ k < m
    BY <2>1
  <2>. QED BY <2>1, <2>2, <2>3, <2>4
<1>3. T \subseteq Nat
  OBVIOUS
<1>. HIDE DEF T
<1>4. \A m \in Nat : m \in T
  BY <1>1, <1>2, <1>3, AllNumbers
<1>5. g \in [0 .. Len(s) -> Nat]
  BY DEF Laid
<1>6. \A m \in 0 .. Len(s) : m \in Nat /\ m <= Len(s) /\ g[m] \in Nat
  BY ONLY <1>0, <1>5
<1>. QED BY <1>4, <1>6 DEF T

(* Every place is one in a frame.                                           *)
LEMMA FrameOf ==
    ASSUME NEW c, NEW s, Filled(s), NEW g, Laid(c, s, g), NEW i \in 1 .. Len(c)
    PROVE  \E k \in 1 .. Len(s) : \E j \in 1 .. Held(s[k]) : i = g[k - 1] + j
<1> DEFINE n == Len(s)
           T == {k \in 0 .. n : i <= g[k]}
<1>0. n \in Nat /\ g \in [0 .. n -> Nat] /\ g[0] = 0 /\ Len(c) = g[n] /\ c \in Seq(Value)
  BY DEF Filled, Laid
<1>1. T # {} /\ T \subseteq Nat
  BY <1>0
<1>2. PICK k \in T : \A m \in T : k <= m
  BY <1>1, LeastNumber
<1>3. k \in 1 .. n /\ k - 1 \in 0 .. n /\ k - 1 \notin T
  BY <1>0, <1>2
<1>4. i <= g[k] /\ ~(i <= g[k - 1]) /\ g[k] \in Nat /\ g[k - 1] \in Nat
  BY <1>0, <1>2, <1>3
<1>5. g[k] = g[k - 1] + Held(s[k]) /\ Held(s[k]) \in Nat
  BY <1>3, FrameFacts DEF Laid, Filled
<1>6. i - g[k - 1] \in 1 .. Held(s[k]) /\ i = g[k - 1] + (i - g[k - 1])
  BY <1>4, <1>5
<1>. QED BY <1>3, <1>6

(* And every place in a frame is one in the list.                           *)
LEMMA WithinLaid ==
    ASSUME NEW c, NEW s, Filled(s), NEW g, Laid(c, s, g),
           NEW k \in 1 .. Len(s), NEW j \in 1 .. Held(s[k])
    PROVE  g[k - 1] + j \in 1 .. Len(c)
<1>1. Len(s) \in Nat /\ k - 1 \in 0 .. Len(s) /\ k \in 0 .. Len(s) /\ Len(s) \in 0 .. Len(s)
  BY DEF Filled
<1>2. /\ g[k] = g[k - 1] + Held(s[k]) /\ Len(c) = g[Len(s)]
      /\ g[k] \in Nat /\ g[k - 1] \in Nat /\ g[Len(s)] \in Nat
  BY <1>1 DEF Laid
<1>3. Held(s[k]) \in Nat /\ j \in Nat /\ 1 <= j /\ j <= Held(s[k])
  BY FilledFacts
<1>4. g[k] <= g[Len(s)]
  <2>1. k <= Len(s)
    BY <1>1
  <2>. QED BY <1>1, <2>1, LaidGrows
<1>5. \A x, y, z, n, l \in Nat : x = y + z /\ 1 <= n /\ n <= z /\ x <= l => y + n \in 1 .. l
  OBVIOUS
<1>6. Len(c) \in Nat /\ g[k] <= Len(c)
  BY <1>2, <1>4
<1>. QED BY ONLY <1>2, <1>3, <1>5, <1>6

(* And of one frame only.                                                   *)
LEMMA FrameOnce ==
    ASSUME NEW c, NEW s, Filled(s), NEW g, Laid(c, s, g),
           NEW k \in 1 .. Len(s), NEW j \in 1 .. Held(s[k]),
           NEW m \in 1 .. Len(s), NEW i \in 1 .. Held(s[m]), g[k - 1] + j = g[m - 1] + i
    PROVE  k = m /\ j = i
<1>1. /\ Len(s) \in Nat /\ k - 1 \in 0 .. Len(s) /\ m - 1 \in 0 .. Len(s)
      /\ k \in 0 .. Len(s) /\ m \in 0 .. Len(s)
  BY DEF Filled
<1>2. /\ g[k] = g[k - 1] + Held(s[k]) /\ g[m] = g[m - 1] + Held(s[m])
      /\ g[k] \in Nat /\ g[m] \in Nat /\ g[k - 1] \in Nat /\ g[m - 1] \in Nat
  BY <1>1 DEF Laid
<1>3. /\ Held(s[k]) \in Nat /\ j \in Nat /\ 1 <= j /\ j <= Held(s[k])
      /\ Held(s[m]) \in Nat /\ i \in Nat /\ 1 <= i /\ i <= Held(s[m])
  BY FilledFacts
<1>4. \A x, y, z, n \in Nat : x = y + z /\ 1 <= n /\ n <= z => y + n <= x /\ y < y + n
  OBVIOUS
<1>5. /\ g[k - 1] + j <= g[k] /\ g[m - 1] + i <= g[m]
      /\ g[k - 1] < g[k - 1] + j /\ g[m - 1] < g[m - 1] + i
  BY ONLY <1>2, <1>3, <1>4
<1>6. ~(k <= m - 1)
  <2>1. k <= m - 1 => g[k] <= g[m - 1]
    BY <1>1, LaidGrows
  <2>. QED BY <1>2, <1>5, <2>1
<1>7. ~(m <= k - 1)
  <2>1. m <= k - 1 => g[m] <= g[k - 1]
    BY <1>1, LaidGrows
  <2>. QED BY <1>2, <1>5, <2>1
<1>8. k = m
  BY <1>1, <1>6, <1>7
<1>9. g[k - 1] + j = g[k - 1] + i
  BY <1>8
<1>. QED BY ONLY <1>2, <1>3, <1>8, <1>9

(* There is one way to list them.                                           *)
LEMMA LaidOnce ==
    ASSUME NEW c, NEW d, NEW s, Filled(s), NEW g, NEW h, Laid(c, s, g), Laid(d, s, h)
    PROVE  c = d
<1>0. Len(s) \in Nat /\ \A m \in 1 .. Len(s) : Held(s[m]) \in Nat
  BY FilledFacts
<1> DEFINE T == {m \in Nat : m <= Len(s) => g[m] = h[m]}
<1>1. 0 \in T
  BY DEF Laid
<1>2. ASSUME NEW m \in T PROVE m + 1 \in T
  <2>1. m \in Nat /\ (m + 1 <= Len(s) => m + 1 \in 1 .. Len(s) /\ m <= Len(s)) /\ (m + 1) - 1 = m
    BY <1>0
  <2>. QED BY <2>1 DEF Laid
<1>3. T \subseteq Nat
  OBVIOUS
<1>. HIDE DEF T
<1>4. \A m \in Nat : m \in T
  BY <1>1, <1>2, <1>3, AllNumbers
<1>5. \A m \in 0 .. Len(s) : g[m] = h[m]
  BY <1>0, <1>4 DEF T
<1>6. Len(c) = Len(d) /\ c \in Seq(Value) /\ d \in Seq(Value)
  BY <1>0, <1>5 DEF Laid
<1>7. ASSUME NEW i \in 1 .. Len(c) PROVE c[i] = d[i]
  <2>1. PICK k \in 1 .. Len(s) : \E j \in 1 .. Held(s[k]) : i = g[k - 1] + j
    BY FrameOf
  <2>2. k - 1 \in 0 .. Len(s)
    BY <1>0
  <2>3. PICK j \in 1 .. Held(s[k]) : i = g[k - 1] + j
    BY <2>1
  <2>. QED BY <1>5, <2>2, <2>3 DEF Laid
<1>. QED BY <1>6, <1>7

(* ContentsOf() lists them.                                                 *)
LEMMA ContentsLaid ==
    ASSUME NEW s, Filled(s)
    PROVE  \E g : Laid(ContentsOf(s), s, g)
<1> DEFINE n == Len(s)
           o == [k \in 1 .. n |-> Frames!Objects(s[k])]
           c == CHOOSE f : f = [k \in 0 .. n |-> IF k = 0 THEN <<>>
                                                 ELSE f[k - 1] \o Frames!Objects(s[k])]
<1>1. n \in Nat /\ \A k \in 1 .. n : s[k] \in Frame /\ s[k].start < s[k].end
  BY DEF Filled
<1>2. \A k \in 1 .. n : /\ Held(s[k]) \in Nat \ {0}
                        /\ Frames!Objects(s[k]) \in Seq(Value)
                        /\ Len(Frames!Objects(s[k])) = Held(s[k])
                        /\ \A j \in 1 .. Held(s[k]) : Frames!Objects(s[k])[j] = Jth(s[k], j)
  BY <1>1, FrameFacts
<1>3. /\ o \in [1 .. n -> Seq(Value)]
      /\ \A k \in 1 .. n : o[k] = Frames!Objects(s[k])
  BY <1>2
<1>. HIDE DEF n, o
<1>4. ASSUME NEW f
      PROVE  IsConcat(f, n, o) <=> f = [k \in 0 .. n |-> IF k = 0 THEN <<>>
                                                         ELSE f[k - 1] \o Frames!Objects(s[k])]
  <2>1. \A k \in 0 .. n : k # 0 => k \in 1 .. n
    BY <1>1
  <2>2. \A k \in 0 .. n : (IF k = 0 THEN <<>> ELSE f[k - 1] \o o[k]) =
                          (IF k = 0 THEN <<>> ELSE f[k - 1] \o Frames!Objects(s[k]))
    BY <1>3, <2>1, Zenon
  <2>3. [k \in 0 .. n |-> IF k = 0 THEN <<>> ELSE f[k - 1] \o o[k]] =
        [k \in 0 .. n |-> IF k = 0 THEN <<>> ELSE f[k - 1] \o Frames!Objects(s[k])]
    BY <2>2, Zenon
  <2>. QED BY <2>3, Zenon DEF IsConcat
<1>5. \E f : IsConcat(f, n, o)
  BY <1>1, <1>3, ConcatExists
<1>6. IsConcat(c, n, o)
  <2>1. PICK f : IsConcat(f, n, o)
    BY <1>5
  <2>2. f = [k \in 0 .. n |-> IF k = 0 THEN <<>> ELSE f[k - 1] \o Frames!Objects(s[k])]
    BY <1>4, <2>1, Zenon
  <2>3. c = [k \in 0 .. n |-> IF k = 0 THEN <<>> ELSE c[k - 1] \o Frames!Objects(s[k])]
    BY <2>2, Zenon
  <2>. QED BY <1>4, <2>3, Zenon
<1>7. ContentsOf(s) = c[n]
  BY Zenon DEF ContentsOf, n
<1>. HIDE DEF c
<1> DEFINE g == [k \in 0 .. n |-> Len(c[k])]
<1>8. /\ c \in [0 .. n -> Seq(Value)] /\ Len(c[0]) = 0
      /\ \A k \in 1 .. n : Len(c[k]) = Len(c[k - 1]) + Len(o[k])
      /\ \A k \in 1 .. n : \A j \in 1 .. Len(o[k]) : c[n][Len(c[k - 1]) + j] = o[k][j]
  <2>1. n \in Nat /\ o \in [1 .. n -> Seq(Value)]
    BY <1>1, <1>3
  <2>2. Joins(c, n, o, Value)
    BY ONLY <1>6, <2>1, ConcatFacts
  <2>. QED BY ONLY <2>2 DEF Joins
<1>9. \A k \in 0 .. n : g[k] = Len(c[k]) /\ Len(c[k]) \in Nat
  BY <1>8
<1>10. g \in [0 .. n -> Nat]
  BY <1>9
<1>11. n \in 0 .. n /\ 0 \in 0 .. n /\ \A k \in 1 .. n : k \in 0 .. n /\ k - 1 \in 0 .. n
  BY <1>1
<1>. HIDE DEF g
<1>12. \A k \in 1 .. n : Len(o[k]) = Held(s[k]) /\ \A j \in 1 .. Held(s[k]) : o[k][j] = Jth(s[k], j)
  BY <1>2, <1>3
<1>13. Laid(c[n], s, g)
  <2>1. c[n] \in Seq(Value) /\ Len(c[n]) = g[n] /\ g[0] = 0
    BY <1>8, <1>9, <1>11
  <2>2. \A k \in 1 .. n : g[k] = g[k - 1] + Held(s[k])
    BY <1>8, <1>9, <1>11, <1>12
  <2>3. ASSUME NEW k \in 1 .. n, NEW j \in 1 .. Held(s[k])
        PROVE  c[n][g[k - 1] + j] = Jth(s[k], j)
    <3>1. g[k - 1] = Len(c[k - 1]) /\ j \in 1 .. Len(o[k]) /\ o[k][j] = Jth(s[k], j)
      BY <1>9, <1>11, <1>12
    <3>. QED BY <1>8, <3>1
  <2>. QED BY <1>10, <2>1, <2>2, <2>3 DEF Laid, n
<1>. QED BY <1>7, <1>13

(* So whatever lists them is ContentsOf().                                  *)
LEMMA ContentsAre ==
    ASSUME NEW s, Filled(s), NEW c, NEW g, Laid(c, s, g)
    PROVE  ContentsOf(s) = c
<1>1. PICK h : Laid(ContentsOf(s), s, h)
  BY ContentsLaid
<1>. QED BY <1>1, LaidOnce

(* A list that is not empty begins with its head and ends with its last element. *)
LEMMA AtFront ==
    ASSUME NEW V, NEW s \in Seq(V), s # <<>>
    PROVE  /\ s = <<Head(s)>> \o Tail(s) /\ Head(s) = s[1]
           /\ Head(s) \in V /\ Tail(s) \in Seq(V) /\ Len(s) \in Nat \ {0}
  OBVIOUS

LEMMA AtBack ==
    ASSUME NEW V, NEW s \in Seq(V), s # <<>>
    PROVE  /\ s = Append(SubSeq(s, 1, Len(s) - 1), s[Len(s)])
           /\ s[Len(s)] \in V /\ SubSeq(s, 1, Len(s) - 1) \in Seq(V)
           /\ Len(s) \in Nat \ {0} /\ Len(SubSeq(s, 1, Len(s) - 1)) = Len(s) - 1
<1> DEFINE n == Len(s)
           f == SubSeq(s, 1, n - 1)
<1>1. n \in Nat \ {0} /\ \A i \in 1 .. n : s[i] \in V
  OBVIOUS
<1>2. n - 1 \in Int /\ 1 \in Int /\ (n - 1) - 1 + 1 = n - 1 /\ \A i \in 1 .. n - 1 : i \in 1 .. n
  BY <1>1
<1>3. /\ f \in Seq(V) /\ Len(f) = n - 1
      /\ \A i \in 1 .. n - 1 : f[i] = s[i]
  <2>. HIDE DEF n
  <2>1. \A i \in 1 .. n - 1 : s[i] \in V
    BY <1>1, <1>2
  <2>2. /\ f \in Seq(V) /\ Len(f) = IF 1 <= n - 1 THEN n - 1 - 1 + 1 ELSE 0
        /\ \A i \in 1 .. n - 1 - 1 + 1 : f[i] = s[1 + i - 1]
    BY <1>2, <2>1, SubSeqProperties
  <2>3. \A i \in 1 .. n - 1 : 1 + i - 1 = i
    BY <1>1
  <2>. QED BY <1>1, <1>2, <2>2, <2>3
<1>. HIDE DEF f
<1>4. s[n] \in V
  BY <1>1
<1>5. Append(f, s[n]) = s
  <2>1. /\ Append(f, s[n]) \in Seq(V) /\ Len(Append(f, s[n])) = (n - 1) + 1
        /\ \A i \in 1 .. n - 1 : Append(f, s[n])[i] = f[i]
        /\ Append(f, s[n])[(n - 1) + 1] = s[n]
    BY <1>3, <1>4, AppendProperties
  <2>2. (n - 1) + 1 = n /\ \A i \in 1 .. n : i \in 1 .. n - 1 \/ i = n
    BY <1>1
  <2>3. \A i \in 1 .. n : Append(f, s[n])[i] = s[i]
    BY <1>3, <2>1, <2>2
  <2>. QED BY <2>1, <2>2, <2>3, SeqEqual
<1>. QED BY <1>1, <1>3, <1>4, <1>5 DEF f

(* d is b after a.                                                          *)
Split(d, a, b, V) ==
    /\ d \in Seq(V) /\ Len(d) = Len(a) + Len(b) /\ Len(a) \in Nat /\ Len(b) \in Nat
    /\ \A i \in 1 .. Len(a) : d[i] = a[i]
    /\ \A j \in 1 .. Len(b) : d[Len(a) + j] = b[j]

LEMMA SplitFacts ==
    ASSUME NEW V, NEW a \in Seq(V), NEW b \in Seq(V), NEW d, d = a \o b
    PROVE  Split(d, a, b, V)
BY ConcatPlaces DEF Split

(* What comes of a frame in front of others, or behind them.                *)
LEMMA FrameInFront ==
    ASSUME NEW s, Filled(s), NEW x \in Frame, x.start < x.end
    PROVE  /\ Filled(<<x>> \o s)
           /\ ContentsOf(<<x>> \o s) = Frames!Objects(x) \o ContentsOf(s)
<1> DEFINE n == Len(s)
           t == <<x>> \o s
           e == Frames!Objects(x)
           p == Held(x)
<1>1. n \in Nat /\ s \in Seq(Frame) /\ \A k \in 1 .. n : s[k] \in Frame /\ s[k].start < s[k].end
  BY DEF Filled
<1>2. /\ t \in Seq(Frame) /\ Len(t) = n + 1 /\ t[1] = x
      /\ \A k \in 1 .. n : t[k + 1] = s[k]
  BY <1>1
<1>. HIDE DEF n, t
<1>3. \A m \in 1 .. n + 1 : m = 1 \/ (m - 1 \in 1 .. n /\ m = (m - 1) + 1)
  BY <1>1
<1>4. Filled(t)
  <2>1. \A k \in 1 .. n + 1 : t[k].start < t[k].end
    BY <1>1, <1>2, <1>3
  <2>. QED BY <1>2, <2>1 DEF Filled
<1>5. PICK c, g : c = ContentsOf(s) /\ Laid(c, s, g)
  BY ContentsLaid
<1>6. /\ p \in Nat \ {0} /\ e \in Seq(Value) /\ Len(e) = p /\ \A j \in 1 .. p : e[j] = Jth(x, j)
  BY FrameFacts
<1>. HIDE DEF p, e
<1>7. PICK d : d = e \o c
  OBVIOUS
<1>8. /\ d \in Seq(Value) /\ Len(d) = p + Len(c) /\ Len(c) \in Nat
      /\ \A i \in 1 .. p : d[i] = e[i]
      /\ \A j \in 1 .. Len(c) : d[p + j] = c[j]
  <2>1. c \in Seq(Value)
    BY <1>5 DEF Laid
  <2>2. Split(d, e, c, Value)
    BY ONLY <1>6, <1>7, <2>1, SplitFacts
  <2>. QED BY ONLY <1>6, <2>2 DEF Split
<1> DEFINE h == [k \in 0 .. n + 1 |-> IF k = 0 THEN 0 ELSE g[k - 1] + p]
<1>9. /\ Len(c) = g[n] /\ g \in [0 .. n -> Nat] /\ g[0] = 0
      /\ \A k \in 1 .. n : g[k] = g[k - 1] + Held(s[k])
      /\ \A k \in 1 .. n : \A j \in 1 .. Held(s[k]) : c[g[k - 1] + j] = Jth(s[k], j)
  BY <1>5 DEF Laid, n
<1>10. h \in [0 .. n + 1 -> Nat] /\ h[0] = 0 /\ \A k \in 1 .. n + 1 : h[k] = g[k - 1] + p
  <2>1. \A k \in 0 .. n + 1 : k = 0 \/ k - 1 \in 0 .. n
    BY <1>1
  <2>2. \A k \in 0 .. n + 1 : (IF k = 0 THEN 0 ELSE g[k - 1] + p) \in Nat
    BY <1>6, <1>9, <2>1
  <2>3. 0 \in 0 .. n + 1 /\ \A k \in 1 .. n + 1 : k \in 0 .. n + 1 /\ k # 0
    BY <1>1
  <2>. QED BY <2>2, <2>3
<1>. HIDE DEF h
<1>11. ASSUME NEW k \in 1 .. n + 1
       PROVE  /\ h[k] = h[k - 1] + Held(t[k])
              /\ \A j \in 1 .. Held(t[k]) : d[h[k - 1] + j] = Jth(t[k], j)
  <2>1. CASE k = 1
    <3>1. h[k] = p /\ h[k - 1] = 0 /\ t[k] = x /\ Held(t[k]) = p
      <4>1. h[1] = g[1 - 1] + p /\ 1 - 1 = 0
        BY <1>1, <1>10
      <4>. QED BY <1>2, <1>6, <1>9, <1>10, <2>1, <4>1 DEF p
    <3>. QED BY <1>6, <1>8, <3>1
  <2>2. CASE k # 1
    <3>1. PICK m \in 1 .. n : k = m + 1 /\ k - 1 = m /\ m - 1 \in 0 .. n /\ m \in 0 .. n /\ m \in 1 .. n + 1
      <4>1. k - 1 \in 1 .. n /\ k = (k - 1) + 1 /\ (k - 1) - 1 \in 0 .. n /\ k - 1 \in 0 .. n
            /\ k - 1 \in 1 .. n + 1
        BY <1>1, <2>2
      <4>. QED BY <4>1
    <3>2. /\ h[k] = g[m] + p /\ h[m] = g[m - 1] + p /\ t[k] = s[m] /\ g[m] = g[m - 1] + Held(s[m])
          /\ g[m] \in Nat /\ g[m - 1] \in Nat
      BY <1>2, <1>9, <1>10, <3>1
    <3>3. Held(s[m]) \in Nat
      BY <3>1, FilledFacts DEF n
    <3>4. ASSUME NEW j \in 1 .. Held(s[m]) PROVE d[h[m] + j] = Jth(s[m], j)
      <4>1. g[m - 1] + j \in 1 .. Len(c)
        BY <1>5, <3>1, WithinLaid DEF n
      <4>2. h[m] + j = p + (g[m - 1] + j)
        BY <1>6, <3>2, <3>3
      <4>3. d[p + (g[m - 1] + j)] = c[g[m - 1] + j]
        BY ONLY <1>8, <4>1, Zenon
      <4>4. c[g[m - 1] + j] = Jth(s[m], j)
        BY ONLY <1>9, <3>1
      <4>. QED BY ONLY <4>2, <4>3, <4>4
    <3>5. h[k] = h[m] + Held(s[m])
      BY ONLY <1>6, <3>2, <3>3
    <3>. QED BY <3>1, <3>2, <3>4, <3>5
  <2>. QED BY <2>1, <2>2
<1>12. Len(d) = h[n + 1]
  <2>1. h[n + 1] = g[n] + p /\ g[n] \in Nat
    BY <1>1, <1>9, <1>10
  <2>. QED BY <1>6, <1>8, <1>9, <2>1
<1>13. Laid(d, t, h)
  BY <1>2, <1>8, <1>10, <1>11, <1>12 DEF Laid
<1>14. ContentsOf(t) = d
  BY <1>4, <1>13, ContentsAre
<1>. QED BY <1>4, <1>5, <1>7, <1>14 DEF t, e

LEMMA FrameBehind ==
    ASSUME NEW s, Filled(s), NEW x \in Frame, x.start < x.end
    PROVE  /\ Filled(Append(s, x))
           /\ ContentsOf(Append(s, x)) = ContentsOf(s) \o Frames!Objects(x)
<1> DEFINE n == Len(s)
           t == Append(s, x)
           e == Frames!Objects(x)
           p == Held(x)
<1>1. n \in Nat /\ s \in Seq(Frame) /\ \A k \in 1 .. n : s[k] \in Frame /\ s[k].start < s[k].end
  BY DEF Filled
<1>2. /\ t \in Seq(Frame) /\ Len(t) = n + 1 /\ t[n + 1] = x
      /\ \A k \in 1 .. n : t[k] = s[k]
  BY <1>1
<1>. HIDE DEF n, t
<1>3. \A k \in 1 .. n + 1 : k = n + 1 \/ k \in 1 .. n
  BY <1>1
<1>4. Filled(t)
  <2>1. \A k \in 1 .. n + 1 : t[k].start < t[k].end
    BY <1>1, <1>2, <1>3
  <2>. QED BY <1>2, <2>1 DEF Filled
<1>5. PICK c, g : c = ContentsOf(s) /\ Laid(c, s, g)
  BY ContentsLaid
<1>6. /\ p \in Nat \ {0} /\ e \in Seq(Value) /\ Len(e) = p /\ \A j \in 1 .. p : e[j] = Jth(x, j)
  BY FrameFacts
<1>. HIDE DEF p, e
<1>7. PICK d : d = c \o e
  OBVIOUS
<1>8. /\ d \in Seq(Value) /\ Len(d) = Len(c) + p /\ Len(c) \in Nat
      /\ \A i \in 1 .. Len(c) : d[i] = c[i]
      /\ \A j \in 1 .. p : d[Len(c) + j] = e[j]
  <2>1. c \in Seq(Value)
    BY <1>5 DEF Laid
  <2>2. Split(d, c, e, Value)
    BY ONLY <1>6, <1>7, <2>1, SplitFacts
  <2>. QED BY ONLY <1>6, <2>2 DEF Split
<1> DEFINE h == [k \in 0 .. n + 1 |-> IF k = n + 1 THEN g[n] + p ELSE g[k]]
<1>9. /\ Len(c) = g[n] /\ g \in [0 .. n -> Nat] /\ g[0] = 0
      /\ \A k \in 1 .. n : g[k] = g[k - 1] + Held(s[k])
      /\ \A k \in 1 .. n : \A j \in 1 .. Held(s[k]) : c[g[k - 1] + j] = Jth(s[k], j)
  BY <1>5 DEF Laid, n
<1>10. h \in [0 .. n + 1 -> Nat] /\ h[n + 1] = g[n] + p /\ \A k \in 0 .. n : h[k] = g[k]
  <2>1. \A k \in 0 .. n + 1 : k = n + 1 \/ k \in 0 .. n
    BY <1>1
  <2>2. \A k \in 0 .. n + 1 : (IF k = n + 1 THEN g[n] + p ELSE g[k]) \in Nat
    BY <1>1, <1>6, <1>9, <2>1
  <2>3. n + 1 \in 0 .. n + 1 /\ \A k \in 0 .. n : k \in 0 .. n + 1 /\ k # n + 1
    BY <1>1
  <2>. QED BY <2>2, <2>3
<1>. HIDE DEF h
<1>11. ASSUME NEW k \in 1 .. n + 1
       PROVE  /\ h[k] = h[k - 1] + Held(t[k])
              /\ \A j \in 1 .. Held(t[k]) : d[h[k - 1] + j] = Jth(t[k], j)
  <2>1. CASE k = n + 1
    <3>1. k - 1 = n /\ n \in 0 .. n
      BY <1>1, <2>1
    <3>2. h[k] = g[n] + p /\ h[k - 1] = g[n] /\ t[k] = x /\ Held(t[k]) = p
      BY <1>2, <1>10, <2>1, <3>1 DEF p
    <3>3. \A j \in 1 .. p : d[g[n] + j] = Jth(x, j)
      <4>1. Len(c) = g[n] /\ \A j \in 1 .. p : d[Len(c) + j] = e[j] /\ e[j] = Jth(x, j)
        BY <1>6, <1>8, <1>9
      <4>. QED BY ONLY <4>1, Zenon
    <3>. QED BY ONLY <3>2, <3>3
  <2>2. CASE k # n + 1
    <3>1. k \in 1 .. n /\ k \in 0 .. n /\ k - 1 \in 0 .. n
      BY <1>1, <2>2
    <3>2. h[k] = g[k] /\ h[k - 1] = g[k - 1] /\ t[k] = s[k] /\ g[k] = g[k - 1] + Held(s[k])
      BY <1>2, <1>9, <1>10, <3>1
    <3>3. ASSUME NEW j \in 1 .. Held(s[k]) PROVE d[g[k - 1] + j] = Jth(s[k], j)
      <4>1. g[k - 1] + j \in 1 .. Len(c)
        BY <1>5, <3>1, WithinLaid DEF n
      <4>. QED BY <1>8, <1>9, <3>1, <4>1
    <3>. QED BY <3>2, <3>3
  <2>. QED BY <2>1, <2>2
<1>12. Len(d) = h[n + 1] /\ h[0] = 0
  BY <1>1, <1>8, <1>9, <1>10
<1>13. Laid(d, t, h)
  BY <1>2, <1>8, <1>10, <1>11, <1>12 DEF Laid
<1>14. ContentsOf(t) = d
  BY <1>4, <1>13, ContentsAre
<1>. QED BY <1>4, <1>5, <1>7, <1>14 DEF t, e

(* An object put first in a frame stands before those in it.                *)
LEMMA PutFirstFacts ==
    ASSUME NEW x \in Frame, x.start <= x.end, x.start > 0, NEW o \in Value, NEW y,
           y = Frames!PutFirst(x, o)
    PROVE  /\ y \in Frame /\ y.start = x.start - 1 /\ y.end = x.end /\ y.start < y.end
           /\ Frames!Objects(y) = <<o>> \o Frames!Objects(x)
<1>1. /\ x.start \in Nat /\ x.end \in Nat /\ x.end <= obj_per_frame /\ obj_per_frame \in Nat
      /\ x.obj \in [0 .. obj_per_frame - 1 -> Value]
      /\ x = [start |-> x.start, end |-> x.end, obj |-> x.obj]
  BY SizeAssumption DEF Frame
<1>2. y = [start |-> x.start - 1, end |-> x.end, obj |-> [x.obj EXCEPT ![x.start - 1] = o]]
  BY <1>1 DEF Frames!PutFirst
<1>3. x.start - 1 \in 0 .. obj_per_frame - 1 /\ x.start - 1 \in 0 .. obj_per_frame /\ x.end \in 0 .. obj_per_frame
  BY <1>1
<1>4. y \in Frame /\ y.start = x.start - 1 /\ y.end = x.end /\ y.obj = [x.obj EXCEPT ![x.start - 1] = o]
  BY <1>1, <1>2, <1>3 DEF Frame
<1>5. y.start < y.end
  BY <1>1, <1>4
<1>6. Held(y) = Held(x) + 1 /\ Held(x) \in Nat
  BY <1>1, <1>4 DEF Held
<1>7. Jth(y, 1) = o
  BY <1>1, <1>3, <1>4 DEF Jth
<1>8. ASSUME NEW j \in 1 .. Held(x) PROVE Jth(y, 1 + j) = Jth(x, j)
  <2>1. /\ x.start + j - 1 \in 0 .. obj_per_frame - 1 /\ x.start + j - 1 # x.start - 1
        /\ y.start + (1 + j) - 1 = x.start + j - 1
    BY <1>1, <1>4 DEF Held
  <2>. QED BY <1>1, <1>4, <2>1 DEF Jth
<1>9. PICK d : d = <<o>> \o Frames!Objects(x)
  OBVIOUS
<1>10. Frames!Objects(x) \in Seq(Value) /\ <<o>> \in Seq(Value) /\ Len(<<o>>) = 1 /\ <<o>>[1] = o
  BY SlotFacts
<1>11. Split(d, <<o>>, Frames!Objects(x), Value)
  BY ONLY <1>9, <1>10, SplitFacts
<1>12. /\ d \in Seq(Value) /\ Len(d) = 1 + Held(x) /\ d[1] = o
       /\ \A j \in 1 .. Held(x) : d[1 + j] = Jth(x, j)
  <2>1. /\ Len(Frames!Objects(x)) = Held(x)
        /\ \A j \in 1 .. Held(x) : Frames!Objects(x)[j] = Jth(x, j)
    BY SlotFacts
  <2>2. 1 \in 1 .. 1
    OBVIOUS
  <2>. QED BY ONLY <1>10, <1>11, <2>1, <2>2 DEF Split
<1>13. /\ Frames!Objects(y) \in Seq(Value) /\ Len(Frames!Objects(y)) = Held(y)
       /\ \A j \in 1 .. Held(y) : Frames!Objects(y)[j] = Jth(y, j)
  BY <1>1, <1>4, <1>5, SlotFacts
<1>14. ASSUME NEW i \in 1 .. Held(y) PROVE Frames!Objects(y)[i] = d[i]
  <2>1. i = 1 \/ (i - 1 \in 1 .. Held(x) /\ i = 1 + (i - 1))
    BY <1>6
  <2>. QED BY <1>7, <1>8, <1>12, <1>13, <2>1
<1>15. Frames!Objects(y) = d
  BY <1>6, <1>12, <1>13, <1>14, SeqEqual
<1>. QED BY <1>4, <1>5, <1>9, <1>15

(* And one put last, behind them.                                           *)
LEMMA PutLastFacts ==
    ASSUME NEW x \in Frame, x.start <= x.end, x.end < obj_per_frame, NEW o \in Value, NEW y,
           y = Frames!PutLast(x, o)
    PROVE  /\ y \in Frame /\ y.start = x.start /\ y.end = x.end + 1 /\ y.start < y.end
           /\ Frames!Objects(y) = Frames!Objects(x) \o <<o>>
<1>1. /\ x.start \in Nat /\ x.end \in Nat /\ x.end <= obj_per_frame /\ obj_per_frame \in Nat
      /\ x.obj \in [0 .. obj_per_frame - 1 -> Value]
      /\ x = [start |-> x.start, end |-> x.end, obj |-> x.obj]
  BY SizeAssumption DEF Frame
<1>2. y = [start |-> x.start, end |-> x.end + 1, obj |-> [x.obj EXCEPT ![x.end] = o]]
  BY <1>1 DEF Frames!PutLast
<1>3. x.end \in 0 .. obj_per_frame - 1 /\ x.end + 1 \in 0 .. obj_per_frame /\ x.start \in 0 .. obj_per_frame
  BY <1>1
<1>4. y \in Frame /\ y.start = x.start /\ y.end = x.end + 1 /\ y.obj = [x.obj EXCEPT ![x.end] = o]
  BY <1>1, <1>2, <1>3 DEF Frame
<1>5. y.start < y.end
  BY <1>1, <1>4
<1>6. Held(y) = Held(x) + 1 /\ Held(x) \in Nat
  BY <1>1, <1>4 DEF Held
<1>7. Jth(y, Held(x) + 1) = o
  <2>1. y.start + (Held(x) + 1) - 1 = x.end
    BY <1>1, <1>4 DEF Held
  <2>. QED BY <1>1, <1>3, <1>4, <2>1 DEF Jth
<1>8. ASSUME NEW j \in 1 .. Held(x) PROVE Jth(y, j) = Jth(x, j)
  <2>1. /\ x.start + j - 1 \in 0 .. obj_per_frame - 1 /\ x.start + j - 1 # x.end
    BY <1>1 DEF Held
  <2>. QED BY <1>1, <1>4, <2>1 DEF Jth
<1>9. PICK d : d = Frames!Objects(x) \o <<o>>
  OBVIOUS
<1>10. Frames!Objects(x) \in Seq(Value) /\ <<o>> \in Seq(Value) /\ Len(<<o>>) = 1 /\ <<o>>[1] = o
  BY SlotFacts
<1>11. Split(d, Frames!Objects(x), <<o>>, Value)
  BY ONLY <1>9, <1>10, SplitFacts
<1>12. /\ d \in Seq(Value) /\ Len(d) = Held(x) + 1 /\ d[Held(x) + 1] = o
       /\ \A j \in 1 .. Held(x) : d[j] = Jth(x, j)
  <2>1. /\ Len(Frames!Objects(x)) = Held(x)
        /\ \A j \in 1 .. Held(x) : Frames!Objects(x)[j] = Jth(x, j)
    BY SlotFacts
  <2>2. 1 \in 1 .. 1
    OBVIOUS
  <2>. QED BY ONLY <1>10, <1>11, <2>1, <2>2 DEF Split
<1>13. /\ Frames!Objects(y) \in Seq(Value) /\ Len(Frames!Objects(y)) = Held(y)
       /\ \A j \in 1 .. Held(y) : Frames!Objects(y)[j] = Jth(y, j)
  BY <1>1, <1>4, <1>5, SlotFacts
<1>14. ASSUME NEW i \in 1 .. Held(y) PROVE Frames!Objects(y)[i] = d[i]
  <2>1. i = Held(x) + 1 \/ i \in 1 .. Held(x)
    BY <1>6
  <2>. QED BY <1>7, <1>8, <1>12, <1>13, <2>1
<1>15. Frames!Objects(y) = d
  BY <1>6, <1>12, <1>13, <1>14, SeqEqual
<1>. QED BY <1>4, <1>5, <1>9, <1>15

(* The frames after x is put in front of r, behind it; an empty one is not kept. *)
InFront(x, r) == IF x.start = x.end THEN r ELSE <<x>> \o r

Behind(r, x) == IF x.start = x.end THEN r ELSE Append(r, x)

(* Filled frames hold objects.                                              *)
LEMMA ContentsType ==
    ASSUME NEW s, Filled(s)
    PROVE  ContentsOf(s) \in Seq(Value)
<1>1. PICK g : Laid(ContentsOf(s), s, g)
  BY ContentsLaid
<1>. QED BY <1>1 DEF Laid

LEMMA HeadGrows ==
    ASSUME NEW r, Filled(r), NEW x \in Frame, x.start <= x.end, x.start > 0, NEW o \in Value,
           NEW y, y = Frames!PutFirst(x, o)
    PROVE  /\ Filled(<<y>> \o r) /\ Filled(InFront(x, r))
           /\ ContentsOf(<<y>> \o r) = <<o>> \o ContentsOf(InFront(x, r))
<1>1. y \in Frame /\ y.start < y.end /\ Frames!Objects(y) = <<o>> \o Frames!Objects(x)
  BY PutFirstFacts
<1>2. Filled(<<y>> \o r) /\ ContentsOf(<<y>> \o r) = Frames!Objects(y) \o ContentsOf(r)
  BY <1>1, FrameInFront
<1>3. Frames!Objects(x) \in Seq(Value) /\ <<o>> \in Seq(Value) /\ ContentsOf(r) \in Seq(Value)
  BY SlotFacts, ContentsType
<1>4. (<<o>> \o Frames!Objects(x)) \o ContentsOf(r) = <<o>> \o (Frames!Objects(x) \o ContentsOf(r))
  BY ONLY <1>3, ConcatAssociative
<1>5. CASE x.start = x.end
  <2>1. InFront(x, r) = r
    BY <1>5 DEF InFront
  <2>2. Len(Frames!Objects(x)) = 0
    BY <1>5, SlotFacts DEF Held, Frame
  <2>3. Frames!Objects(x) = <<>>
    BY ONLY <1>3, <2>2, EmptySeq
  <2>4. <<>> \o ContentsOf(r) = ContentsOf(r)
    BY ONLY <1>3, ConcatEmptySeq
  <2>. QED BY <1>1, <1>2, <1>4, <2>1, <2>3, <2>4
<1>6. CASE x.start # x.end
  <2>1. InFront(x, r) = <<x>> \o r /\ x.start < x.end
    BY <1>6 DEF InFront, Frame
  <2>2. Filled(<<x>> \o r) /\ ContentsOf(<<x>> \o r) = Frames!Objects(x) \o ContentsOf(r)
    BY <2>1, FrameInFront
  <2>. QED BY <1>1, <1>2, <1>4, <2>1, <2>2
<1>. QED BY <1>5, <1>6

LEMMA TailGrows ==
    ASSUME NEW r, Filled(r), NEW x \in Frame, x.start <= x.end, x.end < obj_per_frame,
           NEW o \in Value, NEW y, y = Frames!PutLast(x, o)
    PROVE  /\ Filled(Append(r, y)) /\ Filled(Behind(r, x))
           /\ ContentsOf(Append(r, y)) = Append(ContentsOf(Behind(r, x)), o)
<1>1. y \in Frame /\ y.start < y.end /\ Frames!Objects(y) = Frames!Objects(x) \o <<o>>
  BY PutLastFacts
<1>2. Filled(Append(r, y)) /\ ContentsOf(Append(r, y)) = ContentsOf(r) \o Frames!Objects(y)
  BY <1>1, FrameBehind
<1>3. Frames!Objects(x) \in Seq(Value) /\ <<o>> \in Seq(Value) /\ ContentsOf(r) \in Seq(Value)
  BY SlotFacts, ContentsType
<1>4. ContentsOf(r) \o (Frames!Objects(x) \o <<o>>) = (ContentsOf(r) \o Frames!Objects(x)) \o <<o>>
  BY ONLY <1>3, ConcatAssociative
<1>5. Filled(Behind(r, x)) /\ ContentsOf(Behind(r, x)) = ContentsOf(r) \o Frames!Objects(x)
  <2>1. CASE x.start = x.end
    <3>1. Behind(r, x) = r
      BY <2>1 DEF Behind
    <3>2. Len(Frames!Objects(x)) = 0
      BY <2>1, SlotFacts DEF Held, Frame
    <3>3. Frames!Objects(x) = <<>>
      BY ONLY <1>3, <3>2, EmptySeq
    <3>4. ContentsOf(r) \o <<>> = ContentsOf(r)
      BY ONLY <1>3, ConcatEmptySeq
    <3>. QED BY <3>1, <3>3, <3>4
  <2>2. CASE x.start # x.end
    <3>1. Behind(r, x) = Append(r, x) /\ x.start < x.end
      BY <2>2 DEF Behind, Frame
    <3>. QED BY <3>1, FrameBehind
  <2>. QED BY <2>1, <2>2
<1>6. Append(ContentsOf(Behind(r, x)), o) = ContentsOf(Behind(r, x)) \o <<o>>
  <2>1. ContentsOf(Behind(r, x)) \in Seq(Value)
    BY <1>5, ContentsType
  <2>. QED BY ONLY <2>1, o \in Value, AppendIsConcat
<1>. QED BY <1>1, <1>2, <1>4, <1>5, <1>6

\* No slot between two objects is left out.
Shaped(s) ==
    \A k \in 1 .. Len(s) : /\ k > 1 => s[k].start = 0
                           /\ k < Len(s) => s[k].end = obj_per_frame

\* A frame y and the frames r behind it, a frame y and the frames r before it, meet.
MeetsFront(y, r) == r = <<>> \/ (y.end = obj_per_frame /\ r[1].start = 0)

MeetsBack(r, y) == r = <<>> \/ (r[Len(r)].end = obj_per_frame /\ y.start = 0)

LEMMA ShapedFront ==
    ASSUME NEW r \in Seq(Frame), NEW y \in Frame
    PROVE  Shaped(<<y>> \o r) <=> (Shaped(r) /\ MeetsFront(y, r))
<1> DEFINE n == Len(r)
           t == <<y>> \o r
<1>1. n \in Nat /\ Len(t) = n + 1 /\ t[1] = y /\ (\A k \in 1 .. n : t[k + 1] = r[k])
      /\ (r = <<>> <=> n = 0)
  OBVIOUS
<1>. HIDE DEF n, t
<1>2. \A m \in 1 .. n + 1 : m = 1 \/ (m - 1 \in 1 .. n /\ m = (m - 1) + 1)
  BY <1>1
<1>3. ASSUME Shaped(t) PROVE Shaped(r) /\ MeetsFront(y, r)
  <2>1. \A k \in 1 .. n + 1 : /\ k > 1 => t[k].start = 0
                              /\ k < n + 1 => t[k].end = obj_per_frame
    BY <1>1, <1>3 DEF Shaped
  <2>2. \A k \in 1 .. n : k + 1 \in 1 .. n + 1 /\ k + 1 > 1 /\ (k < n => k + 1 < n + 1)
    BY <1>1
  <2>3. \A k \in 1 .. n : r[k].start = 0 /\ (k < n => r[k].end = obj_per_frame)
    BY <1>1, <2>1, <2>2
  <2>4. n # 0 => 1 \in 1 .. n /\ 1 \in 1 .. n + 1 /\ 1 < n + 1
    BY <1>1
  <2>. QED BY <1>1, <2>1, <2>3, <2>4 DEF Shaped, MeetsFront, n
<1>4. ASSUME Shaped(r), MeetsFront(y, r) PROVE Shaped(t)
  <2>1. \A k \in 1 .. n : /\ k > 1 => r[k].start = 0
                          /\ k < n => r[k].end = obj_per_frame
    BY <1>4 DEF Shaped, n
  <2>2. n = 0 \/ (y.end = obj_per_frame /\ r[1].start = 0)
    BY <1>1, <1>4 DEF MeetsFront
  <2>3. ASSUME NEW k \in 1 .. n + 1
        PROVE  (k > 1 => t[k].start = 0) /\ (k < n + 1 => t[k].end = obj_per_frame)
    <3>1. CASE k = 1
      <4>1. ~(k > 1) /\ (k < n + 1 => n # 0)
        BY <1>1, <3>1
      <4>. QED BY <1>1, <2>2, <3>1, <4>1
    <3>2. CASE k - 1 \in 1 .. n /\ k = (k - 1) + 1
      <4>1. t[k] = r[k - 1] /\ (k < n + 1 => k - 1 < n) /\ (k - 1 = 1 \/ k - 1 > 1) /\ n # 0
        BY <1>1, <3>2
      <4>. QED BY <2>1, <2>2, <3>2, <4>1
    <3>. QED BY <1>2, <3>1, <3>2
  <2>. QED BY <1>1, <2>3 DEF Shaped
<1>. QED BY <1>3, <1>4 DEF t

LEMMA ShapedBack ==
    ASSUME NEW r \in Seq(Frame), NEW y \in Frame
    PROVE  Shaped(Append(r, y)) <=> (Shaped(r) /\ MeetsBack(r, y))
<1> DEFINE n == Len(r)
           t == Append(r, y)
<1>1. n \in Nat /\ Len(t) = n + 1 /\ t[n + 1] = y /\ (\A k \in 1 .. n : t[k] = r[k])
      /\ (r = <<>> <=> n = 0)
  OBVIOUS
<1>. HIDE DEF n, t
<1>2. \A m \in 1 .. n + 1 : m = n + 1 \/ m \in 1 .. n
  BY <1>1
<1>3. ASSUME Shaped(t) PROVE Shaped(r) /\ MeetsBack(r, y)
  <2>1. \A k \in 1 .. n + 1 : /\ k > 1 => t[k].start = 0
                              /\ k < n + 1 => t[k].end = obj_per_frame
    BY <1>1, <1>3 DEF Shaped
  <2>2. \A k \in 1 .. n : k \in 1 .. n + 1 /\ k < n + 1
    BY <1>1
  <2>3. \A k \in 1 .. n : r[k].end = obj_per_frame /\ (k > 1 => r[k].start = 0)
    BY <1>1, <2>1, <2>2
  <2>4. n # 0 => n \in 1 .. n /\ n + 1 \in 1 .. n + 1 /\ n + 1 > 1
    BY <1>1
  <2>. QED BY <1>1, <2>1, <2>3, <2>4 DEF Shaped, MeetsBack, n
<1>4. ASSUME Shaped(r), MeetsBack(r, y) PROVE Shaped(t)
  <2>1. \A k \in 1 .. n : /\ k > 1 => r[k].start = 0
                          /\ k < n => r[k].end = obj_per_frame
    BY <1>4 DEF Shaped, n
  <2>2. n = 0 \/ (r[n].end = obj_per_frame /\ y.start = 0)
    BY <1>1, <1>4 DEF MeetsBack, n
  <2>3. ASSUME NEW k \in 1 .. n + 1
        PROVE  (k > 1 => t[k].start = 0) /\ (k < n + 1 => t[k].end = obj_per_frame)
    <3>1. CASE k = n + 1
      <4>1. ~(k < n + 1) /\ (k > 1 => n # 0)
        BY <1>1, <3>1
      <4>. QED BY <1>1, <2>2, <3>1, <4>1
    <3>2. CASE k \in 1 .. n
      <4>1. t[k] = r[k] /\ (k = n \/ k < n) /\ n # 0
        BY <1>1, <3>2
      <4>. QED BY <2>1, <2>2, <3>2, <4>1
    <3>. QED BY <1>2, <3>1, <3>2
  <2>. QED BY <1>1, <2>3 DEF Shaped
<1>. QED BY <1>3, <1>4 DEF t

(* To replace the first, the last element.                                  *)
LEMMA ReplaceFirst ==
    ASSUME NEW V, NEW s \in Seq(V), s # <<>>, NEW y \in V
    PROVE  [s EXCEPT ![1] = y] = <<y>> \o Tail(s)
<1> DEFINE n == Len(s)
           r == Tail(s)
           t == <<y>> \o r
           e == [s EXCEPT ![1] = y]
<1>1. /\ n \in Nat \ {0} /\ r \in Seq(V) /\ Len(r) = n - 1 /\ \A i \in 1 .. n - 1 : r[i] = s[i + 1]
  BY HeadTailProperties, EmptySeq
<1>2. e \in Seq(V) /\ Len(e) = n /\ \A j \in 1 .. n : e[j] = IF j = 1 THEN y ELSE s[j]
  BY <1>1, ExceptSeq
<1>. HIDE DEF r, e, n
<1>3. t \in Seq(V) /\ Len(t) = n /\ t[1] = y /\ \A i \in 1 .. n - 1 : t[i + 1] = r[i]
  BY <1>1
<1>. HIDE DEF t
<1>4. ASSUME NEW j \in 1 .. n PROVE e[j] = t[j]
  <2>1. CASE j = 1
    BY <1>2, <1>3, <2>1
  <2>2. CASE j # 1
    <3>1. j - 1 \in 1 .. n - 1 /\ (j - 1) + 1 = j
      BY <1>1, <2>2
    <3>2. t[(j - 1) + 1] = r[j - 1] /\ r[j - 1] = s[(j - 1) + 1]
      BY ONLY <1>1, <1>3, <3>1, Zenon
    <3>. QED BY <1>2, <2>2, <3>1, <3>2
  <2>. QED BY <2>1, <2>2
<1>5. e = t
  BY <1>2, <1>3, <1>4, SeqEqual
<1>. QED BY <1>5 DEF e, t, r

LEMMA ReplaceLast ==
    ASSUME NEW V, NEW s \in Seq(V), s # <<>>, NEW y \in V
    PROVE  [s EXCEPT ![Len(s)] = y] = Append(SubSeq(s, 1, Len(s) - 1), y)
<1> DEFINE n == Len(s)
           r == SubSeq(s, 1, n - 1)
           t == Append(r, y)
           e == [s EXCEPT ![n] = y]
<1>1. /\ n \in Nat \ {0} /\ r \in Seq(V) /\ Len(r) = n - 1 /\ s = Append(r, s[n]) /\ s[n] \in V
  BY AtBack
<1>2. e \in Seq(V) /\ Len(e) = n /\ \A j \in 1 .. n : e[j] = IF j = n THEN y ELSE s[j]
  <2>1. n \in 1 .. Len(s)
    BY <1>1
  <2>. QED BY <2>1, ExceptSeq
<1>. HIDE DEF r, e, n
<1>3. \A i \in 1 .. n - 1 : r[i] = s[i]
  BY <1>1, AppendProperties
<1>4. t \in Seq(V) /\ Len(t) = n /\ t[n] = y /\ \A i \in 1 .. n - 1 : t[i] = r[i]
  <2>1. /\ t \in Seq(V) /\ Len(t) = (n - 1) + 1 /\ t[(n - 1) + 1] = y
        /\ \A i \in 1 .. n - 1 : t[i] = r[i]
    BY <1>1, AppendProperties
  <2>2. (n - 1) + 1 = n
    BY <1>1
  <2>. QED BY <2>1, <2>2
<1>. HIDE DEF t
<1>5. ASSUME NEW j \in 1 .. n PROVE e[j] = t[j]
  <2>1. j = n \/ (j \in 1 .. n - 1 /\ j # n)
    BY <1>1
  <2>. QED BY <1>2, <1>3, <1>4, <2>1
<1>6. e = t
  BY <1>2, <1>4, <1>5, SeqEqual
<1>. QED BY <1>6 DEF e, t, r, n

LEMMA FrameNumbers ==
    ASSUME NEW f \in Frame
    PROVE  /\ f.start \in Nat /\ f.end \in Nat /\ f.start <= obj_per_frame /\ f.end <= obj_per_frame
           /\ (f.start < f.end => f.start <= f.end /\ f.start # f.end)
BY SizeAssumption DEF Frame

LEMMA FilledAt ==
    ASSUME NEW s, Filled(s), NEW k \in 1 .. Len(s)
    PROVE  s[k] \in Frame /\ s[k].start < s[k].end
BY DEF Filled

LEMMA PutForms ==
    ASSUME NEW f \in Frame, NEW o
    PROVE  /\ Frames!PutFirst(f, o) = [start |-> f.start - 1, end |-> f.end,
                                       obj |-> [f.obj EXCEPT ![f.start - 1] = o]]
           /\ Frames!PutLast(f, o) = [start |-> f.start, end |-> f.end + 1,
                                      obj |-> [f.obj EXCEPT ![f.end] = o]]
<1>1. /\ f = [start |-> f.start, end |-> f.end, obj |-> f.obj]
      /\ f.obj \in [0 .. obj_per_frame - 1 -> Value] /\ f.start \in Nat /\ f.end \in Nat
  BY FrameNumbers DEF Frame
<1>2. PICK y, z : y = Frames!PutFirst(f, o) /\ z = Frames!PutLast(f, o)
  OBVIOUS
<1>3. y = [start |-> f.start - 1, end |-> f.end, obj |-> [f.obj EXCEPT ![f.start - 1] = o]]
  BY <1>1, <1>2 DEF Frames!PutFirst
<1>4. z = [start |-> f.start, end |-> f.end + 1, obj |-> [f.obj EXCEPT ![f.end] = o]]
  BY <1>1, <1>2 DEF Frames!PutLast
<1>. QED BY <1>2, <1>3, <1>4

(* Without the first, the last frame, the others hold objects as before.    *)
LEMMA FilledTail ==
    ASSUME NEW s, Filled(s), s # <<>>
    PROVE  Filled(Tail(s))
<1>1. s \in Seq(Frame) /\ Len(s) \in Nat /\ \A k \in 1 .. Len(s) : s[k].start < s[k].end
  BY DEF Filled
<1>2. PICK r : r = Tail(s)
  OBVIOUS
<1>3. /\ r \in Seq(Frame) /\ Len(r) = Len(s) - 1 /\ \A i \in 1 .. Len(r) : r[i] = s[i + 1]
  BY <1>1, <1>2, HeadTailProperties
<1>4. \A i \in 1 .. Len(r) : i + 1 \in 1 .. Len(s)
  BY <1>1, <1>3
<1>. QED BY <1>1, <1>2, <1>3, <1>4 DEF Filled

LEMMA FilledFront ==
    ASSUME NEW s, Filled(s), s # <<>>
    PROVE  Filled(SubSeq(s, 1, Len(s) - 1))
<1>1. s \in Seq(Frame) /\ Len(s) \in Nat /\ \A k \in 1 .. Len(s) : s[k].start < s[k].end
  BY DEF Filled
<1>2. PICK r : r = SubSeq(s, 1, Len(s) - 1)
  OBVIOUS
<1>3. /\ r \in Seq(Frame) /\ Len(r) = Len(s) - 1 /\ s = Append(r, s[Len(s)]) /\ s[Len(s)] \in Frame
  BY <1>1, <1>2, AtBack
<1>4. \A i \in 1 .. Len(r) : Append(r, s[Len(s)])[i] = r[i]
  BY <1>3, AppendProperties
<1>5. \A i \in 1 .. Len(r) : r[i] = s[i]
  BY ONLY <1>3, <1>4
<1>6. \A i \in 1 .. Len(r) : i \in 1 .. Len(s)
  BY <1>1, <1>3
<1>. QED BY <1>1, <1>2, <1>3, <1>5, <1>6 DEF Filled

(* What the pushes make of the frames s, with a fresh frame a.              *)
LEMMA HeadPushed ==
    ASSUME NEW s, Filled(s), Shaped(s), NEW o \in Value,
           NEW a \in Frame, a.start = obj_per_frame, a.end = obj_per_frame,
           NEW t, t = IF s # <<>> /\ s[1].start > 0
                      THEN [s EXCEPT ![1] = Frames!PutFirst(s[1], o)]
                      ELSE <<Frames!PutFirst(a, o)>> \o s
    PROVE  Filled(t) /\ Shaped(t) /\ ContentsOf(t) = <<o>> \o ContentsOf(s)
<1>0. obj_per_frame \in Nat \ {0}
  BY SizeAssumption
<1>1. s \in Seq(Frame) /\ Len(s) \in Nat /\ (s # <<>> => Len(s) # 0 /\ 1 \in 1 .. Len(s))
  BY DEF Filled
<1>2. CASE s # <<>> /\ s[1].start > 0
  <2>1. PICK x : x = s[1]
    OBVIOUS
  <2>2. x \in Frame /\ x.start < x.end /\ x.start <= x.end /\ x.start # x.end /\ x.start > 0
    BY <1>1, <1>2, <2>1, FilledAt, FrameNumbers
  <2>3. PICK y : y = Frames!PutFirst(x, o)
    OBVIOUS
  <2>4. y \in Frame /\ y.end = x.end
    BY <2>2, <2>3, PutFirstFacts
  <2>5. PICK r : r = Tail(s)
    OBVIOUS
  <2>6. s = <<x>> \o r /\ r \in Seq(Frame)
    BY <1>1, <1>2, <2>1, <2>5, AtFront
  <2>7. t = <<y>> \o r
    BY <1>1, <1>2, <2>1, <2>3, <2>4, <2>5, ReplaceFirst
  <2>8. Filled(r)
    BY <1>2, <2>5, <2>6, FilledTail
  <2>9. InFront(x, r) = s
    BY <2>2, <2>6 DEF InFront
  <2>10. Filled(t) /\ ContentsOf(t) = <<o>> \o ContentsOf(s)
    <3>1. /\ Filled(<<y>> \o r)
          /\ ContentsOf(<<y>> \o r) = <<o>> \o ContentsOf(InFront(x, r))
      BY <2>2, <2>3, <2>8, HeadGrows
    <3>. QED BY ONLY <2>7, <2>9, <3>1, Zenon
  <2>11. Shaped(r) /\ MeetsFront(x, r)
    BY <2>2, <2>6, ShapedFront
  <2>12. MeetsFront(y, r)
    BY <2>4, <2>11 DEF MeetsFront
  <2>. QED BY <2>4, <2>6, <2>7, <2>10, <2>11, <2>12, ShapedFront
<1>3. CASE ~(s # <<>> /\ s[1].start > 0)
  <2>1. PICK y : y = Frames!PutFirst(a, o)
    OBVIOUS
  <2>2. a.start <= a.end /\ a.start > 0
    BY <1>0
  <2>3. y \in Frame /\ y.end = obj_per_frame
    BY <2>1, <2>2, PutFirstFacts
  <2>4. t = <<y>> \o s /\ InFront(a, s) = s
    BY <1>3, <2>1 DEF InFront
  <2>5. Filled(t) /\ ContentsOf(t) = <<o>> \o ContentsOf(s)
    <3>1. /\ Filled(<<y>> \o s)
          /\ ContentsOf(<<y>> \o s) = <<o>> \o ContentsOf(InFront(a, s))
      BY <2>1, <2>2, HeadGrows
    <3>. QED BY ONLY <2>4, <3>1, Zenon
  <2>6. MeetsFront(y, s)
    <3>1. s # <<>> => s[1].start \in Nat
      BY <1>1, FilledAt, FrameNumbers
    <3>. QED BY <1>3, <2>3, <3>1 DEF MeetsFront
  <2>. QED BY <1>1, <2>3, <2>4, <2>5, <2>6, ShapedFront
<1>. QED BY <1>2, <1>3

LEMMA TailPushed ==
    ASSUME NEW s, Filled(s), Shaped(s), NEW o \in Value,
           NEW a \in Frame, a.start = 0, a.end = 0,
           NEW t, t = IF s # <<>> /\ s[Len(s)].end < obj_per_frame
                      THEN [s EXCEPT ![Len(s)] = Frames!PutLast(s[Len(s)], o)]
                      ELSE Append(s, Frames!PutLast(a, o))
    PROVE  Filled(t) /\ Shaped(t) /\ ContentsOf(t) = Append(ContentsOf(s), o)
<1>0. obj_per_frame \in Nat \ {0}
  BY SizeAssumption
<1>1. s \in Seq(Frame) /\ Len(s) \in Nat /\ (s # <<>> => Len(s) # 0 /\ Len(s) \in 1 .. Len(s))
  BY DEF Filled
<1>2. CASE s # <<>> /\ s[Len(s)].end < obj_per_frame
  <2>1. PICK x : x = s[Len(s)]
    OBVIOUS
  <2>2. x \in Frame /\ x.start < x.end /\ x.start <= x.end /\ x.start # x.end /\ x.end < obj_per_frame
    BY <1>1, <1>2, <2>1, FilledAt, FrameNumbers
  <2>3. PICK y : y = Frames!PutLast(x, o)
    OBVIOUS
  <2>4. y \in Frame /\ y.start = x.start
    BY <2>2, <2>3, PutLastFacts
  <2>5. PICK r : r = SubSeq(s, 1, Len(s) - 1)
    OBVIOUS
  <2>6. s = Append(r, x) /\ r \in Seq(Frame)
    BY <1>1, <1>2, <2>1, <2>5, AtBack
  <2>7. t = Append(r, y)
    BY <1>1, <1>2, <2>1, <2>3, <2>4, <2>5, ReplaceLast
  <2>8. Filled(r)
    BY <1>2, <2>5, <2>6, FilledFront
  <2>9. Behind(r, x) = s
    BY <2>2, <2>6 DEF Behind
  <2>10. Filled(t) /\ ContentsOf(t) = Append(ContentsOf(s), o)
    <3>1. /\ Filled(Append(r, y))
          /\ ContentsOf(Append(r, y)) = Append(ContentsOf(Behind(r, x)), o)
      BY <2>2, <2>3, <2>8, TailGrows
    <3>. QED BY ONLY <2>7, <2>9, <3>1, Zenon
  <2>11. Shaped(r) /\ MeetsBack(r, x)
    BY <2>2, <2>6, ShapedBack
  <2>12. MeetsBack(r, y)
    BY <2>4, <2>11 DEF MeetsBack
  <2>13. Shaped(t)
    <3>1. Shaped(Append(r, y))
      BY <2>4, <2>6, <2>11, <2>12, ShapedBack
    <3>. QED BY ONLY <2>7, <3>1, Zenon
  <2>. QED BY ONLY <2>10, <2>13
<1>3. CASE ~(s # <<>> /\ s[Len(s)].end < obj_per_frame)
  <2>1. PICK y : y = Frames!PutLast(a, o)
    OBVIOUS
  <2>2. a.start <= a.end /\ a.end < obj_per_frame
    BY <1>0
  <2>3. y \in Frame /\ y.start = 0
    BY <2>1, <2>2, PutLastFacts
  <2>4. t = Append(s, y) /\ Behind(s, a) = s
    BY <1>3, <2>1 DEF Behind
  <2>5. Filled(t) /\ ContentsOf(t) = Append(ContentsOf(s), o)
    <3>1. /\ Filled(Append(s, y))
          /\ ContentsOf(Append(s, y)) = Append(ContentsOf(Behind(s, a)), o)
      BY <2>1, <2>2, TailGrows
    <3>. QED BY ONLY <2>4, <3>1, Zenon
  <2>6. MeetsBack(s, y)
    <3>1. s # <<>> => s[Len(s)].end \in Nat /\ s[Len(s)].end <= obj_per_frame
      BY <1>1, FilledAt, FrameNumbers
    <3>. QED BY <1>0, <1>3, <2>3, <3>1 DEF MeetsBack
  <2>. QED BY <1>1, <2>3, <2>4, <2>5, <2>6, ShapedBack
<1>. QED BY <1>2, <1>3

\* What the pops take out: v, of a frame of which f is left, so s becomes t.
OutAtHead(s, f, t, v) ==
    /\ f = [s[1] EXCEPT !.start = s[1].start + 1]
    /\ t = IF Frames!Spent(f) THEN Tail(s) ELSE [s EXCEPT ![1] = f]
    /\ v = f.obj[f.start - 1]

OutAtTail(s, f, t, v) ==
    /\ f = [s[Len(s)] EXCEPT !.end = s[Len(s)].end - 1]
    /\ t = IF Frames!Spent(f) THEN SubSeq(s, 1, Len(s) - 1) ELSE [s EXCEPT ![Len(s)] = f]
    /\ v = f.obj[f.end]

(* The objects without it.                                                  *)
LEMMA HeadPopped ==
    ASSUME NEW s, Filled(s), Shaped(s), s # <<>>,
           NEW f, NEW t, NEW v, OutAtHead(s, f, t, v)
    PROVE  /\ Filled(t) /\ Shaped(t) /\ f \in Frame /\ v \in Value
           /\ ContentsOf(s) = <<v>> \o ContentsOf(t)
<1>. USE DEF OutAtHead
<1>1. s \in Seq(Frame) /\ Len(s) \in Nat /\ 1 \in 1 .. Len(s) /\ obj_per_frame \in Nat
  BY SizeAssumption DEF Filled
<1>2. PICK y : y = s[1]
  OBVIOUS
<1>3. /\ y \in Frame /\ y.start < y.end /\ y.start \in Nat /\ y.end \in Nat /\ y.end <= obj_per_frame
      /\ y = [start |-> y.start, end |-> y.end, obj |-> y.obj]
      /\ y.obj \in [0 .. obj_per_frame - 1 -> Value]
  <2>1. y \in Frame /\ y.start < y.end
    BY <1>1, <1>2, FilledAt
  <2>. QED BY <1>1, <2>1 DEF Frame
<1>4. /\ f \in Frame /\ f.start = y.start + 1 /\ f.end = y.end /\ f.obj = y.obj
      /\ f = [start |-> y.start + 1, end |-> y.end, obj |-> y.obj]
  <2>1. f = [start |-> y.start + 1, end |-> y.end, obj |-> y.obj]
    BY <1>2, <1>3
  <2>2. y.start + 1 \in 0 .. obj_per_frame /\ y.end \in 0 .. obj_per_frame
    BY <1>1, <1>3
  <2>. QED BY <1>3, <2>1, <2>2 DEF Frame
<1>5. f.start <= f.end /\ f.start > 0 /\ f.start - 1 = y.start /\ y.start \in 0 .. obj_per_frame - 1
  BY <1>1, <1>3, <1>4
<1>6. v \in Value /\ v = y.obj[y.start]
  BY <1>3, <1>4, <1>5
<1>7. y = Frames!PutFirst(f, v)
  <2>1. [y.obj EXCEPT ![y.start] = v] = y.obj
    BY <1>3, <1>6
  <2>2. Frames!PutFirst(f, v) = [start |-> f.start - 1, end |-> f.end,
                                 obj |-> [f.obj EXCEPT ![f.start - 1] = v]]
    BY <1>4, PutForms
  <2>. QED BY <1>3, <1>4, <1>5, <2>1, <2>2
<1>8. PICK r : r = Tail(s)
  OBVIOUS
<1>9. s = <<y>> \o r /\ r \in Seq(Frame) /\ Filled(r)
  BY <1>1, <1>2, <1>8, AtFront, FilledTail
<1>10. t = InFront(f, r)
  <2>1. CASE f.start = f.end
    BY <1>8, <2>1 DEF InFront, Frames!Spent
  <2>2. CASE f.start # f.end
    <3>1. t = [s EXCEPT ![1] = f] /\ InFront(f, r) = <<f>> \o r
      BY <2>2 DEF InFront, Frames!Spent
    <3>. QED BY <1>1, <1>4, <1>8, <3>1, ReplaceFirst
  <2>. QED BY <2>1, <2>2
<1>11. Filled(t) /\ ContentsOf(s) = <<v>> \o ContentsOf(t)
  <2>1. /\ Filled(InFront(f, r))
        /\ ContentsOf(<<y>> \o r) = <<v>> \o ContentsOf(InFront(f, r))
    BY <1>4, <1>5, <1>6, <1>7, <1>9, HeadGrows
  <2>. QED BY ONLY <1>9, <1>10, <2>1, Zenon
<1>12. Shaped(r) /\ MeetsFront(y, r)
  <2>1. Shaped(<<y>> \o r)
    BY ONLY <1>9, Shaped(s), Zenon
  <2>. QED BY <1>3, <1>9, <2>1, ShapedFront
<1>13. Shaped(t)
  <2>1. MeetsFront(f, r)
    BY <1>4, <1>12 DEF MeetsFront
  <2>2. Shaped(<<f>> \o r)
    BY <1>4, <1>9, <1>12, <2>1, ShapedFront
  <2>. QED BY <1>10, <1>12, <2>2 DEF InFront
<1>. QED BY <1>4, <1>6, <1>11, <1>13

LEMMA TailPopped ==
    ASSUME NEW s, Filled(s), Shaped(s), s # <<>>,
           NEW f, NEW t, NEW v, OutAtTail(s, f, t, v)
    PROVE  /\ Filled(t) /\ Shaped(t) /\ f \in Frame /\ v \in Value
           /\ ContentsOf(s) = Append(ContentsOf(t), v)
<1>. USE DEF OutAtTail
<1>1. s \in Seq(Frame) /\ Len(s) \in Nat /\ Len(s) \in 1 .. Len(s) /\ obj_per_frame \in Nat
  BY SizeAssumption DEF Filled
<1>2. PICK y : y = s[Len(s)]
  OBVIOUS
<1>3. /\ y \in Frame /\ y.start < y.end /\ y.start \in Nat /\ y.end \in Nat /\ y.end <= obj_per_frame
      /\ y = [start |-> y.start, end |-> y.end, obj |-> y.obj]
      /\ y.obj \in [0 .. obj_per_frame - 1 -> Value]
  <2>1. y \in Frame /\ y.start < y.end
    BY <1>1, <1>2, FilledAt
  <2>. QED BY <1>1, <2>1 DEF Frame
<1>4. /\ f \in Frame /\ f.start = y.start /\ f.end = y.end - 1 /\ f.obj = y.obj
      /\ f = [start |-> y.start, end |-> y.end - 1, obj |-> y.obj]
  <2>1. f = [start |-> y.start, end |-> y.end - 1, obj |-> y.obj]
    BY <1>2, <1>3
  <2>2. y.start \in 0 .. obj_per_frame /\ y.end - 1 \in 0 .. obj_per_frame
    BY <1>1, <1>3
  <2>. QED BY <1>3, <2>1, <2>2 DEF Frame
<1>5. f.start <= f.end /\ f.end < obj_per_frame /\ f.end + 1 = y.end /\ f.end \in 0 .. obj_per_frame - 1
  BY <1>1, <1>3, <1>4
<1>6. v \in Value /\ v = y.obj[f.end]
  BY <1>3, <1>4, <1>5
<1>7. y = Frames!PutLast(f, v)
  <2>1. [y.obj EXCEPT ![f.end] = v] = y.obj
    BY <1>3, <1>5, <1>6
  <2>2. Frames!PutLast(f, v) = [start |-> f.start, end |-> f.end + 1,
                                obj |-> [f.obj EXCEPT ![f.end] = v]]
    BY <1>4, PutForms
  <2>. QED BY <1>3, <1>4, <1>5, <2>1, <2>2
<1>8. PICK r : r = SubSeq(s, 1, Len(s) - 1)
  OBVIOUS
<1>9. s = Append(r, y) /\ r \in Seq(Frame) /\ Filled(r)
  BY <1>1, <1>2, <1>8, AtBack, FilledFront
<1>10. t = Behind(r, f)
  <2>1. CASE f.start = f.end
    BY <1>8, <2>1 DEF Behind, Frames!Spent
  <2>2. CASE f.start # f.end
    <3>1. t = [s EXCEPT ![Len(s)] = f] /\ Behind(r, f) = Append(r, f)
      BY <2>2 DEF Behind, Frames!Spent
    <3>2. [s EXCEPT ![Len(s)] = f] = Append(SubSeq(s, 1, Len(s) - 1), f)
      BY ONLY <1>1, <1>4, s # <<>>, ReplaceLast
    <3>. QED BY ONLY <1>8, <3>1, <3>2, Zenon
  <2>. QED BY <2>1, <2>2
<1>11. Filled(t) /\ ContentsOf(s) = Append(ContentsOf(t), v)
  <2>1. /\ Filled(Behind(r, f))
        /\ ContentsOf(Append(r, y)) = Append(ContentsOf(Behind(r, f)), v)
    <3>1. Filled(r) /\ f \in Frame /\ f.start <= f.end /\ f.end < obj_per_frame /\ v \in Value
      BY <1>4, <1>5, <1>6, <1>9
    <3>. QED BY ONLY <1>7, <3>1, TailGrows
  <2>. QED BY ONLY <1>9, <1>10, <2>1, Zenon
<1>12. Shaped(r) /\ MeetsBack(r, y)
  <2>1. Shaped(Append(r, y))
    BY ONLY <1>9, Shaped(s), Zenon
  <2>. QED BY <1>3, <1>9, <2>1, ShapedBack
<1>13. Shaped(t)
  <2>1. MeetsBack(r, f)
    BY <1>4, <1>12 DEF MeetsBack
  <2>2. Shaped(Append(r, f))
    BY <1>4, <1>9, <1>12, <2>1, ShapedBack
  <2>. QED BY <1>10, <1>12, <2>2 DEF Behind
<1>. QED BY <1>4, <1>6, <1>11, <1>13

\* o is set in slot i of the k-th frame.
SetIn(s, k, i, o, t) == t = [s EXCEPT ![k].obj[i] = o]

(* An object is set in its frame, at its place among the objects.           *)
LEMMA ObjectSet ==
    ASSUME NEW s, Filled(s), Shaped(s), NEW g, Laid(ContentsOf(s), s, g),
           NEW k \in 1 .. Len(s), NEW j \in 1 .. Held(s[k]), NEW o \in Value,
           NEW t, SetIn(s, k, s[k].start + j - 1, o, t)
    PROVE  /\ Filled(t) /\ Shaped(t)
           /\ ContentsOf(t) = [ContentsOf(s) EXCEPT ![g[k - 1] + j] = o]
<1>. USE DEF SetIn
<1>1. PICK y, c, i : y = s[k] /\ c = ContentsOf(s) /\ i = y.start + j - 1
  OBVIOUS
<1>2. /\ y \in Frame /\ y.start < y.end /\ y.start <= y.end /\ i \in 0 .. obj_per_frame - 1
      /\ s \in Seq(Frame) /\ Len(s) \in Nat
  <2>1. y \in Frame /\ y.start < y.end /\ y.start <= y.end
    BY <1>1, FilledAt, FrameNumbers
  <2>. QED BY <1>1, <2>1, SlotFacts DEF Filled
<1>3. PICK z : z = [y EXCEPT !.obj = [y.obj EXCEPT ![i] = o]]
  OBVIOUS
<1>4. /\ z \in Frame /\ z.start = y.start /\ z.end = y.end
      /\ \A n \in 0 .. obj_per_frame - 1 : z.obj[n] = IF n = i THEN o ELSE y.obj[n]
  <2>1. y = [start |-> y.start, end |-> y.end, obj |-> y.obj] /\ y.obj \in [0 .. obj_per_frame - 1 -> Value]
    BY <1>2 DEF Frame
  <2>2. z = [start |-> y.start, end |-> y.end, obj |-> [y.obj EXCEPT ![i] = o]]
    BY <1>3, <2>1
  <2>3. [y.obj EXCEPT ![i] = o] \in [0 .. obj_per_frame - 1 -> Value]
    BY <2>1
  <2>. QED BY <1>2, <2>1, <2>2, <2>3 DEF Frame
<1>5. t = [s EXCEPT ![k] = z]
  BY <1>1, <1>3
<1>6. t \in Seq(Frame) /\ Len(t) = Len(s) /\ \A m \in 1 .. Len(s) : t[m] = IF m = k THEN z ELSE s[m]
  <2>1. s \in Seq(Frame) /\ z \in Frame /\ k \in 1 .. Len(s)
    BY <1>2, <1>4
  <2>. QED BY ONLY <1>5, <2>1, ExceptSeq
<1>7. /\ Filled(t) /\ Shaped(t)
      /\ \A m \in 1 .. Len(s) : Held(t[m]) = Held(s[m]) /\ t[m].start = s[m].start
  <2>1. ASSUME NEW m \in 1 .. Len(s)
        PROVE  t[m].start = s[m].start /\ t[m].end = s[m].end
    BY <1>1, <1>4, <1>6
  <2>2. Filled(t)
    BY <1>6, <2>1 DEF Filled
  <2>3. Shaped(t)
    BY <1>6, <2>1 DEF Shaped
  <2>. QED BY <2>1, <2>2, <2>3 DEF Held
<1>8. c \in Seq(Value) /\ g[k - 1] + j \in 1 .. Len(c) /\ Laid(c, s, g)
  BY <1>1, ContentsType, WithinLaid
<1>9. PICK d : d = [c EXCEPT ![g[k - 1] + j] = o]
  OBVIOUS
<1>10. /\ d \in Seq(Value) /\ Len(d) = Len(c)
       /\ \A n \in 1 .. Len(c) : d[n] = IF n = g[k - 1] + j THEN o ELSE c[n]
  BY <1>8, <1>9, ExceptSeq
<1>11. ASSUME NEW m \in 1 .. Len(s), NEW n \in 1 .. Held(s[m])
       PROVE  d[g[m - 1] + n] = Jth(t[m], n)
  <2>1. g[m - 1] + n \in 1 .. Len(c) /\ c[g[m - 1] + n] = Jth(s[m], n)
    BY <1>8, WithinLaid DEF Laid
  <2>2. s[m] \in Frame /\ s[m].start <= s[m].end /\ s[m].start + n - 1 \in 0 .. obj_per_frame - 1
    <3>1. s[m] \in Frame /\ s[m].start <= s[m].end
      BY FilledAt, FrameNumbers
    <3>. QED BY <3>1, SlotFacts
  <2>3. CASE m = k /\ n = j
    <3>1. t[m] = z /\ s[m] = y /\ z.start + n - 1 = i
      BY <1>1, <1>4, <1>6, <2>3
    <3>2. Jth(t[m], n) = o
      BY <1>2, <1>4, <3>1 DEF Jth
    <3>. QED BY <1>10, <2>1, <2>3, <3>2
  <2>4. CASE m = k /\ n # j
    <3>1. g[m - 1] + n # g[k - 1] + j
      BY <1>8, <2>4, FrameOnce
    <3>2. s[m].start + n - 1 # i
      <4>1. s[m].start \in Nat /\ n \in Int /\ j \in Int /\ s[m] = y
        BY <1>1, <2>2, <2>4, FrameNumbers
      <4>. QED BY <1>1, <2>4, <4>1
    <3>3. Jth(t[m], n) = Jth(s[m], n)
      BY <1>1, <1>4, <1>6, <2>2, <2>4, <3>2 DEF Jth
    <3>. QED BY <1>10, <2>1, <3>1, <3>3
  <2>5. CASE m # k
    <3>1. g[m - 1] + n # g[k - 1] + j
      BY <1>8, <2>5, FrameOnce
    <3>2. t[m] = s[m]
      BY <1>6, <2>5
    <3>. QED BY <1>10, <2>1, <3>1, <3>2
  <2>. QED BY <2>3, <2>4, <2>5
<1>12. Laid(d, t, g)
  <2>1. /\ Len(c) = g[Len(s)] /\ g \in [0 .. Len(s) -> Nat] /\ g[0] = 0
        /\ \A m \in 1 .. Len(s) : g[m] = g[m - 1] + Held(s[m])
    BY <1>8 DEF Laid
  <2>2. \A m \in 1 .. Len(s) : g[m] = g[m - 1] + Held(t[m])
    BY <1>7, <2>1
  <2>3. \A m \in 1 .. Len(s) : \A n \in 1 .. Held(t[m]) : d[g[m - 1] + n] = Jth(t[m], n)
    BY <1>7, <1>11
  <2>. QED BY <1>6, <1>10, <2>1, <2>2, <2>3 DEF Laid
<1>13. ContentsOf(t) = d
  BY <1>7, <1>12, ContentsAre
<1>. QED BY <1>1, <1>7, <1>9, <1>13

\* What the queue is: objects in frames without a gap between them, and their count.
Stored ==
    /\ Filled(frame) /\ Shaped(frame)
    /\ cached_frame = <<>> \/ \E f \in Frame : cached_frame = <<f>>
    /\ ContentsOf(frame) \in Seq(Obj) /\ qcount = Len(ContentsOf(frame))

LEMMA ContentsIs == Frames!Contents = ContentsOf(frame)
BY Zenon DEF Frames!Contents, Frames!Tailmost, ContentsOf

(* Before() counts the objects in the frames before one.                    *)
LEMMA BeforeIs ==
    ASSUME NEW s, s = frame, Filled(s), NEW c, NEW g, Laid(c, s, g), NEW k \in 1 .. Len(s)
    PROVE  Frames!Before(k) = g[k - 1]
<1> DEFINE n == CHOOSE f : f = [j \in 0 .. k - 1 |-> IF j = 0 THEN 0
                                                     ELSE f[j - 1] + Frames!Size(frame[j])]
<1>1. Len(s) \in Nat /\ g[0] = 0 /\ \A j \in 1 .. Len(s) : g[j] = g[j - 1] + Held(s[j])
  BY DEF Laid, Filled
<1>2. PICK h : h = [j \in 0 .. k - 1 |-> g[j]]
  OBVIOUS
<1>3. h = [j \in 0 .. k - 1 |-> IF j = 0 THEN 0 ELSE h[j - 1] + Frames!Size(frame[j])]
  <2>1. ASSUME NEW j \in 0 .. k - 1
        PROVE  h[j] = IF j = 0 THEN 0 ELSE h[j - 1] + Frames!Size(frame[j])
    <3>1. j = 0 \/ (j \in 1 .. Len(s) /\ j - 1 \in 0 .. k - 1)
      BY <1>1
    <3>2. Frames!Size(frame[j]) = Held(s[j])
      BY DEF Frames!Size, Held
    <3>. QED BY <1>1, <1>2, <3>1, <3>2
  <2>. QED BY <1>2, <2>1
<1>4. n = [j \in 0 .. k - 1 |-> IF j = 0 THEN 0 ELSE n[j - 1] + Frames!Size(frame[j])]
  BY <1>3, Zenon
<1>5. Frames!Before(k) = n[k - 1]
  BY Zenon DEF Frames!Before
<1>. HIDE DEF n
<1> DEFINE T == {j \in Nat : j <= k - 1 => n[j] = g[j]}
<1>6. 0 \in T
  BY <1>1, <1>4
<1>7. ASSUME NEW j \in T PROVE j + 1 \in T
  <2>. SUFFICES ASSUME j + 1 <= k - 1 PROVE n[j + 1] = g[j + 1]
    OBVIOUS
  <2>1. /\ j + 1 \in 0 .. k - 1 /\ j + 1 # 0 /\ (j + 1) - 1 = j /\ j <= k - 1
        /\ j + 1 \in 1 .. Len(s)
    BY <1>1
  <2>2. Frames!Size(frame[j + 1]) = Held(s[j + 1])
    BY DEF Frames!Size, Held
  <2>3. n[j + 1] = n[j] + Held(s[j + 1])
    BY <1>4, <2>1, <2>2
  <2>. QED BY <1>1, <2>1, <2>3
<1>8. T \subseteq Nat
  OBVIOUS
<1>. HIDE DEF T
<1>9. \A j \in Nat : j \in T
  BY <1>6, <1>7, <1>8, AllNumbers
<1>10. k - 1 \in Nat /\ k - 1 <= k - 1
  BY <1>1
<1>. QED BY <1>5, <1>9, <1>10 DEF T

(* Place() is the frame and the slot of the object at idx.                  *)
LEMMA PlaceIs ==
    ASSUME NEW s, s = frame, Filled(s), Shaped(s), NEW c, NEW g, Laid(c, s, g),
           NEW idx \in 0 .. Len(c) - 1, Frames!Indexed(idx)
    PROVE  \E k \in 1 .. Len(s) : \E j \in 1 .. Held(s[k]) :
              Frames!Place(idx) = <<k, s[k].start + j - 1>> /\ idx + 1 = g[k - 1] + j
<1> DEFINE P(k) == Frames!Before(k) <= idx /\ idx < Frames!Before(k) + Frames!Size(frame[k])
           k == CHOOSE x \in 1 .. Frames!Tailmost : P(x)
<1>1. /\ Len(s) \in Nat /\ Len(c) \in Nat /\ Frames!Tailmost = Len(s)
      /\ g \in [0 .. Len(s) -> Nat] /\ g[0] = 0
  BY DEF Filled, Laid, Frames!Tailmost
<1>2. \A x \in 1 .. Len(s) : /\ Frames!Before(x) = g[x - 1] /\ Frames!Size(frame[x]) = Held(s[x])
                             /\ g[x - 1] \in Nat /\ Held(s[x]) \in Nat
  <2>1. ASSUME NEW x \in 1 .. Len(s)
        PROVE  /\ Frames!Before(x) = g[x - 1] /\ Frames!Size(frame[x]) = Held(s[x])
               /\ g[x - 1] \in Nat /\ Held(s[x]) \in Nat
    <3>1. x - 1 \in 0 .. Len(s)
      BY <1>1
    <3>2. Frames!Before(x) = g[x - 1] /\ Held(s[x]) \in Nat
      BY BeforeIs, FilledFacts
    <3>. QED BY <1>1, <3>1, <3>2 DEF Frames!Size, Held
  <2>. QED BY <2>1
<1>3. \E x \in 1 .. Len(s) : P(x)
  <2>1. idx + 1 \in 1 .. Len(c) /\ idx \in Int
    BY <1>1
  <2>2. PICK x \in 1 .. Len(s) : \E j \in 1 .. Held(s[x]) : idx + 1 = g[x - 1] + j
    BY <2>1, FrameOf
  <2>3. PICK j \in 1 .. Held(s[x]) : idx + 1 = g[x - 1] + j
    BY <2>2
  <2>4. g[x - 1] <= idx /\ idx < g[x - 1] + Held(s[x])
    BY <1>2, <2>1, <2>3
  <2>. QED BY <1>2, <2>4
<1>4. k \in 1 .. Len(s) /\ P(k)
  BY <1>1, <1>3
<1>5. Frames!Place(idx) = <<k, idx - Frames!Before(k)>>
  BY Zenon DEF Frames!Place
<1>. HIDE DEF k
<1>6. PICK j : j = idx + 1 - g[k - 1]
  OBVIOUS
<1>7. j \in 1 .. Held(s[k]) /\ idx + 1 = g[k - 1] + j /\ idx - g[k - 1] = j - 1 /\ j \in Nat
  <2>1. \A a, b \in Nat, i \in Int : a <= i /\ i < a + b =>
          i + 1 - a \in 1 .. b /\ i + 1 = a + (i + 1 - a) /\ i - a = (i + 1 - a) - 1 /\ i + 1 - a \in Nat
    OBVIOUS
  <2>2. idx \in Int /\ g[k - 1] \in Nat /\ Held(s[k]) \in Nat /\ g[k - 1] <= idx /\ idx < g[k - 1] + Held(s[k])
    BY <1>1, <1>2, <1>4
  <2>. QED BY ONLY <1>6, <2>1, <2>2
<1>8. s[k].start = 0
  <2>1. CASE k = 1
    <3>1. g[k - 1] = 0 /\ Frames!Size(frame[1]) = Held(s[k]) /\ Held(s[k]) \in Nat
      BY <1>1, <1>2, <1>4, <2>1
    <3>2. ~(idx >= Held(s[k]))
      BY <1>1, <1>7, <3>1
    <3>. QED BY <2>1, <3>1, <3>2 DEF Frames!Indexed
  <2>2. CASE k # 1
    <3>1. k > 1
      BY <1>1, <1>4, <2>2
    <3>. QED BY <1>4, <3>1 DEF Shaped
  <2>. QED BY <2>1, <2>2
<1>9. Frames!Place(idx) = <<k, s[k].start + j - 1>>
  <2>1. idx - Frames!Before(k) = s[k].start + j - 1
    BY <1>2, <1>4, <1>7, <1>8
  <2>. QED BY ONLY <1>5, <2>1
<1>. QED BY <1>4, <1>7, <1>9

(* tt_queue_get() gives the object at that place.                           *)
LEMMA GetIs ==
    ASSUME Stored
    PROVE  Frames!GetMatchesIterator
<1>1. PICK s, c : s = frame /\ c = ContentsOf(frame)
  OBVIOUS
<1>2. Filled(s) /\ Shaped(s) /\ qcount = Len(c) /\ Frames!Contents = c
  BY <1>1, ContentsIs DEF Stored
<1>3. PICK g : Laid(c, s, g)
  BY <1>1, <1>2, ContentsLaid
<1>4. ASSUME NEW i \in 0 .. qcount - 1, Frames!Indexed(i)
      PROVE  Frames!tt_queue_get(i) = Frames!Contents[i + 1]
  <2>1. PICK k \in 1 .. Len(s) : \E j \in 1 .. Held(s[k]) :
              Frames!Place(i) = <<k, s[k].start + j - 1>> /\ i + 1 = g[k - 1] + j
    BY <1>1, <1>2, <1>3, <1>4, PlaceIs
  <2>2. PICK j \in 1 .. Held(s[k]) : Frames!Place(i) = <<k, s[k].start + j - 1>> /\ i + 1 = g[k - 1] + j
    BY <2>1
  <2>3. c[g[k - 1] + j] = Jth(s[k], j)
    BY <1>3 DEF Laid
  <2>4. Frames!tt_queue_get(i) = frame[Frames!Place(i)[1]].obj[Frames!Place(i)[2]]
    BY Zenon DEF Frames!tt_queue_get
  <2>5. Frames!Place(i)[1] = k /\ Frames!Place(i)[2] = s[k].start + j - 1
    BY <2>2
  <2>6. Frames!tt_queue_get(i) = s[k].obj[s[k].start + j - 1]
    BY ONLY <1>1, <2>4, <2>5, Zenon
  <2>. QED BY ONLY <1>2, <2>2, <2>3, <2>6 DEF Jth
<1>. QED BY <1>4 DEF Frames!GetMatchesIterator

Cursor == [f : Nat, idx : Nat]

\* Where the iterator stands after n objects.
Stands(x, s, g, n) ==
    \E k \in 1 .. Len(s) : \E j \in 0 .. Held(s[k]) :
       /\ x = [f |-> k, idx |-> j] /\ n = g[k - 1] + j
       /\ n = 0 => k = 1
       /\ n # 0 => j # 0

(* A call moves it by one object.                                           *)
LEMMA IteratorMoves ==
    ASSUME NEW s, s = frame, Filled(s), NEW c, NEW g, Laid(c, s, g), NEW n \in Nat, NEW x,
           Stands(x, s, g, n)
    PROVE  /\ n < Len(c) => Stands(Frames!tt_queue_iter_next(x), s, g, n + 1)
           /\ n = Len(c) => Frames!tt_queue_iter_next(x).f = 0
<1>1. PICK k \in 1 .. Len(s) : \E j \in 0 .. Held(s[k]) :
         /\ x = [f |-> k, idx |-> j] /\ n = g[k - 1] + j
         /\ n = 0 => k = 1
         /\ n # 0 => j # 0
  BY DEF Stands
<1>2. PICK j \in 0 .. Held(s[k]) :
         /\ x = [f |-> k, idx |-> j] /\ n = g[k - 1] + j
         /\ n = 0 => k = 1
         /\ n # 0 => j # 0
  BY <1>1
<1>3. /\ Len(s) \in Nat /\ k \in Nat /\ k # 0 /\ k <= Len(s) /\ k \in 0 .. Len(s) /\ k - 1 \in 0 .. Len(s)
      /\ Len(s) \in 0 .. Len(s)
  BY DEF Filled
<1>4. /\ Held(s[k]) \in Nat \ {0} /\ j \in Nat /\ j <= Held(s[k]) /\ s[k] \in Frame
      /\ s[k].start \in Nat /\ s[k].end \in Nat /\ s[k].start < s[k].end
  BY FilledFacts, FilledAt, FrameNumbers
<1>5. /\ g[k] = g[k - 1] + Held(s[k]) /\ Len(c) = g[Len(s)]
      /\ g[k] \in Nat /\ g[k - 1] \in Nat /\ g[Len(s)] \in Nat
  BY <1>3 DEF Laid
<1>6. x.f = k /\ x.idx = j /\ [x EXCEPT !.idx = x.idx + 1] = [f |-> k, idx |-> j + 1]
  BY <1>2
<1>7. Frames!tt_queue_iter_next(x) =
        IF s[k].start + j < s[k].end THEN [f |-> k, idx |-> j + 1]
        ELSE IF k < Len(s) THEN [f |-> k + 1, idx |-> 1] ELSE [f |-> 0, idx |-> 0]
  BY <1>6 DEF Frames!tt_queue_iter_next, Frames!Tailmost
<1>8. s[k].start + j < s[k].end <=> j < Held(s[k])
  BY <1>4 DEF Held
<1>9. CASE j < Held(s[k])
  <2>1. Frames!tt_queue_iter_next(x) = [f |-> k, idx |-> j + 1]
    BY <1>7, <1>8, <1>9
  <2>2. j + 1 \in 0 .. Held(s[k]) /\ j + 1 # 0 /\ n + 1 = g[k - 1] + (j + 1) /\ n + 1 # 0
    <3>1. PICK a, h : a = g[k - 1] /\ h = Held(s[k])
      OBVIOUS
    <3>2. a \in Nat /\ h \in Nat /\ j \in Nat /\ j < h /\ n = a + j
      BY <1>2, <1>4, <1>5, <1>9, <3>1
    <3>3. j + 1 \in 0 .. h /\ j + 1 # 0 /\ n + 1 = a + (j + 1) /\ n + 1 # 0
      BY ONLY <3>2
    <3>. QED BY ONLY <3>1, <3>3
  <2>3. n # Len(c)
    <3>1. g[k] <= g[Len(s)]
      BY <1>3, LaidGrows
    <3>2. g[k - 1] + j < g[k]
      BY <1>4, <1>5, <1>9
    <3>. QED BY <1>2, <1>4, <1>5, <3>1, <3>2
  <2>. QED BY <2>1, <2>2, <2>3 DEF Stands
<1>10. CASE ~(j < Held(s[k])) /\ k < Len(s)
  <2>1. Frames!tt_queue_iter_next(x) = [f |-> k + 1, idx |-> 1]
    BY <1>7, <1>8, <1>10
  <2>2. j = Held(s[k]) /\ n = g[k] /\ k + 1 \in 1 .. Len(s) /\ (k + 1) - 1 = k
    BY <1>2, <1>3, <1>4, <1>5, <1>10
  <2>3. Held(s[k + 1]) \in Nat \ {0}
    BY <2>2, FilledFacts
  <2>4. 1 \in 0 .. Held(s[k + 1]) /\ 1 # 0 /\ n + 1 # 0
    BY <2>3
  <2>5. n # Len(c)
    <3>1. g[k] < g[Len(s)]
      BY <1>3, <1>10, LaidGrows
    <3>. QED BY <1>5, <2>2, <3>1
  <2>. QED BY <2>1, <2>2, <2>4, <2>5 DEF Stands
<1>11. CASE ~(j < Held(s[k])) /\ ~(k < Len(s))
  <2>1. Frames!tt_queue_iter_next(x) = [f |-> 0, idx |-> 0]
    BY <1>7, <1>8, <1>11
  <2>2. j = Held(s[k]) /\ k = Len(s)
    BY <1>3, <1>4, <1>11
  <2>3. n = Len(c)
    BY <1>2, <1>5, <2>2
  <2>. QED BY <2>1, <2>3
<1>. QED BY <1>9, <1>10, <1>11

(* The calls of an iterator can be listed, however many they are.           *)
LEMMA IteratorCalls ==
    ASSUME NEW n \in Nat, NEW first \in Cursor,
           first = [f |-> IF frame = <<>> THEN 0 ELSE 1, idx |-> 0]
    PROVE  \E w \in [0 .. n -> Cursor] :
              /\ w[0] = first
              /\ \A i \in 1 .. n : w[i] = Frames!tt_queue_iter_next(w[i - 1])
              /\ Frames!Iterator(n) = w[n]
<1> DEFINE F == [x \in Cursor |-> Frames!tt_queue_iter_next(x)]
           step == [i \in 1 .. n |-> F]
           w == CHOOSE it : it = [i \in 0 .. n |->
                   IF i > 0 THEN Frames!tt_queue_iter_next(it[i - 1])
                   ELSE [f |-> IF frame = <<>> THEN 0 ELSE 1, idx |-> 0]]
<1>1. F \in [Cursor -> Cursor]
  <2>1. ASSUME NEW x \in Cursor PROVE Frames!tt_queue_iter_next(x) \in Cursor
    <3>1. /\ [x EXCEPT !.idx = x.idx + 1] \in Cursor
          /\ [f |-> x.f + 1, idx |-> 1] \in Cursor /\ [f |-> 0, idx |-> 0] \in Cursor
      BY DEF Cursor
    <3>. QED BY <3>1 DEF Frames!tt_queue_iter_next
  <2>. QED BY <2>1
<1>2. \A x \in Cursor : F[x] = Frames!tt_queue_iter_next(x)
  OBVIOUS
<1>. HIDE DEF F
<1>3. step \in [1 .. n -> [Cursor -> Cursor]] /\ \A i \in 1 .. n : step[i] = F
  BY <1>1
<1>. HIDE DEF step
<1>4. PICK h \in [0 .. n -> Cursor] : IsChain(h, n, first, step)
  BY <1>3, ChainExists
<1>5. h = [i \in 0 .. n |-> IF i > 0 THEN Frames!tt_queue_iter_next(h[i - 1])
                            ELSE [f |-> IF frame = <<>> THEN 0 ELSE 1, idx |-> 0]]
  <2>1. ASSUME NEW i \in 0 .. n
        PROVE  h[i] = IF i > 0 THEN Frames!tt_queue_iter_next(h[i - 1])
                      ELSE [f |-> IF frame = <<>> THEN 0 ELSE 1, idx |-> 0]
    <3>1. h[i] = IF i = 0 THEN first ELSE step[i][h[i - 1]]
      BY <1>4 DEF IsChain
    <3>2. CASE i = 0
      BY <3>1, <3>2
    <3>3. CASE i # 0
      <4>1. i > 0 /\ i \in 1 .. n /\ i - 1 \in 0 .. n
        BY <3>3
      <4>2. h[i] = F[h[i - 1]] /\ h[i - 1] \in Cursor
        BY <1>3, <1>4, <3>1, <3>3, <4>1
      <4>. QED BY <1>2, <4>1, <4>2
    <3>. QED BY <3>2, <3>3
  <2>2. DOMAIN h = 0 .. n
    BY <1>4
  <2>. QED BY <2>1, <2>2
<1>6. w = [i \in 0 .. n |-> IF i > 0 THEN Frames!tt_queue_iter_next(w[i - 1])
                            ELSE [f |-> IF frame = <<>> THEN 0 ELSE 1, idx |-> 0]]
  BY <1>5, Zenon
<1>7. Frames!Iterator(n) = w[n]
  BY Zenon DEF Frames!Iterator
<1>. HIDE DEF w
<1>8. w[0] = first /\ DOMAIN w = 0 .. n
  BY <1>6
<1>9. ASSUME NEW i \in 1 .. n PROVE w[i] = Frames!tt_queue_iter_next(w[i - 1])
  <2>1. i \in 0 .. n /\ i > 0
    OBVIOUS
  <2>. QED BY ONLY <1>6, <2>1
<1> DEFINE T == {i \in Nat : i <= n => w[i] \in Cursor}
<1>10. 0 \in T
  BY <1>8
<1>11. ASSUME NEW i \in T PROVE i + 1 \in T
  <2>. SUFFICES ASSUME i + 1 <= n PROVE w[i + 1] \in Cursor
    OBVIOUS
  <2>1. i + 1 \in 1 .. n /\ (i + 1) - 1 = i /\ i <= n
    OBVIOUS
  <2>2. w[i + 1] = Frames!tt_queue_iter_next(w[i]) /\ w[i] \in Cursor
    BY <1>9, <2>1
  <2>. QED BY <1>1, <1>2, <2>2
<1>12. T \subseteq Nat
  OBVIOUS
<1>. HIDE DEF T
<1>13. \A i \in Nat : i \in T
  BY <1>10, <1>11, <1>12, AllNumbers
<1>14. \A i \in 0 .. n : w[i] \in Cursor
  BY <1>13 DEF T
<1>15. w \in [0 .. n -> Cursor]
  BY <1>6, <1>14
<1>. QED BY <1>7, <1>8, <1>9, <1>15

(* So the n-th call leaves it at the n-th object.                           *)
LEMMA IteratorAt ==
    ASSUME NEW s, s = frame, Filled(s), NEW c, NEW g, Laid(c, s, g), NEW n \in 0 .. Len(c), Len(c) # 0
    PROVE  Stands(Frames!Iterator(n), s, g, n)
<1>1. n \in Nat /\ Len(c) \in Nat /\ n <= Len(c)
  BY DEF Laid
<1>2. Len(s) # 0 /\ Len(s) \in Nat /\ s # <<>> /\ g[0] = 0
  BY DEF Laid, Filled
<1>3. PICK first : first = [f |-> IF frame = <<>> THEN 0 ELSE 1, idx |-> 0]
  OBVIOUS
<1>4. first = [f |-> 1, idx |-> 0] /\ first \in Cursor
  BY <1>2, <1>3 DEF Cursor
<1>5. PICK w \in [0 .. n -> Cursor] :
              /\ w[0] = first
              /\ \A i \in 1 .. n : w[i] = Frames!tt_queue_iter_next(w[i - 1])
              /\ Frames!Iterator(n) = w[n]
  BY <1>1, <1>3, <1>4, IteratorCalls
<1> DEFINE T == {i \in Nat : i <= n => Stands(w[i], s, g, i)}
<1>6. 0 \in T
  <2>1. 1 \in 1 .. Len(s) /\ 0 \in 0 .. Held(s[1]) /\ 1 - 1 = 0
    BY <1>2, FilledFacts
  <2>2. w[0] = [f |-> 1, idx |-> 0] /\ 0 = g[1 - 1] + 0
    BY <1>2, <1>4, <1>5
  <2>3. Stands(w[0], s, g, 0)
    BY <2>1, <2>2 DEF Stands
  <2>. QED BY <2>3
<1>7. ASSUME NEW i \in T PROVE i + 1 \in T
  <2>. SUFFICES ASSUME i + 1 <= n PROVE Stands(w[i + 1], s, g, i + 1)
    OBVIOUS
  <2>1. i \in Nat /\ i + 1 \in 1 .. n /\ (i + 1) - 1 = i /\ i <= n /\ i < Len(c)
    BY <1>1
  <2>2. w[i + 1] = Frames!tt_queue_iter_next(w[i]) /\ Stands(w[i], s, g, i)
    BY <1>5, <2>1
  <2>3. Stands(Frames!tt_queue_iter_next(w[i]), s, g, i + 1)
    BY <2>1, <2>2, IteratorMoves
  <2>. QED BY ONLY <2>2, <2>3
<1>8. T \subseteq Nat
  OBVIOUS
<1>. HIDE DEF T
<1>9. \A i \in Nat : i \in T
  BY <1>6, <1>7, <1>8, AllNumbers
<1>10. Stands(w[n], s, g, n)
  BY <1>1, <1>9 DEF T
<1>. QED BY ONLY <1>5, <1>10

(* And what it has handed out is that object.                               *)
LEMMA IteratorIs ==
    ASSUME Stored
    PROVE  Frames!IteratorWalks
<1>1. PICK s, c : s = frame /\ c = ContentsOf(frame)
  OBVIOUS
<1>2. Filled(s) /\ qcount = Len(c) /\ Frames!Contents = c
  BY <1>1, ContentsIs DEF Stored
<1>3. PICK g : Laid(c, s, g)
  BY <1>1, <1>2, ContentsLaid
<1>4. Len(c) \in Nat /\ g[0] = 0
  BY <1>3 DEF Laid
<1>5. ASSUME NEW i \in 1 .. qcount
      PROVE  Frames!Given(Frames!Iterator(i)) = Frames!Contents[i]
  <2>1. i \in 0 .. Len(c) /\ Len(c) # 0 /\ i # 0
    BY <1>2, <1>4
  <2>2. Stands(Frames!Iterator(i), s, g, i)
    BY <1>1, <1>2, <1>3, <2>1, IteratorAt
  <2>3. PICK k \in 1 .. Len(s) : \E j \in 0 .. Held(s[k]) :
           Frames!Iterator(i) = [f |-> k, idx |-> j] /\ i = g[k - 1] + j /\ j # 0
    BY <2>1, <2>2 DEF Stands
  <2>4. PICK j \in 0 .. Held(s[k]) :
           Frames!Iterator(i) = [f |-> k, idx |-> j] /\ i = g[k - 1] + j /\ j # 0
    BY <2>3
  <2>5. PICK x : x = Frames!Iterator(i)
    OBVIOUS
  <2>6. Frames!Given(x) = Jth(s[k], j)
    <3>1. x.f = k /\ x.idx = j
      BY <2>4, <2>5
    <3>. QED BY <1>1, <3>1 DEF Frames!Given, Jth
  <2>7. j \in 1 .. Held(s[k])
    BY <1>2, <2>4, FilledFacts
  <2>8. c[g[k - 1] + j] = Jth(s[k], j)
    BY <1>3, <2>7 DEF Laid
  <2>. QED BY ONLY <1>2, <2>4, <2>5, <2>6, <2>8
<1>6. qcount > 0 => Frames!tt_queue_iter_next(Frames!Iterator(qcount)).f = 0
  <2>. SUFFICES ASSUME qcount > 0 PROVE Frames!tt_queue_iter_next(Frames!Iterator(qcount)).f = 0
    OBVIOUS
  <2>1. PICK n, x : n = Len(c) /\ x = Frames!Iterator(qcount)
    OBVIOUS
  <2>2. n \in 0 .. Len(c) /\ Len(c) # 0 /\ n \in Nat /\ qcount = n
    BY <1>2, <1>4, <2>1
  <2>3. Stands(Frames!Iterator(n), s, g, n)
    BY <1>1, <1>2, <1>3, <2>2, IteratorAt
  <2>4. Stands(x, s, g, n)
    BY ONLY <2>1, <2>2, <2>3, Zenon
  <2>5. Frames!tt_queue_iter_next(x).f = 0
    BY <1>1, <1>2, <1>3, <2>1, <2>2, <2>4, IteratorMoves
  <2>. QED BY ONLY <2>1, <2>5
<1>. QED BY <1>5, <1>6 DEF Frames!IteratorWalks

LEMMA ContentsNext == Frames!Contents' = ContentsOf(frame')
BY Zenon DEF Frames!Contents, Frames!Tailmost, ContentsOf

(* Without frames there are no objects.                                     *)
LEMMA NothingStored ==
    Filled(<<>>) /\ Shaped(<<>>) /\ ContentsOf(<<>>) = <<>>
<1>1. Filled(<<>>) /\ Shaped(<<>>)
  BY DEF Filled, Shaped
<1>2. PICK c, g : c = <<>> /\ g = [k \in 0 .. 0 |-> 0]
  OBVIOUS
<1>3. c \in Seq(Value) /\ Len(c) = 0 /\ Len(<<>>) = 0
  BY <1>2
<1>4. g \in [0 .. 0 -> Nat] /\ g[0] = 0
  BY <1>2
<1>5. Laid(c, <<>>, g)
  BY <1>3, <1>4 DEF Laid
<1>. QED BY <1>1, <1>2, <1>5, ContentsAre

(* The frame a push takes when there is no room.                            *)
LEMMA AllocFacts ==
    ASSUME Stored, NEW at \in 0 .. obj_per_frame
    PROVE  Frames!Alloc(at) \in Frame /\ Frames!Alloc(at).start = at /\ Frames!Alloc(at).end = at
<1>1. CASE cached_frame = <<>>
  <2>1. [s \in Frames!Slot |-> Junk] \in [0 .. obj_per_frame - 1 -> Value]
    BY DEF Frames!Slot, Value
  <2>. QED BY <1>1, <2>1 DEF Frames!Alloc, Frame
<1>2. CASE cached_frame # <<>>
  <2>1. PICK f \in Frame : cached_frame = <<f>>
    BY <1>2 DEF Stored
  <2>2. cached_frame[1].obj \in [0 .. obj_per_frame - 1 -> Value]
    BY <2>1 DEF Frame
  <2>. QED BY <1>2, <2>2 DEF Frames!Alloc, Frame
<1>. QED BY <1>1, <1>2

\* The cache is empty or has a frame.
Cached(x) == x = <<>> \/ \E f \in Frame : x = <<f>>

LEMMA StoredNext ==
    ASSUME Filled(frame'), Shaped(frame'), Cached(cached_frame'),
           ContentsOf(frame') \in Seq(Obj), qcount' = Len(ContentsOf(frame'))
    PROVE  Stored'
BY DEF Stored, Cached

(* What the sequences of the abstract queue gain and lose at their ends.      *)
LEMMA Front ==
    ASSUME NEW V, NEW c \in Seq(V), NEW v \in V
    PROVE  <<v>> \o c \in Seq(V) /\ Len(<<v>> \o c) = Len(c) + 1
OBVIOUS

LEMMA FrontGone ==
    ASSUME NEW V, NEW W, NEW c \in Seq(V), NEW d \in Seq(W), NEW v \in W, c = <<v>> \o d
    PROVE  /\ c # <<>> /\ Head(c) = v /\ Tail(c) = d /\ d \in Seq(V) /\ Len(d) = Len(c) - 1
<1>1. c # <<>> /\ Head(c) = v /\ Tail(c) = d /\ Len(d) = Len(c) - 1
  OBVIOUS
<1>2. Tail(c) \in Seq(V)
  BY <1>1, HeadTailProperties
<1>. QED BY <1>1, <1>2

LEMMA BackGone ==
    ASSUME NEW V, NEW W, NEW c \in Seq(V), NEW d \in Seq(W), NEW v \in W, c = Append(d, v)
    PROVE  /\ c # <<>> /\ c[Len(c)] = v /\ SubSeq(c, 1, Len(c) - 1) = d
           /\ d \in Seq(V) /\ Len(d) = Len(c) - 1
<1>1. c # <<>> /\ c[Len(c)] = v /\ Len(d) = Len(c) - 1 /\ Len(c) \in Nat \ {0}
      /\ \A i \in 1 .. Len(d) : c[i] = d[i]
  BY AppendProperties
<1>2. PICK e : e = SubSeq(c, 1, Len(c) - 1)
  OBVIOUS
<1>3. e \in Seq(V) /\ c = Append(e, c[Len(c)]) /\ c[Len(c)] \in V /\ Len(e) = Len(c) - 1
  BY <1>1, <1>2, AtBack
<1>4. \A i \in 1 .. Len(e) : Append(e, c[Len(c)])[i] = e[i]
  BY <1>3, AppendProperties
<1>5. \A i \in 1 .. Len(e) : c[i] = e[i]
  BY ONLY <1>3, <1>4
<1>6. e = d
  <2>1. DOMAIN e = 1 .. Len(e) /\ DOMAIN d = 1 .. Len(d) /\ Len(e) = Len(d)
        /\ e = [i \in 1 .. Len(e) |-> e[i]] /\ d = [i \in 1 .. Len(d) |-> d[i]]
    BY <1>1, <1>3
  <2>2. \A i \in 1 .. Len(e) : e[i] = d[i]
    BY <1>1, <1>3, <1>5
  <2>. QED BY ONLY <2>1, <2>2
<1>. QED BY <1>1, <1>2, <1>3, <1>6

LEMMA QueueStep ==
    ASSUME Stored, Frames!Next
    PROVE  Stored' /\ Frames!Abstract!Next
<1>0. obj_per_frame \in Nat \ {0} /\ MaxCount \in Nat
  BY SizeAssumption
<1>1. /\ Filled(frame) /\ Shaped(frame) /\ Cached(cached_frame)
      /\ ContentsOf(frame) \in Seq(Obj) /\ qcount = Len(ContentsOf(frame))
      /\ frame \in Seq(Frame) /\ Len(ContentsOf(frame)) \in Nat
  BY DEF Stored, Filled, Cached
<1>2. PICK c, d : c = ContentsOf(frame) /\ d = ContentsOf(frame')
  OBVIOUS
<1>3. Frames!Contents = c /\ Frames!Contents' = d
  BY <1>2, ContentsIs, ContentsNext
<1>4. \A o \in Obj : o \in Value
  BY DEF Value
<1>5. c = <<>> => frame = <<>>
  <2>. SUFFICES ASSUME frame # <<>> PROVE c # <<>>
    OBVIOUS
  <2>1. PICK g : Laid(c, frame, g)
    BY <1>1, <1>2, ContentsLaid
  <2>2. Len(frame) \in Nat /\ Len(frame) # 0 /\ 1 \in 1 .. Len(frame)
    BY <1>1
  <2>3. Held(frame[1]) \in Nat \ {0}
    BY <1>1, <2>2, FilledFacts
  <2>4. 1 \in 1 .. Held(frame[1])
    BY <2>3
  <2>5. g[1 - 1] + 1 \in 1 .. Len(c)
    BY ONLY <1>1, <2>1, <2>2, <2>4, WithinLaid
  <2>. QED BY <1>1, <1>2, <2>5
<1>6. ASSUME NEW o \in Obj, Frames!tt_queue_push_head(o)
      PROVE  Stored' /\ Frames!Abstract!Next
  <2>1. PICK a : a = Frames!Alloc(obj_per_frame)
    OBVIOUS
  <2>2. a \in Frame /\ a.start = obj_per_frame /\ a.end = obj_per_frame
    BY <1>0, <2>1, AllocFacts
  <2>3. frame' = IF frame # <<>> /\ frame[1].start > 0
                 THEN [frame EXCEPT ![1] = Frames!PutFirst(frame[1], o)]
                 ELSE <<Frames!PutFirst(a, o)>> \o frame
    BY <1>6, <2>1 DEF Frames!tt_queue_push_head, Frames!HeadRoom
  <2>4. Filled(frame') /\ Shaped(frame') /\ d = <<o>> \o c
    BY <1>1, <1>2, <1>4, <2>2, <2>3, HeadPushed
  <2>5. d \in Seq(Obj) /\ Len(d) = Len(c) + 1
    BY <1>1, <1>2, <2>4, Front
  <2>6. Cached(cached_frame') /\ qcount' = qcount + 1 /\ out' = NoObj
    BY <1>1, <1>6 DEF Frames!tt_queue_push_head, Cached
  <2>7. Stored'
    BY <1>1, <1>2, <2>4, <2>5, <2>6, StoredNext
  <2>8. Frames!Abstract!Push(o)
    BY <1>3, <2>4, <2>6 DEF Frames!Abstract!Push
  <2>. QED BY <2>7, <2>8 DEF Frames!Abstract!Next
<1>7. ASSUME NEW o \in Obj, Frames!tt_queue_push_tail(o)
      PROVE  Stored' /\ Frames!Abstract!Next
  <2>1. PICK a : a = Frames!Alloc(0)
    OBVIOUS
  <2>2. a \in Frame /\ a.start = 0 /\ a.end = 0
    BY <1>0, <2>1, AllocFacts
  <2>3. frame' = IF frame # <<>> /\ frame[Len(frame)].end < obj_per_frame
                 THEN [frame EXCEPT ![Len(frame)] = Frames!PutLast(frame[Len(frame)], o)]
                 ELSE Append(frame, Frames!PutLast(a, o))
    BY <1>7, <2>1 DEF Frames!tt_queue_push_tail, Frames!TailRoom, Frames!Tailmost
  <2>4. Filled(frame') /\ Shaped(frame') /\ d = Append(c, o)
    BY <1>1, <1>2, <1>4, <2>2, <2>3, TailPushed
  <2>5. d \in Seq(Obj) /\ Len(d) = Len(c) + 1
    BY <1>1, <1>2, <2>4, AppendProperties
  <2>6. Cached(cached_frame') /\ qcount' = qcount + 1 /\ out' = NoObj
    BY <1>1, <1>7 DEF Frames!tt_queue_push_tail, Cached
  <2>7. Stored'
    BY <1>1, <1>2, <2>4, <2>5, <2>6, StoredNext
  <2>8. Frames!Abstract!Push(o)
    BY <1>3, <2>4, <2>6 DEF Frames!Abstract!Push
  <2>. QED BY <2>7, <2>8 DEF Frames!Abstract!Next
<1>8. ASSUME NEW o \in Obj, NEW i \in 0 .. MaxCount - 1, Frames!tt_queue_set(i, o)
      PROVE  Stored' /\ Frames!Abstract!Next
  <2>1. PICK g : Laid(c, frame, g)
    BY <1>1, <1>2, ContentsLaid
  <2>2. i < qcount /\ Frames!Indexed(i) /\ i \in 0 .. Len(c) - 1 /\ i + 1 \in 1 .. Len(c)
    BY <1>0, <1>1, <1>2, <1>8 DEF Frames!tt_queue_set
  <2>3. PICK s : s = frame
    OBVIOUS
  <2>4. PICK k \in 1 .. Len(s) : \E j \in 1 .. Held(s[k]) :
              Frames!Place(i) = <<k, s[k].start + j - 1>> /\ i + 1 = g[k - 1] + j
    BY <1>1, <2>1, <2>2, <2>3, PlaceIs
  <2>5. PICK j \in 1 .. Held(s[k]) : Frames!Place(i) = <<k, s[k].start + j - 1>> /\ i + 1 = g[k - 1] + j
    BY <2>4
  <2>6. frame' = [frame EXCEPT ![Frames!Place(i)[1]].obj[Frames!Place(i)[2]] = o]
    BY <1>8, Zenon DEF Frames!tt_queue_set
  <2>7. Frames!Place(i)[1] = k /\ Frames!Place(i)[2] = s[k].start + j - 1
    BY <2>5
  <2>8. frame' = [s EXCEPT ![k].obj[s[k].start + j - 1] = o]
    BY ONLY <2>3, <2>6, <2>7, Zenon
  <2>9. Filled(frame') /\ Shaped(frame') /\ d = [c EXCEPT ![i + 1] = o]
    <3>1. /\ Filled(frame') /\ Shaped(frame')
          /\ ContentsOf(frame') = [ContentsOf(s) EXCEPT ![g[k - 1] + j] = o]
      <4>1. PICK t : t = frame'
        OBVIOUS
      <4>2. /\ Filled(s) /\ Shaped(s) /\ Laid(ContentsOf(s), s, g) /\ o \in Value
            /\ SetIn(s, k, s[k].start + j - 1, o, t)
        BY ONLY <1>1, <1>2, <1>4, <2>1, <2>3, <2>8, <4>1 DEF SetIn
      <4>3. /\ Filled(t) /\ Shaped(t)
            /\ ContentsOf(t) = [ContentsOf(s) EXCEPT ![g[k - 1] + j] = o]
        BY ONLY <4>2, ObjectSet
      <4>. QED BY ONLY <4>1, <4>3, Zenon
    <3>. QED BY ONLY <1>2, <2>3, <2>5, <3>1, Zenon
  <2>10. d \in Seq(Obj) /\ Len(d) = Len(c) /\ i + 1 \in DOMAIN c
    BY <1>1, <1>2, <2>2, <2>9, ExceptSeq
  <2>11. cached_frame' = cached_frame /\ qcount' = qcount /\ out' = NoObj
    BY <1>8 DEF Frames!tt_queue_set
  <2>12. Stored'
    BY <1>1, <1>2, <2>9, <2>10, <2>11, StoredNext
  <2>13. Frames!Abstract!Replace(i + 1, o)
    BY <1>3, <2>9, <2>10, <2>11 DEF Frames!Abstract!Replace
  <2>. QED BY <1>3, <2>10, <2>12, <2>13 DEF Frames!Abstract!Next
<1>9. ASSUME Frames!PushFails
      PROVE  Stored' /\ Frames!Abstract!Next
  <2>1. frame' = frame /\ cached_frame' = cached_frame /\ qcount' = qcount /\ out' = NoObj
    BY <1>9 DEF Frames!PushFails
  <2>2. Stored' /\ d = c
    BY <1>1, <1>2, <2>1, StoredNext
  <2>3. CASE c = <<>>
    <3>1. Frames!Abstract!PopNothing
      BY <1>3, <2>1, <2>2, <2>3 DEF Frames!Abstract!PopNothing
    <3>. QED BY <2>2, <3>1 DEF Frames!Abstract!Next
  <2>4. CASE c # <<>>
    <3>1. PICK o \in Obj : TRUE
      <4>1. Head(c) \in Obj
        BY <1>1, <1>2, <2>4, HeadTailProperties
      <4>. QED BY <4>1
    <3>2. Frames!Abstract!Push(o)
      BY <1>3, <2>1, <2>2 DEF Frames!Abstract!Push
    <3>. QED BY <2>2, <3>2 DEF Frames!Abstract!Next
  <2>. QED BY <2>3, <2>4
<1>10. ASSUME Frames!PopFails
       PROVE  Stored' /\ Frames!Abstract!Next
  <2>1. frame = <<>> /\ frame' = frame /\ cached_frame' = cached_frame /\ qcount' = qcount /\ out' = NoObj
    BY <1>10 DEF Frames!PopFails
  <2>2. Stored' /\ d = c /\ c = <<>>
    BY <1>1, <1>2, <2>1, StoredNext, NothingStored
  <2>3. Frames!Abstract!PopNothing
    BY <1>3, <2>1, <2>2 DEF Frames!Abstract!PopNothing
  <2>. QED BY <2>2, <2>3 DEF Frames!Abstract!Next
<1>11. ASSUME Frames!tt_queue_pop_head
       PROVE  Stored' /\ Frames!Abstract!Next
  <2>1. PICK f : f = [frame[1] EXCEPT !.start = frame[1].start + 1]
    OBVIOUS
  <2>2. /\ frame # <<>>
        /\ frame' = IF Frames!Spent(f) THEN Tail(frame) ELSE [frame EXCEPT ![1] = f]
        /\ cached_frame' = IF Frames!Spent(f) THEN Frames!Freed(f) ELSE cached_frame
        /\ out' = f.obj[f.start - 1] /\ qcount' = qcount - 1
    BY <1>11, <2>1, Zenon DEF Frames!tt_queue_pop_head
  <2>3. /\ Filled(frame') /\ Shaped(frame') /\ f \in Frame /\ out' \in Value
        /\ ContentsOf(frame) = <<out'>> \o ContentsOf(frame')
    <3>1. PICK s, t, v : s = frame /\ t = frame' /\ v = out'
      OBVIOUS
    <3>2. Filled(s) /\ Shaped(s) /\ s # <<>> /\ OutAtHead(s, f, t, v)
      BY ONLY <1>1, <2>1, <2>2, <3>1, Zenon DEF OutAtHead
    <3>3. /\ Filled(t) /\ Shaped(t) /\ f \in Frame /\ v \in Value
          /\ ContentsOf(s) = <<v>> \o ContentsOf(t)
      BY ONLY <3>2, HeadPopped
    <3>. QED BY ONLY <3>1, <3>3, Zenon
  <2>4. d \in Seq(Value) /\ c \in Seq(Obj) /\ c = <<out'>> \o d
    BY <1>1, <1>2, <2>3, ContentsType
  <2>5. c # <<>> /\ Head(c) = out' /\ Tail(c) = d /\ d \in Seq(Obj) /\ Len(d) = Len(c) - 1
    BY ONLY <2>3, <2>4, FrontGone
  <2>6. Cached(cached_frame')
    BY <1>1, <2>2, <2>3 DEF Cached, Frames!Freed
  <2>7. Stored'
    BY <1>1, <1>2, <2>2, <2>3, <2>5, <2>6, StoredNext
  <2>8. Frames!Abstract!PopHead
    BY <1>3, <2>5 DEF Frames!Abstract!PopHead
  <2>. QED BY <2>7, <2>8 DEF Frames!Abstract!Next
<1>12. ASSUME Frames!tt_queue_pop_tail
       PROVE  Stored' /\ Frames!Abstract!Next
  <2>1. PICK f : f = [frame[Len(frame)] EXCEPT !.end = frame[Len(frame)].end - 1]
    OBVIOUS
  <2>2. /\ frame # <<>>
        /\ frame' = IF Frames!Spent(f) THEN SubSeq(frame, 1, Len(frame) - 1)
                    ELSE [frame EXCEPT ![Len(frame)] = f]
        /\ cached_frame' = IF Frames!Spent(f) THEN Frames!Freed(f) ELSE cached_frame
        /\ out' = f.obj[f.end] /\ qcount' = qcount - 1
    BY <1>12, <2>1, Zenon DEF Frames!tt_queue_pop_tail, Frames!Tailmost
  <2>3. /\ Filled(frame') /\ Shaped(frame') /\ f \in Frame /\ out' \in Value
        /\ ContentsOf(frame) = Append(ContentsOf(frame'), out')
    <3>1. PICK s, t, v : s = frame /\ t = frame' /\ v = out'
      OBVIOUS
    <3>2. Filled(s) /\ Shaped(s) /\ s # <<>> /\ OutAtTail(s, f, t, v)
      BY ONLY <1>1, <2>1, <2>2, <3>1, Zenon DEF OutAtTail
    <3>3. /\ Filled(t) /\ Shaped(t) /\ f \in Frame /\ v \in Value
          /\ ContentsOf(s) = Append(ContentsOf(t), v)
      BY ONLY <3>2, TailPopped
    <3>. QED BY ONLY <3>1, <3>3, Zenon
  <2>4. d \in Seq(Value) /\ c \in Seq(Obj) /\ c = Append(d, out')
    BY <1>1, <1>2, <2>3, ContentsType
  <2>5. c # <<>> /\ c[Len(c)] = out' /\ SubSeq(c, 1, Len(c) - 1) = d /\ d \in Seq(Obj) /\ Len(d) = Len(c) - 1
    BY ONLY <2>3, <2>4, BackGone
  <2>6. Cached(cached_frame')
    BY <1>1, <2>2, <2>3 DEF Cached, Frames!Freed
  <2>7. Stored'
    BY <1>1, <1>2, <2>2, <2>3, <2>5, <2>6, StoredNext
  <2>8. Frames!Abstract!PopTail
    BY <1>3, <2>5 DEF Frames!Abstract!PopTail
  <2>. QED BY <2>7, <2>8 DEF Frames!Abstract!Next
<1>13. ASSUME Frames!tt_queue_clear
       PROVE  Stored' /\ Frames!Abstract!Next
  <2>1. /\ cached_frame' = IF frame = <<>> THEN cached_frame ELSE Frames!Freed(frame[1])
        /\ frame' = <<>> /\ qcount' = 0 /\ out' = NoObj
    BY <1>13 DEF Frames!tt_queue_clear
  <2>2. d = <<>> /\ Filled(frame') /\ Shaped(frame') /\ d \in Seq(Obj) /\ Len(d) = 0
    <3>1. d = <<>> /\ Filled(frame') /\ Shaped(frame')
      BY ONLY <1>2, <2>1, NothingStored, Zenon
    <3>. QED BY ONLY <3>1
  <2>3. frame # <<>> => frame[1] \in Frame
    BY <1>1
  <2>4. Cached(cached_frame')
    BY <1>1, <2>1, <2>3 DEF Cached, Frames!Freed
  <2>5. Stored'
    BY <1>2, <2>1, <2>2, <2>4, StoredNext
  <2>6. Frames!Abstract!Clear
    BY <1>3, <2>1, <2>2 DEF Frames!Abstract!Clear
  <2>. QED BY <2>5, <2>6 DEF Frames!Abstract!Next
<1>. QED BY <1>6, <1>7, <1>8, <1>9, <1>10, <1>11, <1>12, <1>13 DEF Frames!Next

LEMMA QueueStart ==
    ASSUME Frames!Init
    PROVE  Stored /\ Frames!Abstract!Init
<1>1. frame = <<>> /\ cached_frame = <<>> /\ qcount = 0 /\ out = NoObj
  BY DEF Frames!Init
<1>2. Frames!Contents = <<>> /\ ContentsOf(frame) = <<>>
  BY <1>1, ContentsIs, NothingStored
<1>3. Filled(frame) /\ Shaped(frame)
  BY <1>1, NothingStored
<1>4. Stored
  <2>1. ContentsOf(frame) \in Seq(Obj) /\ Len(ContentsOf(frame)) = 0
    BY ONLY <1>2
  <2>. QED BY <1>1, <1>3, <2>1 DEF Stored
<1>. QED BY <1>1, <1>2, <1>4 DEF Frames!Abstract!Init

LEMMA QueueMoves == Stored /\ [Frames!Next]_(Frames!vars) => Stored' /\ [Frames!Abstract!Next]_(Frames!Abstract!dequeVars)
<1>1. ASSUME Stored, Frames!Next PROVE Stored' /\ [Frames!Abstract!Next]_(Frames!Abstract!dequeVars)
  BY <1>1, QueueStep
<1>2. ASSUME Stored, UNCHANGED Frames!vars PROVE Stored' /\ [Frames!Abstract!Next]_(Frames!Abstract!dequeVars)
  <2>1. frame' = frame /\ cached_frame' = cached_frame /\ qcount' = qcount /\ out' = out
    BY <1>2 DEF Frames!vars
  <2>2. Stored'
    BY <1>2, <2>1 DEF Stored
  <2>3. Frames!Contents' = Frames!Contents
    BY <2>1, ContentsIs, ContentsNext
  <2>. QED BY <2>1, <2>2, <2>3 DEF Frames!Abstract!dequeVars
<1>. QED BY <1>1, <1>2

LEMMA StoredIsSound ==
    ASSUME Stored
    PROVE  QueueSound
<1>1. Frames!NoGaps
  <2>1. ASSUME NEW k \in 1 .. Frames!Tailmost
        PROVE  /\ frame[k].start < frame[k].end /\ frame[k].end <= obj_per_frame
               /\ k > 1 => frame[k].start = 0
               /\ k < Frames!Tailmost => frame[k].end = obj_per_frame
    BY FilledAt, FrameNumbers DEF Stored, Shaped, Frames!Tailmost
  <2>2. qcount = Len(Frames!Contents)
    BY ContentsIs DEF Stored
  <2>. QED BY <2>1, <2>2 DEF Frames!NoGaps
<1>. QED BY <1>1, IteratorIs, GetIs DEF QueueSound

(* tt_queue_t: whatever is pushed, popped and set, the frames hold the objects *)
(* without a gap and as many as counted, an iterator hands out every one in     *)
(* order and then NULL, and an index finds the object of its place, for any     *)
(* size of a frame and any number of objects.                                   *)
THEOREM QueueIsSound == Frames!Spec => []QueueSound
<1>1. Frames!Init => Stored
  BY QueueStart
<1>2. Stored /\ [Frames!Next]_(Frames!vars) => Stored'
  BY QueueMoves
<1>3. Stored => QueueSound
  BY StoredIsSound
<1>. QED BY <1>1, <1>2, <1>3, PTL DEF Frames!Spec

(* tt_queue_t implements the sequence of Deque, whose ends it changes.          *)
THEOREM QueueIsDeque == Frames!Spec => DequeSpec
<1>1. Frames!Init => Stored /\ Frames!Abstract!Init
  BY QueueStart
<1>2. Stored /\ [Frames!Next]_(Frames!vars) =>
         Stored' /\ [Frames!Abstract!Next]_(Frames!Abstract!dequeVars)
  BY QueueMoves
<1>. QED BY <1>1, <1>2, PTL DEF Frames!Spec, DequeSpec, Frames!DequeSpec, Frames!Abstract!Spec

-----------------------------------------------------------------------------
(* The buffer (Buffer).                                                      *)

LEMMA ModSmall ==
    ASSUME NEW m \in Nat, NEW x \in Nat, x < m
    PROVE  x % m = x
OBVIOUS

LEMMA ModOnce ==
    ASSUME NEW m \in Nat, NEW x \in Nat, m > 0, m <= x, x < m + m
    PROVE  x % m = x - m
OBVIOUS

LEMMA BufferSizes ==
    /\ MinExtend \in Nat /\ MaxExtend \in Nat /\ MaxLimit \in Nat /\ BufSpan \in Nat
    /\ InitSize \in Nat /\ MaxLen \in Nat
    /\ 0 < MinExtend /\ MinExtend < MaxExtend /\ 2 * MaxExtend < BufSpan
BY SizeAssumption

(* tt_memspg_next_size() is larger, or 0, and a tt_u32_t.                    *)
LEMMA NextSize ==
    ASSUME NEW n \in 0 .. BufSpan
    PROVE  /\ Bytes!tt_memspg_next_size(n) \in Nat /\ Bytes!tt_memspg_next_size(n) < BufSpan
           /\ Bytes!tt_memspg_next_size(n) = 0 \/ n < Bytes!tt_memspg_next_size(n)
<1>1. n \in Nat /\ n <= BufSpan
  BY BufferSizes
<1>2. CASE n < MinExtend
  BY <1>1, <1>2, BufferSizes DEF Bytes!tt_memspg_next_size
<1>3. CASE ~(n < MinExtend) /\ n <= MaxExtend
  BY <1>1, <1>3, BufferSizes DEF Bytes!tt_memspg_next_size
<1>4. CASE ~(n < MinExtend) /\ ~(n <= MaxExtend)
  <2>1. PICK x : x = (n + MaxExtend) % BufSpan
    OBVIOUS
  <2>2. Bytes!tt_memspg_next_size(n) = IF x < n \/ (MaxLimit # 0 /\ x > MaxLimit) THEN 0 ELSE x
    BY <1>4, <2>1 DEF Bytes!tt_memspg_next_size
  <2>3. x \in Nat /\ x < BufSpan /\ x # n
    <3>1. CASE n + MaxExtend < BufSpan
      <4>1. x = n + MaxExtend
        BY <1>1, <2>1, <3>1, BufferSizes, ModSmall
      <4>. QED BY <1>1, <3>1, <4>1, BufferSizes
    <3>2. CASE ~(n + MaxExtend < BufSpan)
      <4>1. /\ n + MaxExtend \in Nat /\ BufSpan <= n + MaxExtend /\ n + MaxExtend < BufSpan + BufSpan
            /\ BufSpan > 0
        BY <1>1, <3>2, BufferSizes
      <4>2. x = n + MaxExtend - BufSpan
        BY <2>1, <4>1, BufferSizes, ModOnce
      <4>. QED BY <1>1, <4>1, <4>2, BufferSizes
    <3>. QED BY <3>1, <3>2
  <2>4. CASE x < n \/ (MaxLimit # 0 /\ x > MaxLimit)
    BY <2>2, <2>4, BufferSizes
  <2>5. CASE ~(x < n \/ (MaxLimit # 0 /\ x > MaxLimit))
    <3>1. Bytes!tt_memspg_next_size(n) = x
      BY <2>2, <2>5
    <3>2. n < x
      BY <1>1, <2>3, <2>5
    <3>. QED BY <2>3, <3>1, <3>2
  <2>. QED BY <2>4, <2>5
<1>. QED BY <1>2, <1>3, <1>4

(* tt_memspg_extend_ex() comes to an end, at a size that is large enough, or   *)
(* at 0.                                                                     *)
LEMMA GrownFacts ==
    ASSUME NEW n \in 0 .. BufSpan, NEW to \in Nat
    PROVE  /\ Bytes!Grown(n, to) \in Nat
           /\ Bytes!Grown(n, to) = 0 \/ (n < Bytes!Grown(n, to) /\ to <= Bytes!Grown(n, to))
<1> DEFINE S == 0 .. BufSpan
           N(k) == Bytes!tt_memspg_next_size(k)
           Stop(k) == k = 0 \/ k >= to
           step == [k \in S |-> IF Stop(k) THEN k ELSE N(k)]
           g == CHOOSE f : f = [k \in S |->
                    LET larger == N(k) IN IF larger = 0 \/ larger >= to THEN larger ELSE f[larger]]
<1>1. \A k \in S : N(k) \in S /\ N(k) \in Nat /\ N(k) < BufSpan /\ (N(k) = 0 \/ k < N(k))
  <2>1. ASSUME NEW k \in S
        PROVE  N(k) \in S /\ N(k) \in Nat /\ N(k) < BufSpan /\ (N(k) = 0 \/ k < N(k))
    <3>1. N(k) \in Nat /\ N(k) < BufSpan /\ (N(k) = 0 \/ k < N(k))
      BY NextSize
    <3>. QED BY <3>1, BufferSizes
  <2>. QED BY <2>1
<1>2. S \subseteq Nat
  BY BufferSizes
<1>. HIDE DEF S, N
<1>3. step \in [S -> S] /\ \A k \in S : step[k] = IF Stop(k) THEN k ELSE N(k)
  BY <1>1
<1>. HIDE DEF step
<1>4. PICK h : IsLoop(h, S, step)
  BY <1>3, LoopExists
<1>5. \A k \in S : h[k] = IF Stop(k) THEN k ELSE h[N(k)]
  <2>1. ASSUME NEW k \in S PROVE h[k] = IF Stop(k) THEN k ELSE h[N(k)]
    <3>1. h[k] = IF step[k] = k THEN k ELSE h[step[k]]
      BY <1>4 DEF IsLoop
    <3>2. CASE Stop(k)
      <4>1. step[k] = k
        BY <1>3, <3>2
      <4>. QED BY <3>1, <3>2, <4>1
    <3>3. CASE ~Stop(k)
      <4>1. step[k] = N(k)
        BY <1>3, <3>3
      <4>2. N(k) # k
        BY <1>1, <1>2, <3>3
      <4>. QED BY <3>1, <3>3, <4>1, <4>2
    <3>. QED BY <3>2, <3>3
  <2>. QED BY <2>1
<1>6. PICK f : f = [k \in S |-> h[N(k)]]
  OBVIOUS
<1>7. f = [k \in S |-> LET larger == N(k) IN IF larger = 0 \/ larger >= to THEN larger ELSE f[larger]]
  <2>1. ASSUME NEW k \in S
        PROVE  f[k] = LET larger == N(k) IN IF larger = 0 \/ larger >= to THEN larger ELSE f[larger]
    <3>1. f[k] = h[N(k)] /\ N(k) \in S
      BY <1>1, <1>6
    <3>2. h[N(k)] = IF Stop(N(k)) THEN N(k) ELSE h[N(N(k))]
      BY <1>5, <3>1
    <3>3. f[N(k)] = h[N(N(k))]
      BY <1>6, <3>1
    <3>. QED BY <3>1, <3>2, <3>3
  <2>. QED BY <1>6, <2>1
<1>8. g = [k \in S |-> LET larger == N(k) IN IF larger = 0 \/ larger >= to THEN larger ELSE g[larger]]
  BY <1>7, Zenon
<1>9. Bytes!Grown(n, to) = g[n]
  BY Zenon DEF Bytes!Grown, S, N
<1>. HIDE DEF g
<1>10. \A k \in S : g[k] = IF N(k) = 0 \/ N(k) >= to THEN N(k) ELSE g[N(k)]
  BY <1>8
<1> DEFINE Good(k) == g[k] \in Nat /\ (g[k] = 0 \/ (k < g[k] /\ to <= g[k]))
           T == {d \in Nat : \A k \in S : k + d >= BufSpan => Good(k)}
<1>11. 0 \in T
  <2>1. ASSUME NEW k \in S, k + 0 >= BufSpan PROVE Good(k)
    <3>1. k = BufSpan /\ k \in Nat
      BY <1>2, <2>1, BufferSizes DEF S
    <3>2. N(k) = 0
      BY <1>1, <3>1
    <3>. QED BY <1>10, <3>2
  <2>. QED BY <2>1
<1>12. ASSUME NEW d \in T PROVE d + 1 \in T
  <2>1. ASSUME NEW k \in S, k + (d + 1) >= BufSpan PROVE Good(k)
    <3>1. k \in Nat /\ d \in Nat /\ N(k) \in S /\ N(k) \in Nat /\ (N(k) = 0 \/ k < N(k))
      BY <1>1, <1>2
    <3>2. CASE N(k) = 0 \/ N(k) >= to
      BY <1>10, <3>1, <3>2
    <3>3. CASE ~(N(k) = 0 \/ N(k) >= to)
      <4>1. N(k) + d >= BufSpan
        BY <2>1, <3>1, <3>3, BufferSizes
      <4>2. Good(N(k))
        BY <3>1, <4>1
      <4>3. g[k] = g[N(k)]
        BY <1>10, <3>3
      <4>. QED BY <3>1, <3>3, <4>2, <4>3
    <3>. QED BY <3>2, <3>3
  <2>. QED BY <2>1
<1>13. T \subseteq Nat
  OBVIOUS
<1>. HIDE DEF T
<1>14. \A d \in Nat : d \in T
  BY <1>11, <1>12, <1>13, AllNumbers
<1>15. Good(n)
  <2>1. n \in S /\ n \in Nat /\ BufSpan \in T /\ n + BufSpan >= BufSpan
    BY <1>14, BufferSizes DEF S
  <2>. QED BY <2>1 DEF T
<1>. QED BY <1>9, <1>15

Cell == Byte \cup {Dirt}

\* A buffer, with its positions where TT_BUF_CHECK() wants them.
Sized(b) ==
    /\ b \in [p : Seq(Cell), place : {"init", "heap", "user"}, rpos : Nat, wpos : Nat]
    /\ b.rpos <= b.wpos /\ b.wpos <= Len(b.p)

\* c has the bytes of b, and maybe more room.
Roomier(b, c) ==
    /\ Sized(c) /\ c.rpos = b.rpos /\ c.wpos = b.wpos
    /\ Len(b.p) <= Len(c.p) /\ \A k \in 1 .. Len(b.p) : c.p[k] = b.p[k]

\* Outcome o of a call on b: s can be read and q is before it, or it failed.
Yields(o, b, s, q) ==
    \/ o = Bytes!Fail(b)
    \/ /\ o.ok = TRUE /\ Sized(o.b)
       /\ Bytes!Readable(o.b) = s /\ Bytes!Past(o.b) = q

LEMMA SizedFacts ==
    ASSUME NEW b, Sized(b)
    PROVE  /\ b.p \in Seq(Cell) /\ b.rpos \in Nat /\ b.wpos \in Nat /\ Len(b.p) \in Nat
           /\ b.rpos <= b.wpos /\ b.wpos <= Len(b.p) /\ DOMAIN b.p = 1 .. Len(b.p)
           /\ b.place \in {"init", "heap", "user"}
           /\ b = [p |-> b.p, place |-> b.place, rpos |-> b.rpos, wpos |-> b.wpos]
           /\ \A k \in 1 .. Len(b.p) : b.p[k] \in Cell
BY DEF Sized

LEMMA SizedIs ==
    ASSUME NEW p \in Seq(Cell), NEW place \in {"init", "heap", "user"}, NEW r \in Nat, NEW w \in Nat,
           r <= w, w <= Len(p), NEW b, b = [p |-> p, place |-> place, rpos |-> r, wpos |-> w]
    PROVE  Sized(b) /\ b.p = p /\ b.place = place /\ b.rpos = r /\ b.wpos = w
BY DEF Sized

\* One field after the other.
\* e is b with array r, in memory of its own.
Moved(e, b, r) == e = [b EXCEPT !.p = r, !.place = "heap"]

LEMMA ArrayMoved ==
    ASSUME NEW p, NEW pl, NEW rp, NEW wp, NEW r, NEW b, NEW e,
           b = [p |-> p, place |-> pl, rpos |-> rp, wpos |-> wp],
           Moved(e, b, r)
    PROVE  e = [p |-> r, place |-> "heap", rpos |-> rp, wpos |-> wp]
<1>1. e = [[b EXCEPT !.p = r] EXCEPT !.place = "heap"]
  BY DEF Moved
<1>2. [b EXCEPT !.p = r] = [p |-> r, place |-> pl, rpos |-> rp, wpos |-> wp]
  OBVIOUS
<1>3. [[p |-> r, place |-> pl, rpos |-> rp, wpos |-> wp] EXCEPT !.place = "heap"]
          = [p |-> r, place |-> "heap", rpos |-> rp, wpos |-> wp]
  OBVIOUS
<1>. QED BY ONLY <1>1, <1>2, <1>3, Zenon

LEMMA BothSet ==
    ASSUME NEW p, NEW pl, NEW rp, NEW wp, NEW r, NEW w, NEW b,
           b = [p |-> p, place |-> pl, rpos |-> rp, wpos |-> wp]
    PROVE  [b EXCEPT !.rpos = r, !.wpos = w] = [p |-> p, place |-> pl, rpos |-> r, wpos |-> w]
<1>1. [b EXCEPT !.rpos = r, !.wpos = w] = [[b EXCEPT !.rpos = r] EXCEPT !.wpos = w]
  OBVIOUS
<1>2. [b EXCEPT !.rpos = r] = [p |-> p, place |-> pl, rpos |-> r, wpos |-> wp]
  OBVIOUS
<1>3. [[p |-> p, place |-> pl, rpos |-> r, wpos |-> wp] EXCEPT !.wpos = w]
          = [p |-> p, place |-> pl, rpos |-> r, wpos |-> w]
  OBVIOUS
<1>. QED BY ONLY <1>1, <1>2, <1>3, Zenon

\* e is b with its positions at r and w.
Positioned(e, b, r, w) == e = [p |-> b.p, place |-> b.place, rpos |-> r, wpos |-> w]

LEMMA PositionsSet ==
    ASSUME NEW b, Sized(b), NEW r, NEW w, NEW e,
           \/ e = [b EXCEPT !.rpos = r, !.wpos = w]
           \/ e = [b EXCEPT !.rpos = r] /\ w = b.wpos
           \/ e = [b EXCEPT !.wpos = w] /\ r = b.rpos
    PROVE  Positioned(e, b, r, w)
<1>1. PICK p, pl, rp, wp : p = b.p /\ pl = b.place /\ rp = b.rpos /\ wp = b.wpos
  OBVIOUS
<1>2. b = [p |-> p, place |-> pl, rpos |-> rp, wpos |-> wp]
  BY ONLY <1>1, SizedFacts, Sized(b)
<1>3. CASE e = [b EXCEPT !.rpos = r, !.wpos = w]
  <2>1. e = [p |-> p, place |-> pl, rpos |-> r, wpos |-> w]
    BY ONLY <1>2, <1>3, BothSet, Zenon
  <2>. QED BY ONLY <1>1, <2>1 DEF Positioned
<1>4. CASE e = [b EXCEPT !.rpos = r] /\ w = b.wpos
  <2>1. e = [p |-> p, place |-> pl, rpos |-> r, wpos |-> wp]
    BY ONLY <1>2, <1>4
  <2>. QED BY ONLY <1>1, <1>4, <2>1 DEF Positioned
<1>5. CASE e = [b EXCEPT !.wpos = w] /\ r = b.rpos
  <2>1. e = [p |-> p, place |-> pl, rpos |-> rp, wpos |-> w]
    BY ONLY <1>2, <1>5
  <2>. QED BY ONLY <1>1, <1>5, <2>1 DEF Positioned
<1>. QED BY <1>3, <1>4, <1>5

LEMMA AtFacts ==
    ASSUME NEW b, Sized(b), NEW r \in Nat, NEW w \in Nat, r <= w, w <= Len(b.p), NEW e, Positioned(e, b, r, w)
    PROVE  Sized(e) /\ e.p = b.p /\ e.place = b.place /\ e.rpos = r /\ e.wpos = w
<1>1. b.p \in Seq(Cell) /\ b.place \in {"init", "heap", "user"}
  BY SizedFacts
<1>. QED BY <1>1, SizedIs DEF Positioned

(* The bytes that can be read, and those before them.                       *)
LEMMA ReadableFacts ==
    ASSUME NEW b, Sized(b)
    PROVE  /\ Bytes!Readable(b) \in Seq(Cell) /\ Len(Bytes!Readable(b)) = b.wpos - b.rpos
           /\ b.wpos - b.rpos \in Nat
           /\ \A i \in 1 .. b.wpos - b.rpos : Bytes!Readable(b)[i] = b.p[b.rpos + i]
<1>1. PICK p, r, w : p = b.p /\ r = b.rpos /\ w = b.wpos
  OBVIOUS
<1>2. p \in Seq(Cell) /\ r \in Nat /\ w \in Nat /\ r <= w /\ w <= Len(p) /\ Len(p) \in Nat
  BY <1>1, SizedFacts
<1>3. \A i \in r + 1 .. w : p[i] \in Cell
  BY <1>2
<1>4. PICK s : s = SubSeq(p, r + 1, w)
  OBVIOUS
<1>5. /\ s \in Seq(Cell) /\ Len(s) = IF r + 1 <= w THEN w - (r + 1) + 1 ELSE 0
      /\ \A i \in 1 .. w - (r + 1) + 1 : s[i] = p[r + 1 + i - 1]
  BY <1>2, <1>3, <1>4, SubSeqProperties
<1>6. Len(s) = w - r /\ w - r \in Nat /\ \A i \in 1 .. w - r : s[i] = p[r + i]
  <2>1. w - (r + 1) + 1 = w - r /\ \A i \in 1 .. w - r : r + 1 + i - 1 = r + i
    BY <1>2
  <2>2. Len(s) = w - r
    BY <1>2, <1>5
  <2>. QED BY <1>2, <1>5, <2>1, <2>2
<1>7. Bytes!Readable(b) = s
  BY <1>1, <1>4 DEF Bytes!Readable
<1>. QED BY <1>1, <1>5, <1>6, <1>7

LEMMA PastFacts ==
    ASSUME NEW b, Sized(b)
    PROVE  /\ Bytes!Past(b) \in Seq(Cell) /\ Len(Bytes!Past(b)) = b.rpos
           /\ \A i \in 1 .. b.rpos : Bytes!Past(b)[i] = b.p[i]
<1>1. PICK p, r : p = b.p /\ r = b.rpos
  OBVIOUS
<1>2. p \in Seq(Cell) /\ r \in Nat /\ r <= Len(p) /\ Len(p) \in Nat
  BY <1>1, SizedFacts
<1>3. \A i \in 1 .. r : p[i] \in Cell
  BY <1>2
<1>4. PICK s : s = SubSeq(p, 1, r)
  OBVIOUS
<1>5. /\ s \in Seq(Cell) /\ Len(s) = IF 1 <= r THEN r - 1 + 1 ELSE 0
      /\ \A i \in 1 .. r - 1 + 1 : s[i] = p[1 + i - 1]
  BY <1>2, <1>3, <1>4, SubSeqProperties
<1>6. Len(s) = r /\ \A i \in 1 .. r : s[i] = p[i]
  <2>1. r - 1 + 1 = r /\ \A i \in 1 .. r : 1 + i - 1 = i
    BY <1>2
  <2>2. Len(s) = r
    BY <1>2, <1>5
  <2>. QED BY <1>5, <2>1, <2>2
<1>7. Bytes!Past(b) = s
  BY <1>1, <1>4 DEF Bytes!Past
<1>. QED BY <1>1, <1>5, <1>6, <1>7

LEMMA ReadableIs ==
    ASSUME NEW b, Sized(b), NEW s \in Seq(Cell), Len(s) = b.wpos - b.rpos,
           \A i \in 1 .. Len(s) : b.p[b.rpos + i] = s[i]
    PROVE  Bytes!Readable(b) = s
<1>1. PICK t : t = Bytes!Readable(b)
  OBVIOUS
<1>2. t \in Seq(Cell) /\ Len(t) = Len(s) /\ \A i \in 1 .. Len(s) : t[i] = s[i]
  BY <1>1, ReadableFacts
<1>3. t = s
  BY ONLY <1>2, s \in Seq(Cell), SeqEqual
<1>. QED BY <1>1, <1>3

LEMMA PastIs ==
    ASSUME NEW b, Sized(b), NEW q \in Seq(Cell), Len(q) = b.rpos, \A i \in 1 .. Len(q) : b.p[i] = q[i]
    PROVE  Bytes!Past(b) = q
<1>1. PICK t : t = Bytes!Past(b)
  OBVIOUS
<1>2. t \in Seq(Cell) /\ Len(t) = Len(q) /\ \A i \in 1 .. Len(q) : t[i] = q[i]
  BY <1>1, PastFacts
<1>3. t = q
  BY ONLY <1>2, q \in Seq(Cell), SeqEqual
<1>. QED BY <1>1, <1>3

\* x is b with s written from the place after i on, and the rest left.
Over(x, b, i, s) ==
    /\ Sized(x) /\ x.place = b.place /\ x.rpos = b.rpos /\ x.wpos = b.wpos
    /\ Len(x.p) = Len(b.p)
    /\ \A k \in 1 .. Len(b.p) : x.p[k] = IF k - i \in 1 .. Len(s) THEN s[k - i] ELSE b.p[k]

LEMMA WrittenFacts ==
    ASSUME NEW b, Sized(b), NEW i \in Nat, NEW s \in Seq(Cell), NEW w, w = Bytes!Written(b, i, s)
    PROVE  Over(w, b, i, s)
<1>1. PICK p : p = b.p
  OBVIOUS
<1>2. p \in Seq(Cell) /\ DOMAIN p = 1 .. Len(p) /\ Len(p) \in Nat /\ DOMAIN s = 1 .. Len(s)
      /\ b = [p |-> p, place |-> b.place, rpos |-> b.rpos, wpos |-> b.wpos]
  BY <1>1, SizedFacts
<1>3. PICK r : r = [k \in 1 .. Len(p) |-> IF k - i \in 1 .. Len(s) THEN s[k - i] ELSE p[k]]
  OBVIOUS
<1>4. \A k \in 1 .. Len(p) : r[k] = IF k - i \in 1 .. Len(s) THEN s[k - i] ELSE p[k]
  BY <1>3
<1>5. \A k \in 1 .. Len(p) : r[k] \in Cell
  <2>1. \A k \in 1 .. Len(p) : p[k] \in Cell
    BY <1>2
  <2>2. \A k \in 1 .. Len(s) : s[k] \in Cell
    OBVIOUS
  <2>. QED BY <1>4, <2>1, <2>2
<1>6. r \in Seq(Cell) /\ Len(r) = Len(p)
  <2>1. r = [k \in 1 .. Len(p) |-> r[k]]
    BY <1>3
  <2>2. r \in [1 .. Len(p) -> Cell]
    BY <1>5, <2>1
  <2>. QED BY <1>2, <2>2
<1>7. w = [p |-> r, place |-> b.place, rpos |-> b.rpos, wpos |-> b.wpos]
  <2>1. r = [k \in DOMAIN p |-> IF k - i \in DOMAIN s THEN s[k - i] ELSE p[k]]
    BY ONLY <1>2, <1>3, Zenon
  <2>2. w = [b EXCEPT !.p = r]
    BY ONLY <1>1, <2>1, w = Bytes!Written(b, i, s), Zenon DEF Bytes!Written
  <2>. QED BY ONLY <1>2, <2>2
<1>8. /\ b.place \in {"init", "heap", "user"} /\ b.rpos \in Nat /\ b.wpos \in Nat
      /\ b.rpos <= b.wpos /\ b.wpos <= Len(r)
  BY <1>1, <1>6, SizedFacts
<1>9. Sized(w) /\ w.p = r /\ w.place = b.place /\ w.rpos = b.rpos /\ w.wpos = b.wpos
  BY ONLY <1>6, <1>7, <1>8, SizedIs
<1>. QED BY <1>1, <1>4, <1>6, <1>9 DEF Over

LEMMA DataFacts ==
    ASSUME NEW d \in Bytes!Data
    PROVE  d \in Seq(Cell) /\ Len(d) \in Nat
<1>1. PICK n \in 0 .. MaxLen : d \in [1 .. n -> Byte]
  BY DEF Bytes!Data
<1>2. n \in Nat
  BY BufferSizes
<1>3. d \in [1 .. n -> Cell]
  BY <1>1 DEF Cell
<1>4. d \in Seq(Cell) /\ Len(d) = n
  BY <1>2, <1>3
<1>. QED BY <1>2, <1>4

LEMMA UnsetFacts ==
    ASSUME NEW n \in Nat
    PROVE  Bytes!Unset(n) \in Seq(Cell) /\ Len(Bytes!Unset(n)) = n
BY DEF Bytes!Unset, Cell

(* A larger array keeps what is in the old one.                             *)
LEMMA ExtendFacts ==
    ASSUME NEW b, Sized(b), NEW to \in Nat, Len(b.p) < to, to < BufSpan,
           NEW o \in Bytes!__buf_extend(b, to)
    PROVE  \/ o = Bytes!Fail(b)
           \/ /\ o = Bytes!OK(o.b) /\ Roomier(b, o.b) /\ to <= Len(o.b.p)
              /\ ~Bytes!ReadOnly(b)
<1>. SUFFICES ASSUME o # Bytes!Fail(b)
              PROVE  /\ o = Bytes!OK(o.b) /\ Roomier(b, o.b) /\ to <= Len(o.b.p)
                     /\ ~Bytes!ReadOnly(b)
  OBVIOUS
<1>1. PICK n, m : n = Len(b.p) /\ m = Bytes!Grown(n, to)
  OBVIOUS
<1>2. ~Bytes!ReadOnly(b) /\ o \in Bytes!Extended(b, to)
  BY DEF Bytes!__buf_extend
<1>3. m # 0 /\ o = Bytes!OK([b EXCEPT !.p = b.p \o Bytes!Unset(m - n), !.place = "heap"])
  BY <1>1, <1>2 DEF Bytes!Extended, Bytes!size
<1>4. n \in Nat /\ n \in 0 .. BufSpan
  BY <1>1, SizedFacts, BufferSizes
<1>5. m \in Nat /\ n < m /\ to <= m
  BY <1>1, <1>3, <1>4, GrownFacts
<1>6. Bytes!Unset(m - n) \in Seq(Cell) /\ Len(Bytes!Unset(m - n)) = m - n
  <2>1. m - n \in Nat
    BY <1>4, <1>5
  <2>. QED BY ONLY <2>1, UnsetFacts
<1>7. PICK p, r : p = b.p /\ r = b.p \o Bytes!Unset(m - n)
  OBVIOUS
<1>8. p \in Seq(Cell) /\ b = [p |-> p, place |-> b.place, rpos |-> b.rpos, wpos |-> b.wpos]
  BY <1>7, SizedFacts
<1>9. Split(r, p, Bytes!Unset(m - n), Cell)
  BY ONLY <1>6, <1>7, <1>8, SplitFacts
<1>10. r \in Seq(Cell) /\ Len(r) = m /\ \A k \in 1 .. n : r[k] = p[k]
  <2>1. r \in Seq(Cell) /\ Len(r) = n + (m - n) /\ \A k \in 1 .. n : r[k] = p[k]
    BY ONLY <1>1, <1>6, <1>7, <1>9 DEF Split
  <2>. QED BY ONLY <1>4, <1>5, <2>1
<1>11. PICK c : c = [p |-> r, place |-> "heap", rpos |-> b.rpos, wpos |-> b.wpos]
  OBVIOUS
<1>12. o = Bytes!OK(c)
  <2>1. PICK e : e = [b EXCEPT !.p = r, !.place = "heap"]
    OBVIOUS
  <2>2. PICK pl, rp, wp : pl = b.place /\ rp = b.rpos /\ wp = b.wpos
    OBVIOUS
  <2>3. b = [p |-> p, place |-> pl, rpos |-> rp, wpos |-> wp]
    BY ONLY <1>8, <2>2
  <2>4. e = [p |-> r, place |-> "heap", rpos |-> rp, wpos |-> wp]
    <3>1. Moved(e, b, r)
      BY ONLY <2>1, Zenon DEF Moved
    <3>. QED BY ONLY <2>3, <3>1, ArrayMoved
  <2>5. e = c
    BY ONLY <1>11, <2>2, <2>4
  <2>6. o = Bytes!OK([b EXCEPT !.p = r, !.place = "heap"])
    BY ONLY <1>3, <1>7, Zenon
  <2>. QED BY ONLY <2>1, <2>5, <2>6, Zenon
<1>13. o.b = c
  BY <1>12 DEF Bytes!OK
<1>14. Sized(c) /\ c.p = r /\ c.rpos = b.rpos /\ c.wpos = b.wpos
  <2>1. b.rpos \in Nat /\ b.wpos \in Nat /\ b.rpos <= b.wpos /\ b.wpos <= Len(r)
    BY <1>1, <1>4, <1>5, <1>10, SizedFacts
  <2>. QED BY ONLY <1>10, <1>11, <2>1, SizedIs
<1>15. Roomier(b, c)
  <2>1. Len(b.p) <= Len(c.p) /\ \A k \in 1 .. Len(b.p) : c.p[k] = b.p[k]
    <3>1. Len(b.p) = n /\ Len(c.p) = m /\ c.p = r /\ b.p = p
      BY ONLY <1>1, <1>7, <1>10, <1>14
    <3>. QED BY ONLY <1>4, <1>5, <1>10, <3>1
  <2>. QED BY ONLY <1>14, <2>1 DEF Roomier
<1>16. to <= Len(c.p)
  BY ONLY <1>5, <1>10, <1>14
<1>. QED BY ONLY <1>2, <1>12, <1>13, <1>15, <1>16, Zenon

LEMMA RoomierFacts ==
    ASSUME NEW b, Sized(b), NEW c, Roomier(b, c)
    PROVE  Bytes!Readable(c) = Bytes!Readable(b) /\ Bytes!Past(c) = Bytes!Past(b)
<1>1. PICK s, q : s = Bytes!Readable(b) /\ q = Bytes!Past(b)
  OBVIOUS
<1>2. /\ s \in Seq(Cell) /\ Len(s) = b.wpos - b.rpos /\ \A i \in 1 .. b.wpos - b.rpos : s[i] = b.p[b.rpos + i]
      /\ q \in Seq(Cell) /\ Len(q) = b.rpos /\ \A i \in 1 .. b.rpos : q[i] = b.p[i]
  BY <1>1, ReadableFacts, PastFacts
<1>3. /\ Sized(c) /\ c.rpos = b.rpos /\ c.wpos = b.wpos
      /\ \A k \in 1 .. Len(b.p) : c.p[k] = b.p[k]
  BY DEF Roomier
<1>4. b.rpos \in Nat /\ b.wpos \in Nat /\ Len(b.p) \in Nat /\ b.rpos <= b.wpos /\ b.wpos <= Len(b.p)
  BY SizedFacts
<1>5. \A i \in 1 .. Len(s) : c.p[c.rpos + i] = s[i]
  <2>1. ASSUME NEW i \in 1 .. b.wpos - b.rpos PROVE c.p[b.rpos + i] = s[i]
    <3>1. PICK k : k = b.rpos + i
      OBVIOUS
    <3>2. k \in 1 .. Len(b.p)
      BY ONLY <1>4, <2>1, <3>1
    <3>3. c.p[k] = b.p[k]
      BY ONLY <1>3, <3>2
    <3>. QED BY ONLY <1>2, <2>1, <3>1, <3>3
  <2>. QED BY ONLY <1>2, <1>3, <2>1
<1>6. \A i \in 1 .. Len(q) : c.p[i] = q[i]
  BY ONLY <1>2, <1>3, <1>4
<1>7. Bytes!Readable(c) = s
  BY ONLY <1>2, <1>3, <1>5, ReadableIs
<1>8. Bytes!Past(c) = q
  BY ONLY <1>2, <1>3, <1>6, PastIs
<1>. QED BY <1>1, <1>7, <1>8

LEMMA ReserveFacts ==
    ASSUME NEW b, Sized(b), NEW n \in Nat, Len(b.p) + n < BufSpan, NEW o \in Bytes!tt_buf_reserve(b, n)
    PROVE  \/ o = Bytes!Fail(b)
           \/ o = Bytes!OK(o.b) /\ Roomier(b, o.b) /\ b.wpos + n <= Len(o.b.p)
<1>1. PICK k, w : k = Len(b.p) /\ w = b.wpos
  OBVIOUS
<1>2. k \in Nat /\ w \in Nat /\ w <= k
  BY <1>1, SizedFacts
<1>3. CASE k - w >= n
  <2>1. o = Bytes!OK(b)
    BY <1>1, <1>3 DEF Bytes!tt_buf_reserve, Bytes!TT_BUF_WLEN, Bytes!size
  <2>2. o.b = b
    BY <2>1 DEF Bytes!OK
  <2>3. Roomier(b, b)
    BY <1>1, <1>2 DEF Roomier
  <2>4. w + n <= k
    BY ONLY <1>2, <1>3, n \in Nat
  <2>. QED BY <1>1, <2>1, <2>2, <2>3, <2>4
<1>4. CASE ~(k - w >= n)
  <2>1. k + n \in Nat /\ k < k + n /\ k + n < BufSpan /\ w + n <= k + n /\ BufSpan \in Nat
    BY <1>1, <1>2, <1>4, BufferSizes
  <2>2. (k + n) % BufSpan = k + n
    BY ONLY <2>1, ModSmall
  <2>3. o \in Bytes!__buf_extend(b, k + n)
    <3>1. o \in Bytes!__buf_extend(b, (k + n) % BufSpan)
      BY <1>1, <1>4 DEF Bytes!tt_buf_reserve, Bytes!TT_BUF_WLEN, Bytes!size
    <3>. QED BY ONLY <2>2, <3>1, Zenon
  <2>4. \/ o = Bytes!Fail(b)
        \/ o = Bytes!OK(o.b) /\ Roomier(b, o.b) /\ k + n <= Len(o.b.p)
    <3>1. Len(b.p) < k + n
      BY ONLY <1>1, <2>1
    <3>. QED BY ONLY <2>1, <2>3, <3>1, Sized(b), ExtendFacts
  <2>5. ASSUME Roomier(b, o.b), k + n <= Len(o.b.p) PROVE w + n <= Len(o.b.p)
    <3>1. Len(o.b.p) \in Nat
      BY <2>5, SizedFacts DEF Roomier
    <3>. QED BY ONLY <1>2, <2>1, <2>5, <3>1, n \in Nat
  <2>. QED BY ONLY <1>1, <2>4, <2>5
<1>. QED BY <1>3, <1>4

(* Bytes written behind wpos and counted in.                                 *)
LEMMA AppendFacts ==
    ASSUME NEW c, Sized(c), NEW d \in Seq(Cell), c.wpos + Len(d) <= Len(c.p),
           NEW e, e = [Bytes!Written(c, c.wpos, d) EXCEPT !.wpos = @ + Len(d)]
    PROVE  /\ Sized(e) /\ Bytes!Past(e) = Bytes!Past(c)
           /\ Bytes!Readable(e) = Bytes!Readable(c) \o d
<1>1. PICK r, w, x : r = c.rpos /\ w = c.wpos /\ x = Bytes!Written(c, w, d)
  OBVIOUS
<1>2. r \in Nat /\ w \in Nat /\ r <= w /\ w <= Len(c.p) /\ Len(c.p) \in Nat
  BY <1>1, SizedFacts
<1>3. Len(d) \in Nat /\ w + Len(d) <= Len(c.p)
  BY <1>1
<1>4. /\ Sized(x) /\ x.rpos = r /\ x.wpos = w /\ Len(x.p) = Len(c.p)
      /\ \A k \in 1 .. Len(c.p) : x.p[k] = IF k - w \in 1 .. Len(d) THEN d[k - w] ELSE c.p[k]
  <2>1. Over(x, c, w, d)
    BY ONLY <1>1, <1>2, Sized(c), d \in Seq(Cell), WrittenFacts
  <2>. QED BY ONLY <1>1, <2>1 DEF Over
<1>5. Positioned(e, x, r, w + Len(d))
  <2>1. e = [x EXCEPT !.wpos = w + Len(d)]
    <3>1. e = [x EXCEPT !.wpos = x.wpos + Len(d)]
      BY <1>1
    <3>. QED BY ONLY <1>4, <3>1, Zenon
  <2>. QED BY ONLY <1>4, <2>1, PositionsSet
<1>6. Sized(e) /\ e.p = x.p /\ e.rpos = r /\ e.wpos = w + Len(d)
  <2>1. w + Len(d) \in Nat /\ r <= w + Len(d) /\ w + Len(d) <= Len(x.p)
    BY ONLY <1>2, <1>3, <1>4
  <2>. QED BY ONLY <1>2, <1>4, <1>5, <2>1, AtFacts
<1>7. PICK s, q : s = Bytes!Readable(c) /\ q = Bytes!Past(c)
  OBVIOUS
<1>8. /\ s \in Seq(Cell) /\ Len(s) = w - r /\ \A i \in 1 .. w - r : s[i] = c.p[r + i]
      /\ q \in Seq(Cell) /\ Len(q) = r /\ \A i \in 1 .. r : q[i] = c.p[i]
  BY <1>1, <1>7, ReadableFacts, PastFacts
<1>9. PICK t : t = s \o d
  OBVIOUS
<1>10. /\ t \in Seq(Cell) /\ Len(t) = (w - r) + Len(d) /\ \A i \in 1 .. w - r : t[i] = s[i]
       /\ \A j \in 1 .. Len(d) : t[(w - r) + j] = d[j]
  <2>1. Split(t, s, d, Cell)
    BY ONLY <1>8, <1>9, d \in Seq(Cell), SplitFacts
  <2>. QED BY ONLY <1>8, <2>1 DEF Split
<1>11. \A i \in 1 .. Len(t) : e.p[e.rpos + i] = t[i]
  <2>1. ASSUME NEW i \in 1 .. (w - r) + Len(d) PROVE x.p[r + i] = t[i]
    <3>1. CASE i <= w - r
      <4>1. PICK k : k = r + i
        OBVIOUS
      <4>2. k \in 1 .. Len(c.p) /\ k - w \notin 1 .. Len(d) /\ i \in 1 .. w - r
        BY ONLY <1>2, <1>3, <2>1, <3>1, <4>1
      <4>3. x.p[k] = c.p[k]
        BY ONLY <1>4, <4>2
      <4>. QED BY ONLY <1>8, <1>10, <4>1, <4>2, <4>3
    <3>2. CASE ~(i <= w - r)
      <4>1. PICK j, k : j = i - (w - r) /\ k = r + i
        OBVIOUS
      <4>2. k \in 1 .. Len(c.p) /\ k - w = j /\ j \in 1 .. Len(d) /\ i = (w - r) + j
        BY ONLY <1>2, <1>3, <2>1, <3>2, <4>1
      <4>3. x.p[k] = d[j]
        BY ONLY <1>4, <4>2
      <4>. QED BY ONLY <1>10, <4>1, <4>2, <4>3
    <3>. QED BY <3>1, <3>2
  <2>. QED BY ONLY <1>6, <1>10, <2>1
<1>12. \A i \in 1 .. Len(q) : e.p[i] = q[i]
  <2>1. \A i \in 1 .. r : i \in 1 .. Len(c.p) /\ i - w \notin 1 .. Len(d)
    BY ONLY <1>2, <1>3
  <2>. QED BY ONLY <1>4, <1>6, <1>8, <2>1
<1>13. Len(t) = e.wpos - e.rpos
  BY ONLY <1>2, <1>3, <1>6, <1>10
<1>14. Bytes!Readable(e) = t
  BY ONLY <1>6, <1>10, <1>11, <1>13, ReadableIs
<1>15. Bytes!Past(e) = q
  BY ONLY <1>6, <1>8, <1>12, PastIs
<1>. QED BY ONLY <1>6, <1>7, <1>9, <1>14, <1>15

LEMMA PutFacts ==
    ASSUME NEW b, Sized(b), NEW d \in Bytes!Data, Len(b.p) + Len(d) < BufSpan,
           NEW o \in Bytes!tt_buf_put(b, d)
    PROVE  Yields(o, b, Bytes!Readable(b) \o d, Bytes!Past(b))
<1>1. d \in Seq(Cell) /\ Len(d) \in Nat
  BY DataFacts
<1>2. CASE Bytes!ReadOnly(b)
  BY <1>2 DEF Bytes!tt_buf_put, Yields
<1>3. CASE ~Bytes!ReadOnly(b)
  <2>1. PICK x \in Bytes!tt_buf_reserve(b, Len(d)) :
            o = IF x.ok THEN Bytes!OK([Bytes!Written(x.b, x.b.wpos, d) EXCEPT !.wpos = @ + Len(d)]) ELSE x
    BY <1>3 DEF Bytes!tt_buf_put, Bytes!WithRoom
  <2>2. CASE x = Bytes!Fail(b)
    BY <2>1, <2>2 DEF Bytes!Fail, Yields
  <2>3. CASE x = Bytes!OK(x.b) /\ Roomier(b, x.b) /\ b.wpos + Len(d) <= Len(x.b.p)
    <3>1. PICK c : c = x.b
      OBVIOUS
    <3>2. PICK e : e = [Bytes!Written(c, c.wpos, d) EXCEPT !.wpos = @ + Len(d)]
      OBVIOUS
    <3>3. o = Bytes!OK(e)
      BY <2>1, <2>3, <3>1, <3>2 DEF Bytes!OK
    <3>4. Sized(c) /\ c.wpos + Len(d) <= Len(c.p)
      BY <2>3, <3>1 DEF Roomier
    <3>5. Sized(e) /\ Bytes!Past(e) = Bytes!Past(c) /\ Bytes!Readable(e) = Bytes!Readable(c) \o d
      BY ONLY <1>1, <3>2, <3>4, AppendFacts
    <3>6. Bytes!Readable(c) = Bytes!Readable(b) /\ Bytes!Past(c) = Bytes!Past(b)
      BY <2>3, <3>1, RoomierFacts
    <3>7. o.ok = TRUE /\ o.b = e
      BY <3>3 DEF Bytes!OK
    <3>. QED BY <3>5, <3>6, <3>7 DEF Yields
  <2>. QED BY <1>1, <2>2, <2>3, ReserveFacts
<1>. QED BY <1>2, <1>3

LEMMA BytesCut ==
    ASSUME NEW s \in Seq(Cell), NEW m \in Nat, NEW k \in Nat, m <= k, k <= Len(s),
           NEW a, a = SubSeq(s, m + 1, k)
    PROVE  a \in Seq(Cell) /\ Len(a) = k - m /\ \A j \in 1 .. k - m : a[j] = s[m + j]
<1>1. \A j \in m + 1 .. k : s[j] \in Cell
  OBVIOUS
<1>2. /\ a \in Seq(Cell) /\ Len(a) = IF m + 1 <= k THEN k - (m + 1) + 1 ELSE 0
      /\ \A j \in 1 .. k - (m + 1) + 1 : a[j] = s[m + 1 + j - 1]
  BY <1>1, SubSeqProperties
<1>3. k - (m + 1) + 1 = k - m /\ \A j \in 1 .. k - m : m + 1 + j - 1 = m + j
  OBVIOUS
<1>4. Len(a) = k - m
  BY <1>2
<1>. QED BY <1>2, <1>3, <1>4

\* t is s with d instead of the n elements from the one after i on.
Replaced(t, s, i, n, d) ==
    /\ t \in Seq(Cell) /\ Len(t) = Len(s) - n + Len(d)
    /\ \A k \in 1 .. i : t[k] = s[k]
    /\ \A k \in 1 .. Len(d) : t[i + k] = d[k]
    /\ \A k \in 1 .. Len(s) - i - n : t[i + Len(d) + k] = s[i + n + k]

LEMMA ReplacedFacts ==
    ASSUME NEW s \in Seq(Cell), NEW i \in Nat, NEW n \in Nat, i + n <= Len(s), NEW d \in Seq(Cell),
           NEW t, t = SubSeq(s, 1, i) \o d \o SubSeq(s, i + n + 1, Len(s))
    PROVE  Replaced(t, s, i, n, d)
<1>1. PICK a, c, z : a = SubSeq(s, 1, i) /\ c = SubSeq(s, i + n + 1, Len(s)) /\ z = a \o d
  OBVIOUS
<1>2. Len(s) \in Nat /\ Len(d) \in Nat /\ 0 <= i /\ i <= Len(s) /\ i + n \in Nat /\ i - 0 = i
  OBVIOUS
<1>3. a \in Seq(Cell) /\ Len(a) = i /\ \A k \in 1 .. i : a[k] = s[k]
  <2>1. a = SubSeq(s, 0 + 1, i)
    BY <1>1
  <2>2. a \in Seq(Cell) /\ Len(a) = i - 0 /\ \A k \in 1 .. i - 0 : a[k] = s[0 + k]
    BY ONLY <1>2, <2>1, s \in Seq(Cell), i \in Nat, 0 \in Nat, BytesCut
  <2>. QED BY ONLY <1>2, <2>2
<1>4. /\ c \in Seq(Cell) /\ Len(c) = Len(s) - (i + n)
      /\ \A k \in 1 .. Len(s) - (i + n) : c[k] = s[i + n + k]
  <2>1. PICK u, l : u = i + n /\ l = Len(s)
    OBVIOUS
  <2>2. u \in Nat /\ l \in Nat /\ u <= l /\ l <= Len(s) /\ c = SubSeq(s, u + 1, l)
    BY ONLY <1>1, <1>2, <2>1, i + n <= Len(s)
  <2>3. c \in Seq(Cell) /\ Len(c) = l - u /\ \A k \in 1 .. l - u : c[k] = s[u + k]
    BY ONLY <2>2, s \in Seq(Cell), BytesCut
  <2>. QED BY ONLY <2>1, <2>3
<1>5. Split(z, a, d, Cell)
  BY ONLY <1>1, <1>3, d \in Seq(Cell), SplitFacts
<1>6. /\ z \in Seq(Cell) /\ Len(z) = i + Len(d) /\ \A k \in 1 .. i : z[k] = s[k]
      /\ \A k \in 1 .. Len(d) : z[i + k] = d[k]
  BY ONLY <1>3, <1>5 DEF Split
<1>7. Split(t, z, c, Cell)
  <2>1. t = z \o c
    BY <1>1
  <2>. QED BY ONLY <2>1, <1>4, <1>6, SplitFacts
<1>8. /\ t \in Seq(Cell) /\ Len(t) = Len(z) + Len(c) /\ \A k \in 1 .. Len(z) : t[k] = z[k]
      /\ \A k \in 1 .. Len(c) : t[Len(z) + k] = c[k]
  BY ONLY <1>7 DEF Split
<1>9. Len(t) = Len(s) - n + Len(d)
  BY ONLY <1>2, <1>4, <1>6, <1>8, n \in Nat, i \in Nat
<1>10. \A k \in 1 .. i : t[k] = s[k]
  <2>1. \A k \in 1 .. i : k \in 1 .. i + Len(d)
    BY ONLY <1>2, i \in Nat
  <2>. QED BY ONLY <1>6, <1>8, <2>1
<1>11. \A k \in 1 .. Len(d) : t[i + k] = d[k]
  <2>1. \A k \in 1 .. Len(d) : i + k \in 1 .. i + Len(d)
    BY ONLY <1>2, i \in Nat
  <2>. QED BY ONLY <1>6, <1>8, <2>1
<1>12. \A k \in 1 .. Len(s) - i - n : t[i + Len(d) + k] = s[i + n + k]
  <2>1. Len(s) - i - n = Len(s) - (i + n)
    BY ONLY <1>2, i \in Nat, n \in Nat
  <2>. QED BY ONLY <1>4, <1>6, <1>8, <2>1
<1>. QED BY ONLY <1>8, <1>9, <1>10, <1>11, <1>12 DEF Replaced

(* The bytes behind are moved, then the new ones are written.                *)
LEMMA SpliceFacts ==
    ASSUME NEW c, Sized(c), NEW i \in Nat, NEW n \in Nat, c.rpos + i + n <= c.wpos, NEW d \in Seq(Cell),
           c.wpos + Len(d) - n <= Len(c.p), NEW e, e = Bytes!Spliced(c, i, n, d)
    PROVE  /\ Sized(e) /\ Bytes!Past(e) = Bytes!Past(c)
           /\ Replaced(Bytes!Readable(e), Bytes!Readable(c), i, n, d)
<1>1. PICK r, w, s, q : r = c.rpos /\ w = c.wpos /\ s = Bytes!Readable(c) /\ q = Bytes!Past(c)
  OBVIOUS
<1>2. r \in Nat /\ w \in Nat /\ r <= w /\ w <= Len(c.p) /\ Len(c.p) \in Nat
  BY <1>1, SizedFacts
<1>3. Len(d) \in Nat /\ r + i + n <= w /\ w + Len(d) - n <= Len(c.p)
  BY <1>1
<1>4. /\ s \in Seq(Cell) /\ Len(s) = w - r /\ \A k \in 1 .. w - r : s[k] = c.p[r + k]
      /\ q \in Seq(Cell) /\ Len(q) = r /\ \A k \in 1 .. r : q[k] = c.p[k]
  BY <1>1, ReadableFacts, PastFacts
<1>5. PICK tl : tl = SubSeq(s, i + n + 1, w - r)
  OBVIOUS
<1>6. PICK m : m = (w - r) - (i + n)
  OBVIOUS
<1>7. m \in Nat /\ i + n \in Nat /\ w - r \in Nat /\ i + n <= w - r
  BY ONLY <1>2, <1>3, <1>6, i \in Nat, n \in Nat
<1>8. tl \in Seq(Cell) /\ Len(tl) = m /\ \A k \in 1 .. m : tl[k] = s[i + n + k]
  <2>1. w - r <= Len(s)
    BY ONLY <1>4, <1>7
  <2>. QED BY ONLY <1>4, <1>5, <1>6, <1>7, <2>1, BytesCut
<1>9. PICK j, x, y : j = r + i + Len(d) /\ x = Bytes!Written(c, j, tl) /\ y = Bytes!Written(x, r + i, d)
  OBVIOUS
<1>10. j \in Nat /\ r + i \in Nat
  BY ONLY <1>2, <1>3, <1>9, i \in Nat
<1>11. /\ Sized(x) /\ x.rpos = r /\ x.wpos = w /\ Len(x.p) = Len(c.p)
       /\ \A k \in 1 .. Len(c.p) : x.p[k] = IF k - j \in 1 .. m THEN tl[k - j] ELSE c.p[k]
  <2>1. Over(x, c, j, tl)
    BY ONLY <1>8, <1>9, <1>10, Sized(c), WrittenFacts
  <2>. QED BY ONLY <1>1, <1>8, <2>1 DEF Over
<1>12. /\ Sized(y) /\ y.rpos = r /\ y.wpos = w /\ Len(y.p) = Len(c.p)
       /\ \A k \in 1 .. Len(c.p) : y.p[k] = IF k - (r + i) \in 1 .. Len(d) THEN d[k - (r + i)] ELSE x.p[k]
  <2>1. PICK u : u = r + i
    OBVIOUS
  <2>2. u \in Nat /\ y = Bytes!Written(x, u, d)
    BY ONLY <1>9, <1>10, <2>1
  <2>3. Over(y, x, u, d)
    BY ONLY <1>11, <2>2, d \in Seq(Cell), WrittenFacts
  <2>. QED BY ONLY <1>11, <2>1, <2>3 DEF Over
<1>13. e = [y EXCEPT !.wpos = w + Len(d) - n]
  <2>1. e = [y EXCEPT !.wpos = y.wpos + Len(d) - n]
    BY <1>1, <1>5, <1>9 DEF Bytes!Spliced, Bytes!TT_BUF_RLEN
  <2>. QED BY ONLY <1>12, <2>1, Zenon
<1>14. w + Len(d) - n \in Nat /\ r <= w + Len(d) - n /\ w + Len(d) - n <= Len(c.p)
  BY ONLY <1>2, <1>3, i \in Nat, n \in Nat
<1>15. Sized(e) /\ e.p = y.p /\ e.rpos = r /\ e.wpos = w + Len(d) - n
  <2>1. Positioned(e, y, r, w + Len(d) - n)
    BY ONLY <1>12, <1>13, PositionsSet
  <2>. QED BY ONLY <1>2, <1>12, <1>14, <2>1, AtFacts
<1>16. PICK t : t = Bytes!Readable(e)
  OBVIOUS
<1>17. /\ t \in Seq(Cell) /\ Len(t) = (w + Len(d) - n) - r
       /\ \A k \in 1 .. (w + Len(d) - n) - r : t[k] = y.p[r + k]
  BY <1>15, <1>16, ReadableFacts
<1>18. Len(t) = Len(s) - n + Len(d)
  BY ONLY <1>2, <1>3, <1>4, <1>17, n \in Nat
<1>19. \A k \in 1 .. i : t[k] = s[k]
  <2>1. ASSUME NEW k \in 1 .. i PROVE t[k] = s[k]
    <3>1. PICK g : g = r + k
      OBVIOUS
    <3>2. /\ g \in 1 .. Len(c.p) /\ g - (r + i) \notin 1 .. Len(d) /\ g - j \notin 1 .. m
          /\ k \in 1 .. w - r /\ k \in 1 .. (w + Len(d) - n) - r
      BY ONLY <1>2, <1>3, <1>7, <1>9, <2>1, <3>1, i \in Nat, n \in Nat
    <3>3. y.p[g] = x.p[g] /\ x.p[g] = c.p[g]
      BY ONLY <1>11, <1>12, <3>2
    <3>. QED BY ONLY <1>4, <1>17, <3>1, <3>2, <3>3
  <2>. QED BY <2>1
<1>20. \A k \in 1 .. Len(d) : t[i + k] = d[k]
  <2>1. ASSUME NEW k \in 1 .. Len(d) PROVE t[i + k] = d[k]
    <3>1. PICK g, l : g = r + i + k /\ l = i + k
      OBVIOUS
    <3>2. /\ g \in 1 .. Len(c.p) /\ g - (r + i) = k /\ r + l = g
          /\ l \in 1 .. (w + Len(d) - n) - r
      BY ONLY <1>2, <1>3, <2>1, <3>1, i \in Nat, n \in Nat
    <3>3. y.p[g] = d[k]
      BY ONLY <1>12, <2>1, <3>2
    <3>. QED BY ONLY <1>17, <3>1, <3>2, <3>3
  <2>. QED BY <2>1
<1>21. \A k \in 1 .. Len(s) - i - n : t[i + Len(d) + k] = s[i + n + k]
  <2>1. Len(s) - i - n = m
    BY ONLY <1>2, <1>4, <1>6, i \in Nat, n \in Nat
  <2>2. ASSUME NEW k \in 1 .. m PROVE t[i + Len(d) + k] = s[i + n + k]
    <3>1. PICK g, l : g = j + k /\ l = i + Len(d) + k
      OBVIOUS
    <3>2. /\ g \in 1 .. Len(c.p) /\ g - (r + i) \notin 1 .. Len(d) /\ g - j = k /\ r + l = g
          /\ l \in 1 .. (w + Len(d) - n) - r
      BY ONLY <1>2, <1>3, <1>6, <1>9, <2>2, <3>1, i \in Nat, n \in Nat
    <3>3. y.p[g] = x.p[g]
      BY ONLY <1>12, <3>2
    <3>4. x.p[g] = tl[k]
      BY ONLY <1>11, <2>2, <3>2
    <3>5. tl[k] = s[i + n + k]
      BY ONLY <1>8, <2>2
    <3>6. t[l] = y.p[g]
      BY ONLY <1>17, <3>2
    <3>. QED BY ONLY <3>1, <3>3, <3>4, <3>5, <3>6
  <2>. QED BY ONLY <2>1, <2>2
<1>22. Bytes!Past(e) = q
  <2>1. ASSUME NEW k \in 1 .. r PROVE y.p[k] = q[k]
    <3>1. k \in 1 .. Len(c.p) /\ k - (r + i) \notin 1 .. Len(d) /\ k - j \notin 1 .. m
      BY ONLY <1>2, <1>3, <1>7, <1>9, <2>1, i \in Nat
    <3>2. y.p[k] = x.p[k] /\ x.p[k] = c.p[k]
      BY ONLY <1>11, <1>12, <3>1
    <3>. QED BY ONLY <1>4, <2>1, <3>2
  <2>2. Len(q) = e.rpos /\ \A k \in 1 .. Len(q) : e.p[k] = q[k]
    BY ONLY <1>4, <1>15, <2>1
  <2>. QED BY ONLY <1>4, <1>15, <2>2, PastIs
<1>23. Replaced(t, s, i, n, d)
  BY ONLY <1>17, <1>18, <1>19, <1>20, <1>21 DEF Replaced
<1>. QED BY ONLY <1>1, <1>15, <1>16, <1>22, <1>23

LEMMA ReplacedOnce ==
    ASSUME NEW s \in Seq(Cell), NEW i \in Nat, NEW n \in Nat, NEW d \in Seq(Cell), i + n <= Len(s),
           NEW t, Replaced(t, s, i, n, d), NEW z, Replaced(z, s, i, n, d)
    PROVE  t = z
<1>1. /\ t \in Seq(Cell) /\ z \in Seq(Cell) /\ Len(t) = Len(s) - n + Len(d) /\ Len(z) = Len(t)
      /\ \A k \in 1 .. i : t[k] = z[k]
      /\ \A k \in 1 .. Len(d) : t[i + k] = z[i + k]
      /\ \A k \in 1 .. Len(s) - i - n : t[i + Len(d) + k] = z[i + Len(d) + k]
  BY DEF Replaced
<1>2. Len(s) \in Nat /\ Len(d) \in Nat
  OBVIOUS
<1>3. ASSUME NEW k \in 1 .. Len(t) PROVE t[k] = z[k]
  <2>1. k \in 1 .. Len(s) - n + Len(d)
    BY <1>1, <1>3
  <2>2. CASE k <= i
    BY <1>1, <2>1, <2>2
  <2>3. CASE i < k /\ k <= i + Len(d)
    <3>1. PICK l : l = k - i
      OBVIOUS
    <3>2. l \in 1 .. Len(d) /\ k = i + l
      BY ONLY <1>2, <2>1, <2>3, <3>1, i \in Nat
    <3>. QED BY ONLY <1>1, <3>2
  <2>4. CASE i + Len(d) < k
    <3>1. PICK l : l = k - i - Len(d)
      OBVIOUS
    <3>2. l \in 1 .. Len(s) - i - n /\ k = i + Len(d) + l
      BY ONLY <1>2, <2>1, <2>4, <3>1, i \in Nat, n \in Nat
    <3>. QED BY ONLY <1>1, <3>2
  <2>. QED BY ONLY <1>2, <2>1, <2>2, <2>3, <2>4, i \in Nat, n \in Nat
<1>. QED BY ONLY <1>1, <1>3, SeqEqual

\* Outcome o of replacing the n bytes after the first i by d: it failed or o.b has them so.
Ranged(o, b, i, n, d) ==
    \/ o = Bytes!Fail(b)
    \/ /\ o.ok = TRUE /\ b.rpos + i + n <= b.wpos /\ Sized(o.b)
       /\ Bytes!Past(o.b) = Bytes!Past(b)
       /\ Replaced(Bytes!Readable(o.b), Bytes!Readable(b), i, n, d)

LEMMA RangeFacts ==
    ASSUME NEW b, Sized(b), NEW d \in Bytes!Data, Len(b.p) + Len(d) < BufSpan, NEW i \in Nat, NEW n \in Nat,
           NEW o \in Bytes!tt_buf_set_range(b, i, n, d)
    PROVE  Ranged(o, b, i, n, d)
<1>1. d \in Seq(Cell) /\ Len(d) \in Nat
  BY DataFacts
<1>2. b.rpos \in Nat /\ b.wpos \in Nat /\ Len(b.p) \in Nat /\ b.wpos <= Len(b.p)
  BY SizedFacts
<1>3. CASE b.rpos + i + n > b.wpos
  BY <1>3 DEF Bytes!tt_buf_set_range, Ranged
<1>4. CASE ~(b.rpos + i + n > b.wpos) /\ n < Len(d)
  <2>1. PICK x \in Bytes!tt_buf_reserve(b, Len(d) - n) :
            o = IF x.ok THEN Bytes!OK(Bytes!Spliced(x.b, i, n, d)) ELSE x
    BY <1>4 DEF Bytes!tt_buf_set_range, Bytes!WithRoom
  <2>2. PICK k : k = Len(d) - n
    OBVIOUS
  <2>3. k \in Nat /\ Len(b.p) + k < BufSpan /\ k = Len(d) - n
    BY <1>1, <1>2, <1>4, <2>2, BufferSizes
  <2>4. x = Bytes!Fail(b) \/ (x = Bytes!OK(x.b) /\ Roomier(b, x.b) /\ b.wpos + k <= Len(x.b.p))
    <3>1. x \in Bytes!tt_buf_reserve(b, k)
      BY ONLY <2>1, <2>3, Zenon
    <3>. QED BY ONLY <2>3, <3>1, Sized(b), ReserveFacts
  <2>5. CASE x = Bytes!Fail(b)
    BY <2>1, <2>5 DEF Bytes!Fail, Ranged
  <2>6. CASE x = Bytes!OK(x.b) /\ Roomier(b, x.b) /\ b.wpos + k <= Len(x.b.p)
    <3>1. PICK c, e : c = x.b /\ e = Bytes!Spliced(c, i, n, d)
      OBVIOUS
    <3>2. o.ok = TRUE /\ o.b = e
      BY <2>1, <2>6, <3>1 DEF Bytes!OK
    <3>3. Sized(c) /\ c.rpos = b.rpos /\ c.wpos = b.wpos
      BY <2>6, <3>1 DEF Roomier
    <3>4. c.rpos + i + n <= c.wpos /\ c.wpos + Len(d) - n <= Len(c.p)
      <4>1. Len(c.p) \in Nat
        BY <3>3, SizedFacts
      <4>2. b.wpos + k <= Len(c.p)
        BY <2>6, <3>1
      <4>. QED BY ONLY <1>1, <1>2, <1>4, <2>3, <3>3, <4>1, <4>2, i \in Nat, n \in Nat
    <3>5. /\ Sized(e) /\ Bytes!Past(e) = Bytes!Past(c)
          /\ Replaced(Bytes!Readable(e), Bytes!Readable(c), i, n, d)
      BY ONLY <1>1, <3>1, <3>3, <3>4, i \in Nat, n \in Nat, SpliceFacts
    <3>6. Bytes!Readable(c) = Bytes!Readable(b) /\ Bytes!Past(c) = Bytes!Past(b)
      BY <2>6, <3>1, RoomierFacts
    <3>7. b.rpos + i + n <= b.wpos
      BY ONLY <1>2, <1>4, i \in Nat, n \in Nat
    <3>. QED BY <3>2, <3>5, <3>6, <3>7 DEF Ranged
  <2>. QED BY ONLY <2>4, <2>5, <2>6
<1>5. CASE ~(b.rpos + i + n > b.wpos) /\ ~(n < Len(d))
  <2>1. PICK e : e = Bytes!Spliced(b, i, n, d)
    OBVIOUS
  <2>2. o.ok = TRUE /\ o.b = e
    BY <1>5, <2>1 DEF Bytes!tt_buf_set_range, Bytes!OK
  <2>3. b.rpos + i + n <= b.wpos /\ b.wpos + Len(d) - n <= Len(b.p)
    BY ONLY <1>1, <1>2, <1>5, i \in Nat, n \in Nat
  <2>4. /\ Sized(e) /\ Bytes!Past(e) = Bytes!Past(b)
        /\ Replaced(Bytes!Readable(e), Bytes!Readable(b), i, n, d)
    BY ONLY <1>1, <2>1, <2>3, Sized(b), i \in Nat, n \in Nat, SpliceFacts
  <2>. QED BY <2>2, <2>3, <2>4 DEF Ranged
<1>. QED BY <1>3, <1>4, <1>5

(* What is written over readable bytes takes the place of as many.           *)
LEMMA OverFacts ==
    ASSUME NEW b, Sized(b), NEW d \in Seq(Cell), NEW i \in Nat, b.rpos + i + Len(d) <= b.wpos,
           NEW e, Over(e, b, b.rpos + i, d)
    PROVE  /\ Bytes!Past(e) = Bytes!Past(b)
           /\ Replaced(Bytes!Readable(e), Bytes!Readable(b), i, Len(d), d)
<1>1. PICK r, w, s, q, n, j : /\ r = b.rpos /\ w = b.wpos /\ s = Bytes!Readable(b) /\ q = Bytes!Past(b)
                              /\ n = Len(d) /\ j = b.rpos + i
  OBVIOUS
<1>2. r \in Nat /\ w \in Nat /\ r <= w /\ w <= Len(b.p) /\ Len(b.p) \in Nat /\ n \in Nat
      /\ r + i + n <= w /\ j = r + i
  BY <1>1, SizedFacts
<1>3. /\ s \in Seq(Cell) /\ Len(s) = w - r /\ \A k \in 1 .. w - r : s[k] = b.p[r + k]
      /\ q \in Seq(Cell) /\ Len(q) = r /\ \A k \in 1 .. r : q[k] = b.p[k]
  BY <1>1, ReadableFacts, PastFacts
<1>4. /\ Sized(e) /\ e.rpos = r /\ e.wpos = w /\ Len(e.p) = Len(b.p)
      /\ \A k \in 1 .. Len(b.p) : e.p[k] = IF k - j \in 1 .. n THEN d[k - j] ELSE b.p[k]
  BY <1>1 DEF Over
<1>5. PICK t : t = Bytes!Readable(e)
  OBVIOUS
<1>6. t \in Seq(Cell) /\ Len(t) = w - r /\ \A k \in 1 .. w - r : t[k] = e.p[r + k]
  BY <1>4, <1>5, ReadableFacts
<1>7. Len(t) = Len(s) - n + n
  BY ONLY <1>2, <1>3, <1>6
<1>8. ASSUME NEW k \in 1 .. w - r, k \notin i + 1 .. i + n PROVE t[k] = s[k]
  <2>1. r + k \in 1 .. Len(b.p) /\ (r + k) - j \notin 1 .. n
    BY ONLY <1>2, <1>8, i \in Nat
  <2>. QED BY ONLY <1>3, <1>4, <1>6, <1>8, <2>1
<1>9. \A k \in 1 .. i : t[k] = s[k]
  <2>1. \A k \in 1 .. i : k \in 1 .. w - r /\ k \notin i + 1 .. i + n
    BY ONLY <1>2, i \in Nat
  <2>. QED BY ONLY <1>8, <2>1
<1>10. \A k \in 1 .. n : t[i + k] = d[k]
  <2>1. ASSUME NEW k \in 1 .. n PROVE t[i + k] = d[k]
    <3>1. PICK l, g : l = i + k /\ g = r + i + k
      OBVIOUS
    <3>2. l \in 1 .. w - r /\ g = r + l /\ g \in 1 .. Len(b.p) /\ g - j = k
      BY ONLY <1>2, <2>1, <3>1, i \in Nat
    <3>3. e.p[g] = d[k]
      BY ONLY <1>4, <2>1, <3>2
    <3>. QED BY ONLY <1>6, <3>1, <3>2, <3>3
  <2>. QED BY <2>1
<1>11. \A k \in 1 .. Len(s) - i - n : t[i + n + k] = s[i + n + k]
  <2>1. ASSUME NEW k \in 1 .. Len(s) - i - n PROVE t[i + n + k] = s[i + n + k]
    <3>1. PICK l : l = i + n + k
      OBVIOUS
    <3>2. k \in Nat /\ 1 <= k /\ k <= (w - r) - i - n
      BY ONLY <1>2, <1>3, <2>1, i \in Nat
    <3>3. l \in Nat /\ 1 <= l /\ l <= w - r /\ i + n < l
      BY ONLY <1>2, <3>1, <3>2, i \in Nat
    <3>4. l \in 1 .. w - r /\ l \notin i + 1 .. i + n
      BY ONLY <1>2, <3>3, i \in Nat
    <3>. QED BY ONLY <1>8, <3>1, <3>4
  <2>. QED BY <2>1
<1>12. Bytes!Past(e) = q
  <2>1. ASSUME NEW k \in 1 .. r PROVE e.p[k] = q[k]
    <3>1. k \in 1 .. Len(b.p) /\ k - j \notin 1 .. n
      BY ONLY <1>2, <2>1, i \in Nat
    <3>. QED BY ONLY <1>3, <1>4, <2>1, <3>1
  <2>2. Len(q) = e.rpos /\ \A k \in 1 .. Len(q) : e.p[k] = q[k]
    BY ONLY <1>3, <1>4, <2>1
  <2>. QED BY ONLY <1>3, <1>4, <2>2, PastIs
<1>13. Replaced(t, s, i, Len(d), d)
  BY ONLY <1>1, <1>6, <1>7, <1>9, <1>10, <1>11 DEF Replaced
<1>. QED BY ONLY <1>1, <1>5, <1>12, <1>13

LEMMA SetFits ==
    ASSUME NEW b, Sized(b), NEW d \in Bytes!Data, NEW i \in Nat, b.rpos + i + Len(d) <= b.wpos,
           NEW o, o = Bytes!tt_buf_set(b, i, d)
    PROVE  /\ o.ok = TRUE /\ Bytes!Past(o.b) = Bytes!Past(b)
           /\ Replaced(Bytes!Readable(o.b), Bytes!Readable(b), i, Len(d), d)
<1>1. d \in Seq(Cell) /\ b.rpos + i \in Nat /\ Len(d) \in Nat /\ b.wpos \in Nat
  BY DataFacts, SizedFacts
<1>2. PICK x, u : u = b.rpos + i /\ x = Bytes!Written(b, u, d)
  OBVIOUS
<1>3. Over(x, b, b.rpos + i, d)
  BY ONLY <1>1, <1>2, Sized(b), WrittenFacts
<1>4. o.ok = TRUE /\ o.b = x
  BY <1>1, <1>2 DEF Bytes!tt_buf_set, Bytes!OK
<1>5. /\ Bytes!Past(x) = Bytes!Past(b)
      /\ Replaced(Bytes!Readable(x), Bytes!Readable(b), i, Len(d), d)
  BY ONLY <1>1, <1>3, Sized(b), i \in Nat, b.rpos + i + Len(d) <= b.wpos, OverFacts
<1>. QED BY ONLY <1>4, <1>5

LEMMA SetSized ==
    ASSUME NEW b, Sized(b), NEW d \in Bytes!Data, NEW i \in Nat
    PROVE  Sized(Bytes!tt_buf_set(b, i, d).b)
<1>1. d \in Seq(Cell) /\ b.rpos + i \in Nat
  BY DataFacts, SizedFacts
<1>2. PICK x : x = Bytes!Written(b, b.rpos + i, d)
  OBVIOUS
<1>3. Sized(x)
  <2>1. PICK u : u = b.rpos + i
    OBVIOUS
  <2>2. Over(x, b, u, d)
    BY ONLY <1>1, <1>2, <2>1, Sized(b), WrittenFacts
  <2>. QED BY <2>2 DEF Over
<1>4. Bytes!tt_buf_set(b, i, d).b \in {b, x}
  BY <1>2 DEF Bytes!tt_buf_set, Bytes!Fail, Bytes!OK
<1>. QED BY <1>3, <1>4

(* s at the beginning of the array.                                          *)
LEMMA ReadFromFront ==
    ASSUME NEW e, Sized(e), NEW s \in Seq(Cell), e.rpos = 0, e.wpos = Len(s),
           \A k \in 1 .. Len(s) : e.p[k] = s[k]
    PROVE  Bytes!Readable(e) = s /\ Bytes!Past(e) = <<>>
<1>1. Len(s) \in Nat
  OBVIOUS
<1>2. Len(s) = e.wpos - e.rpos /\ \A k \in 1 .. Len(s) : e.p[e.rpos + k] = s[k]
  <2>1. \A k \in 1 .. Len(s) : 0 + k = k
    BY <1>1
  <2>. QED BY <1>1, <2>1
<1>3. Bytes!Readable(e) = s
  BY ONLY <1>2, Sized(e), s \in Seq(Cell), ReadableIs
<1>4. PICK q : q = <<>>
  OBVIOUS
<1>5. q \in Seq(Cell) /\ Len(q) = e.rpos /\ \A k \in 1 .. Len(q) : e.p[k] = q[k]
  BY <1>4
<1>6. Bytes!Past(e) = q
  BY ONLY <1>5, Sized(e), PastIs
<1>. QED BY <1>3, <1>4, <1>6

LEMMA CompressFacts ==
    ASSUME NEW b, Sized(b), b.rpos = 0 \/ Bytes!TT_BUF_RLEN(b) <= InitSize,
           NEW o \in Bytes!tt_buf_compress(b)
    PROVE  Yields(o, b, Bytes!Readable(b), <<>>)
<1>1. PICK s, r, w : s = Bytes!Readable(b) /\ r = b.rpos /\ w = b.wpos
  OBVIOUS
<1>2. r \in Nat /\ w \in Nat /\ r <= w /\ w <= Len(b.p) /\ Len(b.p) \in Nat /\ w - r \in Nat /\ b.p \in Seq(Cell)
  BY <1>1, SizedFacts
<1>3. s \in Seq(Cell) /\ Len(s) = w - r
  BY <1>1, ReadableFacts
<1>4. CASE Bytes!ReadOnly(b)
  BY <1>4 DEF Bytes!tt_buf_compress, Yields
<1>5. CASE ~Bytes!ReadOnly(b) /\ w - r <= InitSize
  <2>1. PICK u, a : u = Bytes!Unset(InitSize - (w - r)) /\ a = s \o u
    OBVIOUS
  <2>2. u \in Seq(Cell) /\ Len(u) \in Nat
    <3>1. InitSize - (w - r) \in Nat
      BY <1>2, <1>5, BufferSizes
    <3>. QED BY <2>1, <3>1, UnsetFacts
  <2>3. Split(a, s, u, Cell)
    BY ONLY <1>3, <2>1, <2>2, SplitFacts
  <2>4. a \in Seq(Cell) /\ w - r <= Len(a) /\ \A k \in 1 .. Len(s) : a[k] = s[k]
    <3>1. a \in Seq(Cell) /\ Len(a) = (w - r) + Len(u) /\ \A k \in 1 .. Len(s) : a[k] = s[k]
      BY ONLY <1>3, <2>3 DEF Split
    <3>. QED BY ONLY <1>2, <2>2, <3>1
  <2>5. PICK e : e = [p |-> a, place |-> "init", rpos |-> 0, wpos |-> w - r]
    OBVIOUS
  <2>6. Sized(e) /\ e.p = a /\ e.rpos = 0 /\ e.wpos = w - r
    <3>1. 0 \in Nat /\ 0 <= w - r /\ "init" \in {"init", "heap", "user"}
      BY <1>2
    <3>. QED BY ONLY <1>2, <2>4, <2>5, <3>1, SizedIs
  <2>7. Bytes!Readable(e) = s /\ Bytes!Past(e) = <<>>
    BY ONLY <1>3, <2>4, <2>6, ReadFromFront
  <2>8. o.ok = TRUE /\ o.b = e
    BY <1>1, <1>5, <2>1, <2>5 DEF Bytes!tt_buf_compress, Bytes!TT_BUF_RLEN, Bytes!OK
  <2>. QED BY <1>1, <2>6, <2>7, <2>8 DEF Yields
<1>6. CASE ~Bytes!ReadOnly(b) /\ ~(w - r <= InitSize)
  <2>1. r = 0 /\ w - r = w
    BY <1>1, <1>2, <1>6 DEF Bytes!TT_BUF_RLEN
  <2>2. o = Bytes!Fail(b) \/ o = Bytes!OK([b EXCEPT !.p = SubSeq(b.p, r + 1, w), !.place = "heap"])
    BY <1>1, <1>6 DEF Bytes!tt_buf_compress, Bytes!tt_memspg_compress_range, Bytes!TT_BUF_RLEN
  <2>3. CASE o = Bytes!Fail(b)
    BY <2>3 DEF Yields
  <2>4. CASE o = Bytes!OK([b EXCEPT !.p = SubSeq(b.p, r + 1, w), !.place = "heap"])
    <3>1. s = SubSeq(b.p, r + 1, w)
      BY <1>1 DEF Bytes!Readable
    <3>2. PICK p, pl, e : p = b.p /\ pl = b.place /\ e = [b EXCEPT !.p = s, !.place = "heap"]
      OBVIOUS
    <3>3. b = [p |-> p, place |-> pl, rpos |-> r, wpos |-> w]
      BY <1>1, <3>2, SizedFacts
    <3>4. e = [p |-> s, place |-> "heap", rpos |-> r, wpos |-> w]
      <4>1. Moved(e, b, s)
        BY ONLY <3>2, Zenon DEF Moved
      <4>. QED BY ONLY <3>3, <4>1, ArrayMoved
    <3>5. Sized(e) /\ e.p = s /\ e.rpos = r /\ e.wpos = w
      <4>1. "heap" \in {"init", "heap", "user"} /\ w <= Len(s)
        BY ONLY <1>2, <1>3, <2>1
      <4>. QED BY ONLY <1>2, <1>3, <3>4, <4>1, SizedIs
    <3>6. Bytes!Readable(e) = s /\ Bytes!Past(e) = <<>>
      <4>1. e.rpos = 0 /\ e.wpos = Len(s) /\ \A k \in 1 .. Len(s) : e.p[k] = s[k]
        BY ONLY <1>2, <1>3, <2>1, <3>5
      <4>. QED BY ONLY <1>3, <3>5, <4>1, ReadFromFront
    <3>7. o = Bytes!OK(e)
      BY ONLY <2>4, <3>1, <3>2, Zenon
    <3>8. o.ok = TRUE /\ o.b = e
      BY <3>7 DEF Bytes!OK
    <3>. QED BY <1>1, <3>5, <3>6, <3>8 DEF Yields
  <2>. QED BY <2>2, <2>3, <2>4
<1>. QED BY <1>4, <1>5, <1>6

LEMMA RefineFacts ==
    ASSUME NEW b, Sized(b), NEW e, e = Bytes!tt_buf_refine(b)
    PROVE  /\ Sized(e)
           /\ ~Bytes!ReadOnly(b) => Bytes!Readable(e) = Bytes!Readable(b) /\ Bytes!Past(e) = <<>>
<1>1. PICK s, r, w : s = Bytes!Readable(b) /\ r = b.rpos /\ w = b.wpos
  OBVIOUS
<1>2. r \in Nat /\ w \in Nat /\ r <= w /\ w <= Len(b.p) /\ Len(b.p) \in Nat /\ w - r \in Nat
  BY <1>1, SizedFacts
<1>3. s \in Seq(Cell) /\ Len(s) = w - r /\ \A k \in 1 .. w - r : s[k] = b.p[r + k]
  BY <1>1, ReadableFacts
<1>4. CASE Bytes!ReadOnly(b)
  BY <1>4 DEF Bytes!tt_buf_refine
<1>5. CASE ~Bytes!ReadOnly(b) /\ r = 0
  <2>1. e = b
    BY <1>1, <1>5 DEF Bytes!tt_buf_refine
  <2>2. \A k \in 1 .. w - r : r + k = k
    BY <1>2, <1>5
  <2>3. b.rpos = 0 /\ b.wpos = Len(s) /\ \A k \in 1 .. Len(s) : b.p[k] = s[k]
    BY <1>1, <1>2, <1>3, <1>5, <2>2
  <2>4. Bytes!Readable(b) = s /\ Bytes!Past(b) = <<>>
    BY ONLY <1>3, <2>3, Sized(b), ReadFromFront
  <2>. QED BY <2>1, <2>4
<1>6. CASE ~Bytes!ReadOnly(b) /\ r # 0
  <2>1. PICK x : x = Bytes!Written(b, 0, s)
    OBVIOUS
  <2>2. Over(x, b, 0, s)
    BY ONLY <1>3, <2>1, Sized(b), 0 \in Nat, WrittenFacts
  <2>3. /\ Sized(x) /\ Len(x.p) = Len(b.p)
        /\ \A k \in 1 .. Len(b.p) : x.p[k] = IF k - 0 \in 1 .. Len(s) THEN s[k - 0] ELSE b.p[k]
    BY ONLY <2>2 DEF Over
  <2>4. e = [x EXCEPT !.rpos = 0, !.wpos = w - r]
    BY <1>1, <1>6, <2>1 DEF Bytes!tt_buf_refine, Bytes!TT_BUF_RLEN
  <2>5. Sized(e) /\ e.p = x.p /\ e.rpos = 0 /\ e.wpos = w - r
    <3>1. Positioned(e, x, 0, w - r)
      BY ONLY <2>3, <2>4, PositionsSet
    <3>2. 0 \in Nat /\ 0 <= w - r /\ w - r <= Len(x.p)
      BY ONLY <1>2, <2>3
    <3>. QED BY ONLY <1>2, <2>3, <3>1, <3>2, AtFacts
  <2>6. \A k \in 1 .. Len(s) : x.p[k] = s[k]
    <3>1. \A k \in 1 .. Len(s) : k \in 1 .. Len(b.p) /\ k - 0 = k
      BY ONLY <1>2, <1>3
    <3>. QED BY ONLY <2>3, <3>1
  <2>7. e.wpos = Len(s) /\ \A k \in 1 .. Len(s) : e.p[k] = s[k]
    BY ONLY <1>3, <2>5, <2>6
  <2>8. Bytes!Readable(e) = s /\ Bytes!Past(e) = <<>>
    BY ONLY <1>3, <2>5, <2>7, ReadFromFront
  <2>. QED BY <1>1, <2>5, <2>8
<1>. QED BY <1>4, <1>5, <1>6

LEMMA ExtendOnce ==
    ASSUME NEW b, Sized(b), Len(b.p) + 1 < BufSpan, NEW o \in Bytes!tt_buf_extend(b)
    PROVE  /\ Yields(o, b, Bytes!Readable(b), Bytes!Past(b))
           /\ o.ok => Len(o.b.p) > Len(b.p)
<1>1. PICK k : k = Len(b.p)
  OBVIOUS
<1>2. k \in Nat /\ k + 1 \in Nat /\ k < k + 1 /\ k + 1 < BufSpan /\ BufSpan \in Nat
  BY <1>1, SizedFacts, BufferSizes
<1>3. (k + 1) % BufSpan = k + 1
  BY ONLY <1>2, ModSmall
<1>4. o \in Bytes!__buf_extend(b, k + 1)
  <2>1. o \in Bytes!__buf_extend(b, (k + 1) % BufSpan)
    BY <1>1 DEF Bytes!tt_buf_extend, Bytes!size
  <2>. QED BY ONLY <1>3, <2>1, Zenon
<1>5. \/ o = Bytes!Fail(b)
      \/ o = Bytes!OK(o.b) /\ Roomier(b, o.b) /\ k + 1 <= Len(o.b.p)
  <2>1. Len(b.p) < k + 1
    BY ONLY <1>1, <1>2
  <2>. QED BY ONLY <1>2, <1>4, <2>1, Sized(b), ExtendFacts
<1>6. CASE o = Bytes!Fail(b)
  BY <1>6 DEF Yields, Bytes!Fail
<1>7. CASE o = Bytes!OK(o.b) /\ Roomier(b, o.b) /\ k + 1 <= Len(o.b.p)
  <2>1. o.ok = TRUE
    BY <1>7 DEF Bytes!OK
  <2>2. Sized(o.b) /\ Bytes!Readable(o.b) = Bytes!Readable(b) /\ Bytes!Past(o.b) = Bytes!Past(b)
    BY <1>7, RoomierFacts DEF Roomier
  <2>3. Len(o.b.p) \in Nat
    BY <2>2, SizedFacts
  <2>4. Len(o.b.p) > Len(b.p)
    BY ONLY <1>1, <1>2, <1>7, <2>3
  <2>. QED BY <2>1, <2>2, <2>4 DEF Yields
<1>. QED BY <1>5, <1>6, <1>7

\* A call that failed or gave a buffer as it should be leaves one.
LEMMA YieldsSized ==
    ASSUME NEW b, Sized(b), NEW o, NEW s, NEW q, Yields(o, b, s, q)
    PROVE  Sized(o.b)
BY DEF Yields, Bytes!Fail

LEMMA CreatedSized ==
    ASSUME NEW b \in Bytes!Created
    PROVE  Sized(b)
<1>1. CASE b = [p |-> Bytes!Unset(InitSize), place |-> "init", rpos |-> 0, wpos |-> 0]
  <2>1. PICK p : p = Bytes!Unset(InitSize)
    OBVIOUS
  <2>2. p \in Seq(Cell) /\ 0 <= Len(p) /\ 0 \in Nat /\ 0 <= 0 /\ "init" \in {"init", "heap", "user"}
    BY <2>1, BufferSizes, UnsetFacts
  <2>. QED BY ONLY <1>1, <2>1, <2>2, SizedIs
<1>2. CASE \E n \in InitSize .. InitSize + MaxLen :
               b = [p |-> Bytes!Unset(Bytes!Grown(0, n)), place |-> "heap", rpos |-> 0, wpos |-> 0]
  <2>1. PICK n \in InitSize .. InitSize + MaxLen :
            b = [p |-> Bytes!Unset(Bytes!Grown(0, n)), place |-> "heap", rpos |-> 0, wpos |-> 0]
    BY <1>2
  <2>2. n \in Nat /\ 0 \in 0 .. BufSpan
    BY BufferSizes
  <2>3. Bytes!Grown(0, n) \in Nat
    BY <2>2, GrownFacts
  <2>4. PICK p : p = Bytes!Unset(Bytes!Grown(0, n))
    OBVIOUS
  <2>5. p \in Seq(Cell) /\ 0 <= Len(p) /\ 0 \in Nat /\ 0 <= 0 /\ "heap" \in {"init", "heap", "user"}
    BY <2>3, <2>4, UnsetFacts
  <2>. QED BY ONLY <2>1, <2>4, <2>5, SizedIs
<1>3. CASE \E d \in Bytes!Data :
               b = [[p |-> d, place |-> "user", rpos |-> 0, wpos |-> 0] EXCEPT !.wpos = Len(d)]
  <2>1. PICK d \in Bytes!Data :
            b = [[p |-> d, place |-> "user", rpos |-> 0, wpos |-> 0] EXCEPT !.wpos = Len(d)]
    BY <1>3
  <2>2. d \in Seq(Cell) /\ Len(d) \in Nat /\ 0 \in Nat /\ 0 <= Len(d) /\ 0 <= 0
        /\ "user" \in {"init", "heap", "user"}
    BY DataFacts
  <2>3. PICK w : w = Len(d)
    OBVIOUS
  <2>4. b = [p |-> d, place |-> "user", rpos |-> 0, wpos |-> w]
    BY ONLY <2>1, <2>3
  <2>5. w \in Nat /\ 0 <= w /\ w <= Len(d)
    BY ONLY <2>2, <2>3
  <2>. QED BY ONLY <2>2, <2>4, <2>5, SizedIs
<1>. QED BY <1>1, <1>2, <1>3 DEF Bytes!Created

LEMMA StoreSized ==
    ASSUME Sized(buf), Bytes!Store
    PROVE  Sized(buf')
<1>1. CASE \E d \in Bytes!Data : /\ Bytes!Sayable(Len(d))
                                 /\ \E o \in Bytes!tt_buf_put(buf, d) : buf' = o.b
  <2>1. PICK d \in Bytes!Data : Bytes!Sayable(Len(d)) /\ \E o \in Bytes!tt_buf_put(buf, d) : buf' = o.b
    BY <1>1
  <2>2. PICK o \in Bytes!tt_buf_put(buf, d) : buf' = o.b
    BY <2>1
  <2>3. Len(buf.p) + Len(d) < BufSpan
    BY <2>1 DEF Bytes!Sayable, Bytes!size
  <2>4. Yields(o, buf, Bytes!Readable(buf) \o d, Bytes!Past(buf))
    BY <2>3, PutFacts
  <2>. QED BY <2>2, <2>4, YieldsSized
<1>2. CASE \E d \in Bytes!Data, i \in Bytes!Beyond(Bytes!TT_BUF_RLEN(buf)) :
               buf' = Bytes!tt_buf_set(buf, i, d).b
  <2>1. PICK d \in Bytes!Data, i \in Bytes!Beyond(Bytes!TT_BUF_RLEN(buf)) :
            buf' = Bytes!tt_buf_set(buf, i, d).b
    BY <1>2
  <2>2. i \in Nat
    BY DEF Bytes!Beyond
  <2>. QED BY <2>1, <2>2, SetSized
<1>3. CASE \E d \in Bytes!Data, i \in 0 .. Bytes!TT_BUF_RLEN(buf) :
              \E n \in Bytes!Beyond(Bytes!TT_BUF_RLEN(buf) - i) :
                 /\ Bytes!Sayable(Len(d))
                 /\ \E o \in Bytes!tt_buf_set_range(buf, i, n, d) : buf' = o.b
  <2>1. PICK d \in Bytes!Data, i \in 0 .. Bytes!TT_BUF_RLEN(buf) :
            \E n \in Bytes!Beyond(Bytes!TT_BUF_RLEN(buf) - i) :
               /\ Bytes!Sayable(Len(d))
               /\ \E o \in Bytes!tt_buf_set_range(buf, i, n, d) : buf' = o.b
    BY <1>3
  <2>2. PICK n \in Bytes!Beyond(Bytes!TT_BUF_RLEN(buf) - i) :
            /\ Bytes!Sayable(Len(d))
            /\ \E o \in Bytes!tt_buf_set_range(buf, i, n, d) : buf' = o.b
    BY <2>1
  <2>3. PICK o \in Bytes!tt_buf_set_range(buf, i, n, d) : buf' = o.b
    BY <2>2
  <2>4. i \in Nat /\ n \in Nat /\ Len(buf.p) + Len(d) < BufSpan
    BY <2>2 DEF Bytes!Beyond, Bytes!Sayable, Bytes!size
  <2>5. o = Bytes!Fail(buf) \/ Sized(o.b)
    BY <2>4, RangeFacts DEF Ranged
  <2>. QED BY <2>3, <2>5 DEF Bytes!Fail
<1>. QED BY <1>1, <1>2, <1>3 DEF Bytes!Store

LEMMA MoveSized ==
    ASSUME Sized(buf), Bytes!Move
    PROVE  Sized(buf')
<1>1. PICK b, r, w : b = buf /\ r = buf.rpos /\ w = buf.wpos
  OBVIOUS
<1>2. Sized(b) /\ r = b.rpos /\ w = b.wpos
  BY ONLY <1>1, Sized(buf)
<1>3. r \in Nat /\ w \in Nat /\ r <= w /\ w <= Len(b.p) /\ Len(b.p) \in Nat
  BY ONLY <1>2, SizedFacts
<1>4. CASE \E n \in Bytes!Beyond(buf.wpos) :
              buf' \in {Bytes!tt_buf_inc_rp(buf, n).b, Bytes!tt_buf_dec_rp(buf, n).b,
                        Bytes!tt_buf_dec_wp(buf, n).b}
  <2>1. PICK n \in Bytes!Beyond(buf.wpos) :
            buf' \in {Bytes!tt_buf_inc_rp(buf, n).b, Bytes!tt_buf_dec_rp(buf, n).b,
                      Bytes!tt_buf_dec_wp(buf, n).b}
    BY <1>4
  <2>2. n \in Nat
    BY DEF Bytes!Beyond
  <2>3. \/ buf' = b
        \/ n <= w - r /\ buf' = [b EXCEPT !.rpos = r + n]
        \/ n <= r /\ buf' = [b EXCEPT !.rpos = r - n]
        \/ n <= w - r /\ buf' = [b EXCEPT !.wpos = w - n]
    BY <1>1, <2>1 DEF Bytes!tt_buf_inc_rp, Bytes!tt_buf_dec_rp, Bytes!tt_buf_dec_wp,
                      Bytes!TT_BUF_RLEN, Bytes!OK, Bytes!Fail
  <2>4. PICK e : e = buf'
    OBVIOUS
  <2>5. CASE n <= w - r /\ e = [b EXCEPT !.rpos = r + n]
    <3>1. Positioned(e, b, r + n, w)
      BY ONLY <1>2, <2>5, PositionsSet
    <3>2. r + n \in Nat /\ r + n <= w
      BY ONLY <1>3, <2>2, <2>5
    <3>. QED BY ONLY <1>2, <1>3, <2>4, <3>1, <3>2, AtFacts
  <2>6. CASE n <= r /\ e = [b EXCEPT !.rpos = r - n]
    <3>1. Positioned(e, b, r - n, w)
      BY ONLY <1>2, <2>6, PositionsSet
    <3>2. r - n \in Nat /\ r - n <= w
      BY ONLY <1>3, <2>2, <2>6
    <3>. QED BY ONLY <1>2, <1>3, <2>4, <3>1, <3>2, AtFacts
  <2>7. CASE n <= w - r /\ e = [b EXCEPT !.wpos = w - n]
    <3>1. Positioned(e, b, r, w - n)
      BY ONLY <1>2, <2>7, PositionsSet
    <3>2. w - n \in Nat /\ r <= w - n /\ w - n <= Len(b.p)
      BY ONLY <1>3, <2>2, <2>7
    <3>. QED BY ONLY <1>2, <1>3, <2>4, <3>1, <3>2, AtFacts
  <2>. QED BY ONLY <1>2, <2>3, <2>4, <2>5, <2>6, <2>7
<1>5. CASE \E d \in Bytes!Data :
              /\ Len(d) <= Bytes!TT_BUF_WLEN(buf)
              /\ buf' = Bytes!tt_buf_inc_wp(Bytes!Written(buf, buf.wpos, d), Len(d)).b
  <2>1. PICK d \in Bytes!Data :
            /\ Len(d) <= Bytes!TT_BUF_WLEN(buf)
            /\ buf' = Bytes!tt_buf_inc_wp(Bytes!Written(buf, buf.wpos, d), Len(d)).b
    BY <1>5
  <2>2. d \in Seq(Cell) /\ Len(d) \in Nat
    BY DataFacts
  <2>3. PICK x, e : x = Bytes!Written(b, w, d) /\ e = [Bytes!Written(b, b.wpos, d) EXCEPT !.wpos = @ + Len(d)]
    OBVIOUS
  <2>4. Over(x, b, w, d)
    BY ONLY <1>2, <1>3, <2>2, <2>3, WrittenFacts
  <2>5. buf' \in {x, e}
    <3>1. buf' = Bytes!tt_buf_inc_wp(x, Len(d)).b /\ e = [x EXCEPT !.wpos = x.wpos + Len(d)]
      BY <1>1, <2>1, <2>3
    <3>. QED BY <3>1 DEF Bytes!tt_buf_inc_wp, Bytes!OK, Bytes!Fail
  <2>6. Sized(x)
    BY ONLY <2>4 DEF Over
  <2>7. Sized(e)
    <3>1. b.wpos + Len(d) <= Len(b.p)
      <4>1. Len(d) <= Len(b.p) - w
        BY <1>1, <2>1 DEF Bytes!TT_BUF_WLEN, Bytes!size
      <4>. QED BY ONLY <1>2, <1>3, <2>2, <4>1
    <3>. QED BY ONLY <1>2, <2>2, <2>3, <3>1, AppendFacts
  <2>. QED BY ONLY <2>5, <2>6, <2>7
<1>. QED BY <1>4, <1>5 DEF Bytes!Move

LEMMA ArrangeSized ==
    ASSUME Sized(buf), Bytes!Arrange
    PROVE  Sized(buf')
<1>1. CASE Bytes!Sayable(1) /\ \E o \in Bytes!tt_buf_extend(buf) : buf' = o.b
  <2>1. PICK o \in Bytes!tt_buf_extend(buf) : buf' = o.b
    BY <1>1
  <2>2. Len(buf.p) + 1 < BufSpan
    BY <1>1 DEF Bytes!Sayable, Bytes!size
  <2>3. Yields(o, buf, Bytes!Readable(buf), Bytes!Past(buf))
    BY <2>2, ExtendOnce
  <2>. QED BY <2>1, <2>3, YieldsSized
<1>2. CASE Bytes!Compressible /\ \E o \in Bytes!tt_buf_compress(buf) : buf' = o.b
  <2>1. PICK o \in Bytes!tt_buf_compress(buf) : buf' = o.b
    BY <1>2
  <2>2. Yields(o, buf, Bytes!Readable(buf), <<>>)
    BY <1>2, CompressFacts DEF Bytes!Compressible
  <2>. QED BY <2>1, <2>2, YieldsSized
<1>3. CASE \E n \in Bytes!Beyond(buf.rpos) : buf' = Bytes!tt_buf_try_refine(buf, n)
  <2>1. buf' = buf \/ buf' = Bytes!tt_buf_refine(buf)
    BY <1>3 DEF Bytes!tt_buf_try_refine
  <2>2. Sized(Bytes!tt_buf_refine(buf))
    BY RefineFacts
  <2>. QED BY <2>1, <2>2
<1>4. CASE buf' = Bytes!tt_buf_reset_rwp(buf)
  <2>1. PICK b, e : b = buf /\ e = buf'
    OBVIOUS
  <2>2. Sized(b) /\ Len(b.p) \in Nat
    BY <2>1, SizedFacts
  <2>3. e = [b EXCEPT !.rpos = 0, !.wpos = 0]
    BY <1>4, <2>1 DEF Bytes!tt_buf_reset_rwp
  <2>4. Positioned(e, b, 0, 0)
    BY ONLY <2>2, <2>3, PositionsSet
  <2>5. 0 \in Nat /\ 0 <= 0 /\ 0 <= Len(b.p)
    BY ONLY <2>2
  <2>6. Sized(e)
    BY ONLY <2>2, <2>4, <2>5, AtFacts
  <2>. QED BY <2>1, <2>6
<1>. QED BY <1>1, <1>2, <1>3, <1>4 DEF Bytes!Arrange

LEMMA ContentsKept ==
    ASSUME Sized(buf)
    PROVE  Bytes!Contents
<1>1. PICK s, q : s = Bytes!Readable(buf) /\ q = Bytes!Past(buf)
  OBVIOUS
<1>2. s \in Seq(Cell) /\ Len(s) = buf.wpos - buf.rpos
  BY <1>1, ReadableFacts
<1>3. ASSUME NEW o, NEW t, NEW z, Yields(o, buf, t, z) PROVE Bytes!Has(o, t, z)
  BY <1>3 DEF Yields, Bytes!Has, Bytes!Fail
<1>4. ASSUME NEW d \in Bytes!Data, Bytes!Sayable(Len(d)), NEW o \in Bytes!tt_buf_put(buf, d)
      PROVE  Bytes!Has(o, s \o d, q)
  <2>1. Len(buf.p) + Len(d) < BufSpan
    BY <1>4 DEF Bytes!Sayable, Bytes!size
  <2>2. Yields(o, buf, Bytes!Readable(buf) \o d, Bytes!Past(buf))
    BY <2>1, PutFacts
  <2>3. Bytes!Has(o, Bytes!Readable(buf) \o d, Bytes!Past(buf))
    BY <1>3, <2>2
  <2>. QED BY ONLY <1>1, <2>3, Zenon
<1>5. ASSUME NEW d \in Bytes!Data, Bytes!Sayable(Len(d)), NEW i \in 0 .. Len(s), NEW n \in 0 .. Len(s),
             i + n <= Len(s), NEW o \in Bytes!tt_buf_set_range(buf, i, n, d)
      PROVE  Bytes!Has(o, SubSeq(s, 1, i) \o d \o SubSeq(s, i + n + 1, Len(s)), q)
  <2>1. Len(buf.p) + Len(d) < BufSpan /\ i \in Nat /\ n \in Nat /\ d \in Seq(Cell)
    BY <1>5, DataFacts DEF Bytes!Sayable, Bytes!size
  <2>2. PICK t : t = SubSeq(s, 1, i) \o d \o SubSeq(s, i + n + 1, Len(s))
    OBVIOUS
  <2>3. Replaced(t, s, i, n, d)
    BY ONLY <1>2, <1>5, <2>1, <2>2, ReplacedFacts
  <2>4. \/ o = Bytes!Fail(buf)
        \/ /\ o.ok = TRUE /\ Bytes!Past(o.b) = Bytes!Past(buf)
           /\ Replaced(Bytes!Readable(o.b), Bytes!Readable(buf), i, n, d)
    <3>1. Ranged(o, buf, i, n, d)
      BY ONLY <1>5, <2>1, Sized(buf), RangeFacts
    <3>. QED BY ONLY <3>1 DEF Ranged
  <2>5. CASE o = Bytes!Fail(buf)
    BY <2>5 DEF Bytes!Has, Bytes!Fail
  <2>6. CASE /\ o.ok = TRUE /\ Bytes!Past(o.b) = Bytes!Past(buf)
             /\ Replaced(Bytes!Readable(o.b), Bytes!Readable(buf), i, n, d)
    <3>1. PICK z : z = Bytes!Readable(o.b)
      OBVIOUS
    <3>2. Replaced(z, s, i, n, d)
      BY ONLY <1>1, <2>6, <3>1, Zenon
    <3>3. z = t
      BY ONLY <1>2, <1>5, <2>1, <2>3, <3>2, ReplacedOnce
    <3>4. Bytes!Has(o, t, q)
      BY <1>1, <2>6, <3>1, <3>3 DEF Bytes!Has
    <3>. QED BY ONLY <2>2, <3>4, Zenon
  <2>. QED BY <2>4, <2>5, <2>6
<1>13. ASSUME NEW d \in Bytes!Data, NEW i \in 0 .. Len(s), i + Len(d) <= Len(s)
       PROVE  LET o == Bytes!tt_buf_set(buf, i, d)
              IN  /\ o.ok
                  /\ Bytes!Has(o, SubSeq(s, 1, i) \o d \o SubSeq(s, i + Len(d) + 1, Len(s)), q)
  <2>1. i \in Nat /\ d \in Seq(Cell) /\ Len(d) \in Nat
    BY <1>13, DataFacts
  <2>2. PICK t, n : n = Len(d) /\ t = SubSeq(s, 1, i) \o d \o SubSeq(s, i + n + 1, Len(s))
    OBVIOUS
  <2>3. Replaced(t, s, i, n, d)
    <3>1. n \in Nat /\ i + n <= Len(s)
      BY ONLY <1>13, <2>1, <2>2
    <3>. QED BY ONLY <1>2, <2>1, <2>2, <3>1, ReplacedFacts
  <2>4. PICK o : o = Bytes!tt_buf_set(buf, i, d)
    OBVIOUS
  <2>5. buf.rpos + i + Len(d) <= buf.wpos
    <3>1. buf.rpos \in Nat /\ buf.wpos \in Nat
      BY SizedFacts
    <3>. QED BY ONLY <1>2, <1>13, <2>1, <3>1
  <2>6. /\ o.ok = TRUE /\ Bytes!Past(o.b) = Bytes!Past(buf)
        /\ Replaced(Bytes!Readable(o.b), Bytes!Readable(buf), i, n, d)
    <3>1. /\ o.ok = TRUE /\ Bytes!Past(o.b) = Bytes!Past(buf)
          /\ Replaced(Bytes!Readable(o.b), Bytes!Readable(buf), i, Len(d), d)
      BY ONLY <1>13, <2>1, <2>4, <2>5, Sized(buf), SetFits
    <3>. QED BY ONLY <2>2, <3>1
  <2>7. PICK z : z = Bytes!Readable(o.b)
    OBVIOUS
  <2>8. Replaced(z, s, i, n, d)
    BY ONLY <1>1, <2>6, <2>7, Zenon
  <2>9. z = t
    <3>1. n \in Nat /\ i + n <= Len(s)
      BY ONLY <1>13, <2>1, <2>2
    <3>. QED BY ONLY <1>2, <2>1, <2>3, <2>8, <3>1, ReplacedOnce
  <2>10. o.ok /\ Bytes!Has(o, t, q)
    BY <1>1, <2>6, <2>7, <2>9 DEF Bytes!Has
  <2>. QED BY ONLY <2>2, <2>4, <2>10, Zenon
<1>6. ASSUME Bytes!Compressible, NEW o \in Bytes!tt_buf_compress(buf)
      PROVE  Bytes!Has(o, s, <<>>)
  <2>1. Yields(o, buf, Bytes!Readable(buf), <<>>)
    BY <1>6, CompressFacts DEF Bytes!Compressible
  <2>. QED BY <1>1, <1>3, <2>1
<1>7. ASSUME ~Bytes!ReadOnly(buf)
      PROVE  Bytes!Has(Bytes!OK(Bytes!tt_buf_refine(buf)), s, <<>>)
  <2>1. PICK e : e = Bytes!tt_buf_refine(buf)
    OBVIOUS
  <2>2. Bytes!Readable(e) = s /\ Bytes!Past(e) = <<>>
    BY <1>1, <1>7, <2>1, RefineFacts
  <2>. QED BY <2>1, <2>2 DEF Bytes!Has, Bytes!OK
<1>8. ASSUME Bytes!Sayable(1), NEW o \in Bytes!tt_buf_extend(buf)
      PROVE  Bytes!Has(o, s, q) /\ (o.ok => Bytes!size(o.b) > Bytes!size(buf))
  <2>1. Len(buf.p) + 1 < BufSpan
    BY <1>8 DEF Bytes!Sayable, Bytes!size
  <2>2. Yields(o, buf, Bytes!Readable(buf), Bytes!Past(buf)) /\ (o.ok => Len(o.b.p) > Len(buf.p))
    BY <2>1, ExtendOnce
  <2>3. Bytes!Has(o, s, q)
    BY <1>1, <1>3, <2>2
  <2>. QED BY <2>2, <2>3 DEF Bytes!size
<1> DEFINE PutRight == \A d \in Bytes!Data : Bytes!Sayable(Len(d)) =>
                         /\ \A o \in Bytes!tt_buf_put(buf, d) : Bytes!Has(o, s \o d, q)
                         /\ \A i \in 0 .. Len(s), n \in 0 .. Len(s) : i + n <= Len(s) =>
                               \A o \in Bytes!tt_buf_set_range(buf, i, n, d) :
                                   Bytes!Has(o, SubSeq(s, 1, i) \o d \o SubSeq(s, i + n + 1, Len(s)), q)
<1>9. PutRight
  BY ONLY <1>4, <1>5, Zenon
<1>14. \A d \in Bytes!Data, i \in 0 .. Len(s) : i + Len(d) <= Len(s) =>
          LET o == Bytes!tt_buf_set(buf, i, d)
          IN  /\ o.ok
              /\ Bytes!Has(o, SubSeq(s, 1, i) \o d \o SubSeq(s, i + Len(d) + 1, Len(s)), q)
  BY ONLY <1>13, Zenon
<1>10. Bytes!Compressible => \A o \in Bytes!tt_buf_compress(buf) : Bytes!Has(o, s, <<>>)
  BY ONLY <1>6, Zenon
<1>11. ~Bytes!ReadOnly(buf) => Bytes!Has(Bytes!OK(Bytes!tt_buf_refine(buf)), s, <<>>)
  BY ONLY <1>7, Zenon
<1>12. Bytes!Sayable(1) => \A o \in Bytes!tt_buf_extend(buf) :
          Bytes!Has(o, s, q) /\ (o.ok => Bytes!size(o.b) > Bytes!size(buf))
  BY ONLY <1>8, Zenon
<1>. QED BY ONLY <1>1, <1>9, <1>10, <1>11, <1>12, <1>14, Zenon DEF Bytes!Contents

(* tt_buf_t: the positions are as TT_BUF_CHECK() asserts, and the readable     *)
(* bytes after a call are what that call is to make of those before it, for    *)
(* every size of the buffer, of its growth and of a call.  One call is not     *)
(* made (Compressible): tt_buf_compress() of more than TT_BUF_INIT_SIZE        *)
(* readable bytes that do not begin the array, after which the positions are   *)
(* wrong.                                                                      *)
THEOREM BufferIsSound == Bytes!Spec => []BufferSound
<1>1. Bytes!Init => Sized(buf)
  BY CreatedSized DEF Bytes!Init
<1>2. Sized(buf) /\ [Bytes!Next]_buf => Sized(buf)'
  <2>. SUFFICES ASSUME Sized(buf), [Bytes!Next]_buf
                PROVE  Sized(buf')
    BY DEF Sized
  <2>1. CASE Bytes!Next
    BY <2>1, StoreSized, MoveSized, ArrangeSized DEF Bytes!Next
  <2>2. CASE UNCHANGED buf
    BY <2>2
  <2>. QED BY <2>1, <2>2
<1>3. Sized(buf) => BufferSound
  <2>. SUFFICES ASSUME Sized(buf) PROVE BufferSound
    OBVIOUS
  <2>1. Bytes!Checked
    BY SizedFacts DEF Bytes!Checked, Bytes!size
  <2>2. Bytes!Contents
    BY ContentsKept
  <2>. QED BY <2>1, <2>2 DEF BufferSound
<1>. QED BY <1>1, <1>2, <1>3, PTL DEF Bytes!Spec
=============================================================================
