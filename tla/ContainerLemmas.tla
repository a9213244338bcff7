--------------------------- MODULE ContainerLemmas --------------------------
(***************************************************************************)
(* What the operations of the intrusive lists (TTList) and of the pointer   *)
(* heap (PtrHeap) do, for lists and heaps of any size: the facts the proofs *)
(* about schedulers, queues and timers rest on.                             *)
(*                                                                          *)
(* The heap moves a node in a loop, which the model writes as a recursive   *)
(* function.  That such a function exists, and that it ends in a state      *)
(* where nothing changes, is shown once, for any loop (LoopExists,          *)
(* LoopEnds), from the fact that a set of numbers has a least element.      *)
(***************************************************************************)
EXTENDS TTList, PtrHeap, WellFoundedInduction, TLAPS

-----------------------------------------------------------------------------
(* Lists.                                                                   *)

(* Pushing at the tail adds the node and keeps a list free of duplicates.   *)
LEMMA PushTail ==
    ASSUME NEW S, NEW lst \in Seq(S), NEW x \in S
    PROVE  /\ tt_list_push_tail(lst, x) \in Seq(S)
           /\ Nodes(tt_list_push_tail(lst, x)) = Nodes(lst) \cup {x}
           /\ Distinct(lst) /\ x \notin Nodes(lst)
                => Distinct(tt_list_push_tail(lst, x))
           /\ tt_list_push_tail(lst, x) # <<>>
<1> DEFINE new == Append(lst, x)
           n == Len(lst)
<1>1. /\ new \in Seq(S)
      /\ Len(new) = n + 1
      /\ DOMAIN new = 1 .. n + 1
      /\ DOMAIN lst = 1 .. n
      /\ n \in Nat
      /\ new[n + 1] = x
      /\ \A i \in 1 .. n : new[i] = lst[i]
  OBVIOUS
<1> HIDE DEF new, n
<1>2. Nodes(new) = Nodes(lst) \cup {x}
  <2>1. ASSUME NEW i \in 1 .. n + 1 PROVE new[i] \in Nodes(lst) \cup {x}
    BY <1>1 DEF Nodes
  <2>2. ASSUME NEW i \in 1 .. n PROVE lst[i] \in Nodes(new)
    <3>1. i \in 1 .. n + 1
      BY <1>1
    <3>. QED BY <1>1, <3>1 DEF Nodes
  <2>3. x \in Nodes(new)
    <3>1. n + 1 \in 1 .. n + 1
      BY <1>1
    <3>. QED BY <1>1, <3>1 DEF Nodes
  <2>. QED BY <1>1, <2>1, <2>2, <2>3 DEF Nodes
<1>3. ASSUME Distinct(lst), x \notin Nodes(lst) PROVE Distinct(new)
  <2> SUFFICES ASSUME NEW i \in 1 .. n + 1, NEW j \in 1 .. n + 1,
                      new[i] = new[j]
               PROVE  i = j
    BY <1>1 DEF Distinct
  <2>1. \A k \in 1 .. n : new[k] # x
    BY <1>1, <1>3 DEF Nodes
  <2>2. CASE i \in 1 .. n /\ j \in 1 .. n
    BY <1>1, <1>3, <2>2 DEF Distinct
  <2>3. CASE i = n + 1 \/ j = n + 1
    BY <1>1, <2>1, <2>3
  <2>. QED BY <1>1, <2>2, <2>3
<1>4. new # <<>>
  BY <1>1
<1>. QED BY <1>1, <1>2, <1>3, <1>4 DEF tt_list_push_tail, new

(* Pushing at the head adds the node in front.                              *)
LEMMA PushHead ==
    ASSUME NEW S, NEW lst \in Seq(S), NEW x \in S
    PROVE  /\ tt_list_push_head(lst, x) \in Seq(S)
           /\ Nodes(tt_list_push_head(lst, x)) = Nodes(lst) \cup {x}
           /\ Distinct(lst) /\ x \notin Nodes(lst)
                => Distinct(tt_list_push_head(lst, x))
           /\ tt_list_push_head(lst, x) # <<>>
           /\ Head(tt_list_push_head(lst, x)) = x
<1> DEFINE new == <<x>> \o lst
<1>1. /\ new \in Seq(S)
      /\ Len(new) = Len(lst) + 1
      /\ new[1] = x
      /\ \A i \in 1 .. Len(lst) : new[i + 1] = lst[i]
      /\ \A i \in 2 .. Len(new) : new[i] = lst[i - 1] /\ i - 1 \in 1 .. Len(lst)
  OBVIOUS
<1>2. Nodes(new) = Nodes(lst) \cup {x}
  <2>1. ASSUME NEW y \in Nodes(new) PROVE y \in Nodes(lst) \cup {x}
    <3>1. PICK i \in 1 .. Len(new) : y = new[i]
      BY <1>1 DEF Nodes
    <3>2. CASE i = 1
      BY <1>1, <3>1, <3>2
    <3>3. CASE i # 1
      BY <1>1, <3>1, <3>3 DEF Nodes
    <3>. QED BY <3>2, <3>3
  <2>2. ASSUME NEW y \in Nodes(lst) \cup {x} PROVE y \in Nodes(new)
    <3>1. CASE y = x
      <4>1. 1 \in DOMAIN new /\ new[1] = x
        BY <1>1
      <4>. QED BY <3>1, <4>1 DEF Nodes
    <3>2. CASE y \in Nodes(lst)
      <4>1. PICK i \in 1 .. Len(lst) : y = lst[i]
        BY <3>2 DEF Nodes
      <4>2. i + 1 \in DOMAIN new /\ new[i + 1] = y
        BY <1>1, <4>1
      <4>. QED BY <4>2 DEF Nodes
    <3>. QED BY <3>1, <3>2
  <2>. QED BY <2>1, <2>2
<1>3. ASSUME Distinct(lst), x \notin Nodes(lst) PROVE Distinct(new)
  <2> SUFFICES ASSUME NEW i \in DOMAIN new, NEW j \in DOMAIN new, new[i] = new[j]
               PROVE  i = j
    BY DEF Distinct
  <2>1. \A k \in DOMAIN new : k # 1 => new[k] \in Nodes(lst)
    BY <1>1 DEF Nodes
  <2>2. CASE i = 1 \/ j = 1
    BY <1>1, <1>3, <2>1, <2>2
  <2>3. CASE i # 1 /\ j # 1
    BY <1>1, <1>3, <2>3 DEF Distinct
  <2>. QED BY <2>2, <2>3
<1>. QED BY <1>1, <1>2, <1>3 DEF tt_list_push_head

(* The head of a list is one of its nodes.                                  *)
LEMMA HeadIsNode ==
    ASSUME NEW S, NEW lst \in Seq(S), lst # <<>>
    PROVE  Head(lst) \in Nodes(lst)
<1>1. 1 \in DOMAIN lst /\ lst[1] = Head(lst)
  OBVIOUS
<1>. QED BY <1>1 DEF Nodes

(* Unlinking a node takes it, and only it, out of a list.                   *)
LEMMA RemoveNode ==
    ASSUME NEW S, NEW lst \in Seq(S), NEW x, Distinct(lst)
    PROVE  /\ tt_list_remove(lst, x) \in Seq(S)
           /\ Nodes(tt_list_remove(lst, x)) = Nodes(lst) \ {x}
           /\ Distinct(tt_list_remove(lst, x))
<1>1. CASE x \notin Nodes(lst)
  BY <1>1 DEF tt_list_remove
<1>2. CASE x \in Nodes(lst)
  <2> DEFINE p == PosOf(lst, x)
             n == Len(lst)
             new == [i \in 1 .. n - 1 |-> IF i < p THEN lst[i] ELSE lst[i + 1]]
  <2>1. p \in 1 .. n /\ lst[p] = x
    BY <1>2 DEF PosOf, Nodes
  <2>2. n \in Nat /\ n - 1 \in Nat /\ DOMAIN lst = 1 .. n
    BY <2>1
  <2> HIDE DEF p, n
  <2>3. \A i \in 1 .. n - 1 : new[i] = (IF i < p THEN lst[i] ELSE lst[i + 1])
    OBVIOUS
  <2>4. new \in Seq(S) /\ Len(new) = n - 1 /\ DOMAIN new = 1 .. n - 1
    BY <2>1, <2>2, <2>3 DEF n
  <2>5. \A i, j \in 1 .. n : lst[i] = lst[j] => i = j
    BY <2>2 DEF Distinct
  <2> HIDE DEF new
  <2>6. Nodes(new) = Nodes(lst) \ {x}
    <3>1. ASSUME NEW y \in Nodes(new) PROVE y \in Nodes(lst) \ {x}
      <4>1. PICK i \in 1 .. n - 1 : y = new[i]
        BY <2>4 DEF Nodes
      <4>2. CASE i < p
        <5>1. i \in 1 .. n /\ y = lst[i] /\ i # p
          BY <2>1, <2>2, <2>3, <4>1, <4>2
        <5>. QED BY <5>1, <2>1, <2>2, <2>5 DEF Nodes
      <4>3. CASE ~(i < p)
        <5>1. i + 1 \in 1 .. n /\ y = lst[i + 1] /\ i + 1 # p
          BY <2>1, <2>2, <2>3, <4>1, <4>3
        <5>. QED BY <5>1, <2>1, <2>2, <2>5 DEF Nodes
      <4>. QED BY <4>2, <4>3
    <3>2. ASSUME NEW y \in Nodes(lst) \ {x} PROVE y \in Nodes(new)
      <4>1. PICK i \in 1 .. n : y = lst[i]
        BY <2>2 DEF Nodes
      <4>2. i # p
        BY <2>1, <4>1, <3>2
      <4>3. CASE i < p
        <5>1. i \in 1 .. n - 1 /\ new[i] = y
          BY <2>1, <2>2, <2>3, <4>1, <4>3
        <5>. QED BY <5>1, <2>4 DEF Nodes
      <4>4. CASE i > p
        <5>1. i - 1 \in 1 .. n - 1 /\ ~(i - 1 < p) /\ (i - 1) + 1 = i
          BY <2>1, <2>2, <4>4
        <5>2. new[i - 1] = y
          BY <2>3, <4>1, <5>1
        <5>. QED BY <5>1, <5>2, <2>4 DEF Nodes
      <4>. QED BY <4>2, <4>3, <4>4, <2>1, <2>2
    <3>. QED BY <3>1, <3>2
  <2>7. Distinct(new)
    <3> SUFFICES ASSUME NEW i \in 1 .. n - 1, NEW j \in 1 .. n - 1,
                        new[i] = new[j]
                 PROVE  i = j
      BY <2>4 DEF Distinct
    <3> DEFINE q(k) == IF k < p THEN k ELSE k + 1
    <3>1. q(i) \in 1 .. n /\ q(j) \in 1 .. n
      BY <2>2
    <3>2. new[i] = lst[q(i)] /\ new[j] = lst[q(j)]
      BY <2>3
    <3>3. q(i) = q(j)
      BY <2>5, <3>1, <3>2
    <3>. QED BY <3>3, <2>1, <2>2
  <2>8. new = tt_list_remove(lst, x)
    BY <1>2 DEF tt_list_remove, new, p, n
  <2>. QED BY <2>4, <2>6, <2>7, <2>8
<1>. QED BY <1>1, <1>2

(* Pushing a node that is not in the list yet.                               *)
LEMMA PushNew ==
    ASSUME NEW S, NEW lst \in Seq(S), NEW x \in S, Distinct(lst), x \notin Nodes(lst)
    PROVE  /\ tt_list_push_tail(lst, x) \in Seq(S)
           /\ Nodes(tt_list_push_tail(lst, x)) = Nodes(lst) \cup {x}
           /\ Distinct(tt_list_push_tail(lst, x))
  BY PushTail

(* A node moves to the tail of a list.                                       *)
LEMMA Requeue ==
    ASSUME NEW S, NEW lst \in Seq(S), NEW x \in S, Distinct(lst),
           NEW r, r = tt_list_push_tail(tt_list_remove(lst, x), x)
    PROVE  r \in Seq(S) /\ Nodes(r) = Nodes(lst) \cup {x} /\ Distinct(r)
<1> DEFINE mid == tt_list_remove(lst, x)
<1>1. mid \in Seq(S) /\ Nodes(mid) = Nodes(lst) \ {x} /\ Distinct(mid)
  BY RemoveNode
<1>. HIDE DEF mid
<1>2. x \notin Nodes(mid)
  BY <1>1
<1>3. /\ tt_list_push_tail(mid, x) \in Seq(S)
      /\ Nodes(tt_list_push_tail(mid, x)) = Nodes(mid) \cup {x}
      /\ Distinct(tt_list_push_tail(mid, x))
  BY ONLY <1>1, <1>2, PushNew, x \in S
<1>. QED BY <1>1, <1>3 DEF mid

(* What is left of a list without its head.                                  *)
LEMMA TailNodes ==
    ASSUME NEW S, NEW lst \in Seq(S), lst # <<>>
    PROVE  /\ Head(lst) \in S
           /\ Tail(lst) \in Seq(S)
           /\ Nodes(Tail(lst)) \subseteq Nodes(lst)
           /\ Distinct(lst) => Distinct(Tail(lst))
<1>1. /\ Head(lst) \in S
      /\ Tail(lst) \in Seq(S)
      /\ DOMAIN Tail(lst) = 1 .. Len(lst) - 1
      /\ DOMAIN lst = 1 .. Len(lst)
      /\ Len(lst) \in Nat
      /\ \A i \in 1 .. Len(lst) - 1 : Tail(lst)[i] = lst[i + 1]
  OBVIOUS
<1>2. Nodes(Tail(lst)) \subseteq Nodes(lst)
  BY <1>1 DEF Nodes
<1>3. ASSUME Distinct(lst) PROVE Distinct(Tail(lst))
  <2> SUFFICES ASSUME NEW i \in 1 .. Len(lst) - 1, NEW j \in 1 .. Len(lst) - 1,
                      Tail(lst)[i] = Tail(lst)[j]
               PROVE  i = j
    BY <1>1 DEF Distinct
  <2>1. i + 1 \in DOMAIN lst /\ j + 1 \in DOMAIN lst /\ lst[i + 1] = lst[j + 1]
    BY <1>1
  <2>2. i + 1 = j + 1
    BY <1>3, <2>1 DEF Distinct
  <2>. QED BY <1>1, <2>2
<1>. QED BY <1>1, <1>2, <1>3

(* Taking the head of a list takes that node and no other.                    *)
LEMMA TailTakesHead ==
    ASSUME NEW S, NEW lst \in Seq(S), lst # <<>>, Distinct(lst)
    PROVE  /\ Head(lst) \in S /\ Tail(lst) \in Seq(S) /\ Distinct(Tail(lst))
           /\ Nodes(Tail(lst)) = Nodes(lst) \ {Head(lst)} /\ Head(lst) \in Nodes(lst)
<1>1. /\ Head(lst) \in S /\ Tail(lst) \in Seq(S) /\ Distinct(Tail(lst))
      /\ Nodes(Tail(lst)) \subseteq Nodes(lst) /\ Head(lst) \in Nodes(lst)
  BY TailNodes, HeadIsNode
<1>2. /\ Len(lst) \in Nat \ {0} /\ DOMAIN lst = 1 .. Len(lst) /\ Head(lst) = lst[1]
      /\ DOMAIN Tail(lst) = 1 .. Len(lst) - 1
      /\ \A i \in 1 .. Len(lst) - 1 : Tail(lst)[i] = lst[i + 1]
  OBVIOUS
<1>3. \A x : x \in Nodes(lst) <=> \E i \in 1 .. Len(lst) : x = lst[i]
  BY <1>2 DEF Nodes
<1>4. \A x : x \in Nodes(Tail(lst)) <=> \E i \in 1 .. Len(lst) - 1 : x = lst[i + 1]
  BY <1>2 DEF Nodes
<1>5. ASSUME NEW x \in Nodes(lst), x # Head(lst) PROVE x \in Nodes(Tail(lst))
  <2>1. PICK i \in 1 .. Len(lst) : x = lst[i]
    BY <1>3
  <2>2. i - 1 \in 1 .. Len(lst) - 1 /\ (i - 1) + 1 = i
    BY <1>2, <1>5, <2>1
  <2>. QED BY <1>4, <2>1, <2>2
<1>6. Head(lst) \notin Nodes(Tail(lst))
  <2>1. SUFFICES ASSUME NEW i \in 1 .. Len(lst) - 1, lst[1] = lst[i + 1] PROVE FALSE
    BY <1>2, <1>4
  <2>2. i + 1 \in DOMAIN lst /\ 1 \in DOMAIN lst /\ i + 1 # 1
    BY <1>2
  <2>. QED BY <2>1, <2>2 DEF Distinct
<1>. QED BY <1>1, <1>5, <1>6

(* Moving a list into an empty one.                                          *)
LEMMA MoveIntoEmpty ==
    ASSUME NEW S, NEW lst \in Seq(S)
    PROVE  <<>> \o lst = lst /\ lst \o <<>> = lst
  OBVIOUS

(* The concatenation of two lists: adding at its end, taking its head, and    *)
(* dropping all of its first part.                                           *)
LEMMA ConcatLists ==
    ASSUME NEW S, NEW a \in Seq(S), NEW b \in Seq(S), NEW x \in S
    PROVE  /\ a \o b \in Seq(S)
           /\ Nodes(a \o b) = Nodes(a) \cup Nodes(b)
           /\ a \o Append(b, x) = Append(a \o b, x)
           /\ a # <<>> => /\ a \o b # <<>>
                          /\ Head(a \o b) = Head(a)
                          /\ Tail(a \o b) = Tail(a) \o b
           /\ Len(a) \in 0 .. Len(a \o b)
           /\ SubSeq(a \o b, Len(a) + 1, Len(a \o b)) = b
<1> DEFINE c == a \o b
<1>1. /\ c \in Seq(S)
      /\ Len(c) = Len(a) + Len(b)
      /\ DOMAIN c = 1 .. Len(a) + Len(b)
      /\ \A i \in 1 .. Len(a) : c[i] = a[i]
      /\ \A i \in 1 .. Len(b) : c[Len(a) + i] = b[i]
      /\ Len(a) \in Nat /\ Len(b) \in Nat
      /\ DOMAIN a = 1 .. Len(a) /\ DOMAIN b = 1 .. Len(b)
  OBVIOUS
<1>2. Nodes(c) = Nodes(a) \cup Nodes(b)
  <2>1. ASSUME NEW n \in Nodes(c) PROVE n \in Nodes(a) \cup Nodes(b)
    <3>1. PICK i \in 1 .. Len(a) + Len(b) : n = c[i]
      BY <1>1 DEF Nodes
    <3>2. CASE i \in 1 .. Len(a)
      BY <1>1, <3>1, <3>2 DEF Nodes
    <3>3. CASE i \notin 1 .. Len(a)
      <4>1. i - Len(a) \in 1 .. Len(b) /\ i = Len(a) + (i - Len(a))
        BY <1>1, <3>3
      <4>2. n = b[i - Len(a)]
        BY <1>1, <3>1, <4>1
      <4>. QED BY <1>1, <4>1, <4>2 DEF Nodes
    <3>. QED BY <3>2, <3>3
  <2>2. ASSUME NEW n \in Nodes(a) PROVE n \in Nodes(c)
    <3>1. PICK i \in 1 .. Len(a) : n = a[i]
      BY <1>1 DEF Nodes
    <3>. QED BY <1>1, <3>1 DEF Nodes
  <2>3. ASSUME NEW n \in Nodes(b) PROVE n \in Nodes(c)
    <3>1. PICK i \in 1 .. Len(b) : n = b[i]
      BY <1>1 DEF Nodes
    <3>2. Len(a) + i \in DOMAIN c /\ c[Len(a) + i] = n
      BY <1>1, <3>1
    <3>. QED BY <3>2 DEF Nodes
  <2>. QED BY <2>1, <2>2, <2>3
<1>3. a \o Append(b, x) = Append(a \o b, x)
  OBVIOUS
<1>4. a # <<>> => a \o b # <<>> /\ Head(a \o b) = Head(a) /\ Tail(a \o b) = Tail(a) \o b
  OBVIOUS
<1>5. SubSeq(a \o b, Len(a) + 1, Len(a \o b)) = b
  OBVIOUS
<1>. QED BY <1>1, <1>2, <1>3, <1>4, <1>5

-----------------------------------------------------------------------------
(* Induction and loops.                                                     *)

(* A set of numbers that is not empty has a least element.                  *)
LEMMA LeastNumber ==
    ASSUME NEW T, T \subseteq Nat, T # {}
    PROVE  \E m \in T : \A n \in T : m <= n
<1>1. \E m \in T : \A n \in T : <<n, m>> \notin OpToRel(<, Nat)
  BY WFMin, NatLessThanWellFounded
<1>2. PICK m \in T : \A n \in T : <<n, m>> \notin OpToRel(<, Nat)
  BY <1>1
<1>3. \A n \in T : ~(n < m)
  BY <1>2 DEF OpToRel
<1>. QED BY <1>3

(* A set that holds 0, and with a number the next one, holds all numbers.   *)
LEMMA AllNumbers ==
    ASSUME NEW T, T \subseteq Nat, 0 \in T, \A n \in T : n + 1 \in T
    PROVE  \A n \in Nat : n \in T
<1>. SUFFICES ASSUME NEW k \in Nat, k \notin T PROVE FALSE
  OBVIOUS
<1>1. PICK m \in Nat \ T : \A n \in Nat \ T : m <= n
  BY LeastNumber
<1>2. m \in Nat /\ m # 0
  OBVIOUS
<1>3. m - 1 \in Nat /\ ~(m <= m - 1)
  BY <1>2
<1>4. m - 1 \in T
  BY <1>1, <1>3
<1>5. (m - 1) + 1 \in T /\ (m - 1) + 1 = m
  BY <1>2, <1>4
<1>. QED BY <1>5

\* g carries base on by step, n times.
IsChain(g, n, base, step) ==
    g = [i \in 0 .. n |-> IF i = 0 THEN base ELSE step[i][g[i - 1]]]

(* There is such a chain, of any length.                                     *)
LEMMA ChainExists ==
    ASSUME NEW n \in Nat, NEW S, NEW base \in S, NEW step \in [1 .. n -> [S -> S]]
    PROVE  \E g \in [0 .. n -> S] : IsChain(g, n, base, step)
<1> DEFINE Upto(k, g) == /\ g \in [0 .. k -> S] /\ g[0] = base
                         /\ \A i \in 1 .. k : g[i] = step[i][g[i - 1]]
           T == {k \in Nat : k <= n => \E g : Upto(k, g)}
<1>1. 0 \in T
  <2>1. Upto(0, [i \in 0 .. 0 |-> base])
    OBVIOUS
  <2>. QED BY <2>1
<1>2. ASSUME NEW k \in T PROVE k + 1 \in T
  <2>1. k \in Nat /\ k + 1 \in Nat
    OBVIOUS
  <2>2. ASSUME k + 1 <= n PROVE \E g : Upto(k + 1, g)
    <3>1. PICK g : Upto(k, g)
      BY <2>1, <2>2
    <3>2. k + 1 \in 1 .. n /\ k \in 0 .. k
      BY <2>1, <2>2
    <3> DEFINE h == [i \in 0 .. k + 1 |-> IF i = k + 1 THEN step[k + 1][g[k]] ELSE g[i]]
    <3>3. step[k + 1][g[k]] \in S
      BY <3>1, <3>2
    <3>4. h \in [0 .. k + 1 -> S]
      BY <2>1, <3>1, <3>3
    <3>5. h[0] = base
      BY <2>1, <3>1
    <3>6. ASSUME NEW i \in 1 .. k + 1 PROVE h[i] = step[i][h[i - 1]]
      <4>1. i \in 0 .. k + 1 /\ i - 1 \in 0 .. k + 1 /\ i - 1 # k + 1
        BY <2>1
      <4>2. h[i - 1] = g[i - 1]
        BY <4>1
      <4>3. CASE i = k + 1
        BY <2>1, <4>1, <4>2, <4>3
      <4>4. CASE i # k + 1
        <5>1. i \in 1 .. k /\ h[i] = g[i]
          BY <2>1, <4>1, <4>4
        <5>. QED BY <3>1, <4>2, <5>1
      <4>. QED BY <4>3, <4>4
    <3>. HIDE DEF h
    <3>. QED BY <3>4, <3>5, <3>6
  <2>. QED BY <2>1, <2>2
<1>. HIDE DEF Upto
<1>3. T \subseteq Nat
  OBVIOUS
<1>. HIDE DEF T
<1>4. n \in T
  BY <1>1, <1>2, <1>3, AllNumbers
<1>5. PICK g : Upto(n, g)
  BY <1>4 DEF T
<1>6. \A i \in 0 .. n : g[i] = IF i = 0 THEN base ELSE step[i][g[i - 1]]
  BY <1>5 DEF Upto
<1>7. g \in [0 .. n -> S] /\ DOMAIN g = 0 .. n
  BY <1>5 DEF Upto
<1>8. g = [i \in 0 .. n |-> IF i = 0 THEN base ELSE step[i][g[i - 1]]]
  BY <1>6, <1>7
<1>. QED BY <1>7, <1>8 DEF IsChain

\* c[k] are the first k of the n lists o, one after the other.
IsConcat(c, n, o) == c = [k \in 0 .. n |-> IF k = 0 THEN <<>> ELSE c[k - 1] \o o[k]]

(* There is such a c.                                                       *)
LEMMA ConcatExists ==
    ASSUME NEW V, NEW n \in Nat, NEW o \in [1 .. n -> Seq(V)]
    PROVE  \E c : IsConcat(c, n, o)
<1> DEFINE step == [k \in 1 .. n |-> [x \in Seq(V) |-> x \o o[k]]]
<1>1. step \in [1 .. n -> [Seq(V) -> Seq(V)]]
  <2>1. ASSUME NEW k \in 1 .. n, NEW x \in Seq(V) PROVE x \o o[k] \in Seq(V)
    <3>1. o[k] \in Seq(V)
      OBVIOUS
    <3>. QED BY ONLY <3>1, x \in Seq(V)
  <2>. QED BY <2>1
<1>2. \A k \in 1 .. n, x \in Seq(V) : step[k][x] = x \o o[k]
  OBVIOUS
<1>3. <<>> \in Seq(V)
  OBVIOUS
<1>. HIDE DEF step
<1>4. PICK f \in [0 .. n -> Seq(V)] : IsChain(f, n, <<>>, step)
  BY <1>1, <1>3, ChainExists
<1>5. ASSUME NEW k \in 0 .. n
      PROVE  f[k] = IF k = 0 THEN <<>> ELSE f[k - 1] \o o[k]
  <2>1. f[k] = IF k = 0 THEN <<>> ELSE step[k][f[k - 1]]
    BY <1>4 DEF IsChain
  <2>2. k # 0 => k \in 1 .. n /\ k - 1 \in 0 .. n
    OBVIOUS
  <2>. QED BY <1>2, <1>4, <2>1, <2>2
<1>6. DOMAIN f = 0 .. n
  BY <1>4
<1>. QED BY <1>5, <1>6 DEF IsConcat

(* Where the elements of a and of b are in a \o b.                          *)
LEMMA ConcatPlaces ==
    ASSUME NEW V, NEW a \in Seq(V), NEW b \in Seq(V), NEW c, c = a \o b
    PROVE  /\ c \in Seq(V) /\ Len(c) = Len(a) + Len(b) /\ Len(a) \in Nat /\ Len(b) \in Nat
           /\ \A i \in 1 .. Len(a) : c[i] = a[i]
           /\ \A j \in 1 .. Len(b) : c[Len(a) + j] = b[j]
  OBVIOUS

\* Where the elements of the lists are in the whole.
Joins(c, n, o, V) ==
    /\ c \in [0 .. n -> Seq(V)] /\ Len(c[0]) = 0
    /\ \A k \in 1 .. n : Len(c[k]) = Len(c[k - 1]) + Len(o[k])
    /\ \A k \in 1 .. n : \A j \in 1 .. Len(o[k]) : c[n][Len(c[k - 1]) + j] = o[k][j]

(* They follow each other without a gap.                                    *)
LEMMA ConcatFacts ==
    ASSUME NEW V, NEW n \in Nat, NEW o \in [1 .. n -> Seq(V)], NEW c, IsConcat(c, n, o)
    PROVE  Joins(c, n, o, V)
<1>1. c[0] = <<>> /\ \A k \in 1 .. n : k \in 0 .. n /\ c[k] = c[k - 1] \o o[k]
  <2>1. ASSUME NEW k \in 0 .. n PROVE c[k] = IF k = 0 THEN <<>> ELSE c[k - 1] \o o[k]
    BY Zenon DEF IsConcat
  <2>2. 0 \in 0 .. n /\ \A k \in 1 .. n : k \in 0 .. n /\ k # 0
    OBVIOUS
  <2>3. c[0] = <<>>
    BY <2>1, <2>2
  <2>4. ASSUME NEW k \in 1 .. n PROVE c[k] = c[k - 1] \o o[k]
    BY <2>1, <2>2, Zenon
  <2>. QED BY <2>2, <2>3, <2>4
<1> DEFINE Upto(m) == /\ \A k \in 0 .. m : c[k] \in Seq(V) /\ Len(c[k]) <= Len(c[m])
                      /\ \A k \in 1 .. m : Len(c[k]) = Len(c[k - 1]) + Len(o[k])
                      /\ \A k \in 1 .. m : \A j \in 1 .. Len(o[k]) :
                            c[m][Len(c[k - 1]) + j] = o[k][j]
           T == {m \in Nat : m <= n => Upto(m)}
<1>2. 0 \in T
  <2>1. 0 .. 0 = {0} /\ 1 .. 0 = {}
    OBVIOUS
  <2>2. c[0] \in Seq(V) /\ Len(c[0]) <= Len(c[0])
    BY <1>1
  <2>. QED BY <2>1, <2>2
<1>3. ASSUME NEW m \in T PROVE m + 1 \in T
  <2>. HIDE DEF Upto
  <2>. SUFFICES ASSUME m + 1 <= n PROVE Upto(m + 1)
    OBVIOUS
  <2>1. m \in Nat /\ m \in 0 .. m /\ m + 1 \in 1 .. n /\ m <= n /\ (m + 1) - 1 = m
    OBVIOUS
  <2>2. Upto(m)
    BY <2>1
  <2>. HIDE DEF T
  <2>. USE DEF Upto
  <2>3. c[m] \in Seq(V) /\ o[m + 1] \in Seq(V) /\ c[m + 1] = c[m] \o o[m + 1]
    BY <1>1, <2>1, <2>2
  <2>4. /\ c[m + 1] \in Seq(V) /\ Len(c[m + 1]) = Len(c[m]) + Len(o[m + 1])
        /\ Len(c[m]) \in Nat /\ Len(o[m + 1]) \in Nat
        /\ \A i \in 1 .. Len(c[m]) : c[m + 1][i] = c[m][i]
        /\ \A j \in 1 .. Len(o[m + 1]) : c[m + 1][Len(c[m]) + j] = o[m + 1][j]
    <3>1. PICK a \in Seq(V) : a = c[m]
      BY <2>3
    <3>2. PICK b \in Seq(V) : b = o[m + 1]
      BY <2>3
    <3>3. PICK d : d = c[m + 1]
      OBVIOUS
    <3>4. d = a \o b
      BY <2>3, <3>1, <3>2, <3>3
    <3>5. /\ d \in Seq(V) /\ Len(d) = Len(a) + Len(b) /\ Len(a) \in Nat /\ Len(b) \in Nat
          /\ \A i \in 1 .. Len(a) : d[i] = a[i]
          /\ \A j \in 1 .. Len(b) : d[Len(a) + j] = b[j]
      BY ONLY <3>4, ConcatPlaces, a \in Seq(V), b \in Seq(V)
    <3>. QED BY ONLY <3>1, <3>2, <3>3, <3>5
  <2> DEFINE y == Len(c[m])
             z == Len(c[m + 1])
             h == Len(o[m + 1])
  <2>5. y \in Nat /\ h \in Nat /\ z = y + h
    BY <2>4
  <2>. HIDE DEF y, z, h
  <2>6. \A x \in Nat : x <= y => x <= z
    BY ONLY <2>5
  <2>7. ASSUME NEW k \in 0 .. m + 1 PROVE c[k] \in Seq(V) /\ Len(c[k]) <= Len(c[m + 1])
    <3>1. CASE k = m + 1
      <4>1. c[m + 1] \in Seq(V)
        BY <2>4
      <4>2. Len(c[m + 1]) <= Len(c[m + 1])
        BY ONLY <4>1
      <4>. QED BY <2>4, <3>1, <4>2
    <3>2. CASE k # m + 1
      <4>1. k \in 0 .. m
        BY <2>1, <3>2
      <4>2. c[k] \in Seq(V) /\ Len(c[k]) <= Len(c[m])
        BY <2>2, <4>1
      <4>3. Len(c[k]) \in Nat
        BY <4>2
      <4>4. Len(c[k]) <= Len(c[m + 1])
        BY ONLY <2>6, <4>2, <4>3 DEF y, z
      <4>. QED BY <4>2, <4>4
    <3>. QED BY <3>1, <3>2
  <2>8. ASSUME NEW k \in 1 .. m + 1
        PROVE  /\ Len(c[k]) = Len(c[k - 1]) + Len(o[k])
               /\ \A j \in 1 .. Len(o[k]) : c[m + 1][Len(c[k - 1]) + j] = o[k][j]
    <3>1. CASE k = m + 1
      BY <2>1, <2>4, <3>1
    <3>2. CASE k # m + 1
      <4>1. k \in 1 .. m /\ k \in 0 .. m /\ k - 1 \in 0 .. m /\ k \in 1 .. n
        BY <2>1, <3>2
      <4>2. /\ Len(c[k]) = Len(c[k - 1]) + Len(o[k]) /\ Len(c[k]) <= Len(c[m])
            /\ \A j \in 1 .. Len(o[k]) : c[m][Len(c[k - 1]) + j] = o[k][j]
        BY <2>2, <4>1
      <4>3. c[k - 1] \in Seq(V) /\ o[k] \in Seq(V)
        BY <2>2, <4>1
      <4>4. Len(c[k - 1]) \in Nat /\ Len(o[k]) \in Nat
        BY <4>3
      <4>5. ASSUME NEW j \in 1 .. Len(o[k]) PROVE Len(c[k - 1]) + j \in 1 .. Len(c[m])
        <5>1. \A x, r, i, w \in Nat :
                 w = x + r /\ w <= y /\ 1 <= i /\ i <= r => x + i \in 1 .. y
          BY ONLY <2>5
        <5>2. c[k] \in Seq(V) /\ j \in Nat /\ 1 <= j /\ j <= Len(o[k])
          BY <2>2, <4>1, <4>4
        <5>3. Len(c[k]) \in Nat
          BY <5>2
        <5>. QED BY ONLY <4>2, <4>4, <5>1, <5>2, <5>3 DEF y
      <4>. QED BY <2>4, <4>2, <4>5
    <3>. QED BY <3>1, <3>2
  <2>. QED BY <2>7, <2>8
<1>4. T \subseteq Nat
  OBVIOUS
<1>5. n \in T
  <2>. HIDE DEF T
  <2>. QED BY <1>2, <1>3, <1>4, AllNumbers
<1>6. Upto(n)
  BY <1>5
<1>7. c = [k \in 0 .. n |-> c[k]]
  BY DEF IsConcat
<1>. QED BY <1>1, <1>6, <1>7 DEF Joins

\* f carries on with step until it changes nothing.
IsLoop(f, S, step) == f = [s \in S |-> IF step[s] = s THEN s ELSE f[step[s]]]

\* p are the states of n turns from s to t.
IsRun(p, n, S, step, s, t) ==
    /\ p \in [0 .. n -> S] /\ p[0] = s /\ p[n] = t
    /\ \A i \in 0 .. n - 1 : p[i + 1] = step[p[i]]

\* The turns from s come to an end in t.
EndsIn(S, step, s, t) ==
    step[t] = t /\ \E n \in Nat : \E p : IsRun(p, n, S, step, s, t)

(* Where nothing changes a loop ends at once.                               *)
LEMMA EndsAtOnce ==
    ASSUME NEW S, NEW step \in [S -> S], NEW s \in S, step[s] = s
    PROVE  \A t : EndsIn(S, step, s, t) <=> t = s
<1>1. EndsIn(S, step, s, s)
  <2>1. IsRun([i \in 0 .. 0 |-> s], 0, S, step, s, s)
    BY DEF IsRun
  <2>. QED BY <2>1 DEF EndsIn
<1>2. ASSUME NEW t, EndsIn(S, step, s, t) PROVE t = s
  <2>1. PICK n \in Nat : \E p : IsRun(p, n, S, step, s, t)
    BY <1>2 DEF EndsIn
  <2>2. PICK p : IsRun(p, n, S, step, s, t)
    BY <2>1
  <2> DEFINE T == {i \in Nat : i <= n => p[i] = s}
  <2>3. 0 \in T
    BY <2>2 DEF IsRun
  <2>4. ASSUME NEW i \in T PROVE i + 1 \in T
    <3>1. i \in Nat /\ i + 1 \in Nat
      OBVIOUS
    <3>2. ASSUME i + 1 <= n PROVE p[i + 1] = s
      <4>1. i <= n /\ i \in 0 .. n - 1
        BY <3>1, <3>2
      <4>. QED BY <2>2, <4>1 DEF IsRun
    <3>. QED BY <3>1, <3>2
  <2>. HIDE DEF T
  <2>5. T \subseteq Nat
    BY DEF T
  <2>6. n \in T
    BY <2>3, <2>4, <2>5, AllNumbers
  <2>. QED BY <2>2, <2>6 DEF T, IsRun
<1>. QED BY <1>1, <1>2

(* A turn does not change where a loop ends.                                *)
LEMMA EndsAfterTurn ==
    ASSUME NEW S, NEW step \in [S -> S], NEW s \in S, step[s] # s
    PROVE  \A t : EndsIn(S, step, s, t) <=> EndsIn(S, step, step[s], t)
<1>1. ASSUME NEW t, EndsIn(S, step, s, t) PROVE EndsIn(S, step, step[s], t)
  <2>1. PICK n \in Nat : \E p : IsRun(p, n, S, step, s, t)
    BY <1>1 DEF EndsIn
  <2>2. PICK p : IsRun(p, n, S, step, s, t)
    BY <2>1
  <2>3. n # 0
    BY <1>1, <2>2 DEF IsRun, EndsIn
  <2> DEFINE q == [i \in 0 .. n - 1 |-> p[i + 1]]
  <2>4. n - 1 \in Nat /\ \A i \in 0 .. n - 1 : i + 1 \in 0 .. n
    BY <2>3
  <2>5. q \in [0 .. n - 1 -> S]
    BY <2>2, <2>4 DEF IsRun
  <2>6. q[0] = step[s] /\ q[n - 1] = t
    <3>1. 0 \in 0 .. n - 1 /\ n - 1 \in 0 .. n - 1 /\ (n - 1) + 1 = n /\ 0 + 1 = 1
      BY <2>4
    <3>2. q[0] = p[0 + 1] /\ q[n - 1] = p[n]
      BY <3>1
    <3>. QED BY <2>2, <3>1, <3>2 DEF IsRun
  <2>7. ASSUME NEW i \in 0 .. (n - 1) - 1 PROVE q[i + 1] = step[q[i]]
    <3>1. i \in 0 .. n - 1 /\ i + 1 \in 0 .. n - 1
      BY <2>4
    <3>2. q[i] = p[i + 1] /\ q[i + 1] = p[(i + 1) + 1]
      BY <3>1
    <3>. QED BY <2>2, <3>1, <3>2 DEF IsRun
  <2>8. IsRun(q, n - 1, S, step, step[s], t)
    BY <2>5, <2>6, <2>7 DEF IsRun
  <2>. HIDE DEF q
  <2>. QED BY <1>1, <2>4, <2>8 DEF EndsIn
<1>2. ASSUME NEW t, EndsIn(S, step, step[s], t) PROVE EndsIn(S, step, s, t)
  <2>1. PICK n \in Nat : \E p : IsRun(p, n, S, step, step[s], t)
    BY <1>2 DEF EndsIn
  <2>2. PICK p : IsRun(p, n, S, step, step[s], t)
    BY <2>1
  <2> DEFINE q == [i \in 0 .. n + 1 |-> IF i = 0 THEN s ELSE p[i - 1]]
  <2>3. n + 1 \in Nat /\ \A i \in 0 .. n + 1 : i # 0 => i - 1 \in 0 .. n
    OBVIOUS
  <2>4. q \in [0 .. n + 1 -> S]
    BY <2>2, <2>3 DEF IsRun
  <2>5. q[0] = s /\ q[n + 1] = t
    <3>1. 0 \in 0 .. n + 1 /\ n + 1 \in 0 .. n + 1 /\ n + 1 # 0 /\ (n + 1) - 1 = n
      BY <2>3
    <3>2. q[n + 1] = p[n]
      BY <3>1
    <3>. QED BY <2>2, <3>1, <3>2 DEF IsRun
  <2>6. ASSUME NEW i \in 0 .. (n + 1) - 1 PROVE q[i + 1] = step[q[i]]
    <3>1. i \in 0 .. n + 1 /\ i + 1 \in 0 .. n + 1 /\ i + 1 # 0 /\ (i + 1) - 1 = i
      BY <2>3
    <3>2. q[i + 1] = p[i]
      BY <3>1
    <3>3. CASE i = 0
      BY <2>2, <3>1, <3>2, <3>3 DEF IsRun
    <3>4. CASE i # 0
      <4>1. q[i] = p[i - 1] /\ i - 1 \in 0 .. n - 1 /\ (i - 1) + 1 = i
        BY <3>1, <3>4
      <4>2. p[i] = step[p[i - 1]]
        BY <2>2, <4>1 DEF IsRun
      <4>. QED BY <3>2, <4>1, <4>2
    <3>. QED BY <3>3, <3>4
  <2>7. IsRun(q, n + 1, S, step, s, t)
    BY <2>4, <2>5, <2>6 DEF IsRun
  <2>. HIDE DEF q
  <2>. QED BY <1>2, <2>3, <2>7 DEF EndsIn
<1>. QED BY <1>1, <1>2

(* So there is a function that carries on until nothing changes.            *)
LEMMA LoopExists ==
    ASSUME NEW S, NEW step \in [S -> S]
    PROVE  \E f : IsLoop(f, S, step)
<1> DEFINE E(s) == CHOOSE t : EndsIn(S, step, s, t)
           f == [s \in S |-> E(s)]
<1>1. ASSUME NEW s \in S, step[s] = s PROVE E(s) = s
  BY <1>1, EndsAtOnce
<1>2. ASSUME NEW s \in S, step[s] # s PROVE E(s) = E(step[s])
  <2>1. \A t : EndsIn(S, step, s, t) <=> EndsIn(S, step, step[s], t)
    BY <1>2, EndsAfterTurn
  <2>. QED BY <2>1
<1>3. \A s \in S : step[s] \in S
  OBVIOUS
<1>. HIDE DEF E
<1>4. \A s \in S : f[s] = E(s)
  OBVIOUS
<1>5. \A s \in S : E(s) = IF step[s] = s THEN s ELSE f[step[s]]
  BY <1>1, <1>2, <1>3, <1>4
<1>6. f = [s \in S |-> IF step[s] = s THEN s ELSE f[step[s]]]
  <2> DEFINE g == [s \in S |-> IF step[s] = s THEN s ELSE f[step[s]]]
  <2>1. \A s \in S : f[s] = g[s]
    BY <1>4, <1>5
  <2>2. DOMAIN f = S /\ DOMAIN g = S
    OBVIOUS
  <2>. QED BY <2>1, <2>2
<1>. HIDE DEF f
<1>. QED BY <1>6 DEF IsLoop

\* Every turn lowers mu; no turn leaves I.
Lowers(mu, S, step) ==
    mu \in [S -> Nat] /\ \A s \in S : step[s] = s \/ mu[step[s]] < mu[s]

Keeps(I, S, step) == I \subseteq S /\ \A s \in I : step[s] \in I

(* If every turn comes nearer to an end, a loop ends, in a state where nothing *)
(* changes and in which everything holds that the turns preserve.           *)
LEMMA LoopEnds ==
    ASSUME NEW S, NEW step \in [S -> S], NEW f, IsLoop(f, S, step),
           NEW mu, Lowers(mu, S, step), NEW I, Keeps(I, S, step)
    PROVE  \A s \in I : f[s] \in I /\ step[f[s]] = f[s]
<1>. USE DEF Lowers, Keeps
<1> DEFINE Good(s) == f[s] \in I /\ step[f[s]] = f[s]
           T == {mu[s] : s \in {r \in I : ~Good(r)}}
<1>. SUFFICES ASSUME T # {} PROVE FALSE
  OBVIOUS
<1>1. T \subseteq Nat
  OBVIOUS
<1>2. PICK m \in T : \A n \in T : m <= n
  BY <1>1, LeastNumber
<1>3. PICK s \in I : ~Good(s) /\ m = mu[s]
  OBVIOUS
<1>4. f[s] = IF step[s] = s THEN s ELSE f[step[s]]
  BY DEF IsLoop
<1>5. step[s] # s
  BY <1>3, <1>4
<1>6. step[s] \in I /\ mu[step[s]] < mu[s] /\ mu[step[s]] \in Nat /\ mu[s] \in Nat
  BY <1>5
<1>7. ~Good(step[s])
  BY <1>3, <1>4, <1>5
<1>8. mu[step[s]] \in T
  BY <1>6, <1>7
<1>9. m <= mu[step[s]]
  BY <1>2, <1>8
<1>. QED BY <1>3, <1>6, <1>9

-----------------------------------------------------------------------------
(* The heap.                                                                *)

\* A heap whose items know their places.
Sound(h) == h \in Heap /\ Placed(h)

(* Its array, and what Placed says of it.                                    *)
LEMMA SoundFacts ==
    ASSUME NEW h, Sound(h)
    PROVE  /\ h.node \in Seq(Item) /\ h.pos \in [Item -> Nat \cup {POS_NULL}]
           /\ Len(h.node) \in Nat /\ DOMAIN h.node = 1 .. Len(h.node)
           /\ h = [node |-> h.node, pos |-> h.pos]
           /\ \A i \in 0 .. Len(h.node) - 1 :
                 /\ i + 1 \in DOMAIN h.node /\ h.node[i + 1] \in Item
                 /\ h.node[i + 1] \in Members(h) /\ h.pos[h.node[i + 1]] = i
           /\ \A i, j \in 0 .. Len(h.node) - 1 : h.node[i + 1] = h.node[j + 1] => i = j
           /\ \A x : x \in Members(h) <=>
                 x \in Item /\ \E i \in 0 .. Len(h.node) - 1 : x = h.node[i + 1]
           /\ Members(h) \subseteq Item
<1>1. /\ h.node \in Seq(Item) /\ h.pos \in [Item -> Nat \cup {POS_NULL}]
      /\ Len(h.node) \in Nat /\ DOMAIN h.node = 1 .. Len(h.node)
      /\ h = [node |-> h.node, pos |-> h.pos]
  BY DEF Sound, Heap
<1>2. ASSUME NEW i \in 0 .. Len(h.node) - 1
      PROVE  /\ i + 1 \in DOMAIN h.node /\ h.node[i + 1] \in Item
             /\ h.node[i + 1] \in Members(h) /\ h.pos[h.node[i + 1]] = i
  <2>1. i + 1 \in DOMAIN h.node /\ (i + 1) - 1 = i
    BY <1>1
  <2>2. h.node[i + 1] \in Item
    BY <1>1, <2>1
  <2>3. h.node[i + 1] \in Members(h)
    BY <2>1 DEF Members
  <2>4. h.pos[h.node[i + 1]] = (i + 1) - 1
    BY <2>1 DEF Sound, Placed
  <2>. QED BY <2>1, <2>2, <2>3, <2>4
<1>3. \A x : x \in Members(h) <=>
          x \in Item /\ \E i \in 0 .. Len(h.node) - 1 : x = h.node[i + 1]
  <2>1. ASSUME NEW x \in Members(h)
        PROVE  x \in Item /\ \E i \in 0 .. Len(h.node) - 1 : x = h.node[i + 1]
    <3>1. PICK k \in DOMAIN h.node : x = h.node[k]
      BY DEF Members
    <3>2. k - 1 \in 0 .. Len(h.node) - 1 /\ (k - 1) + 1 = k
      BY <1>1
    <3>. QED BY <1>2, <3>1, <3>2
  <2>. QED BY <1>2, <2>1
<1>. QED BY <1>1, <1>2, <1>3

(* Two elements of an array, and two values of a function, are replaced.      *)
LEMMA ReplaceInSeq ==
    ASSUME NEW S, NEW s \in Seq(S), NEW k \in 1 .. Len(s), NEW l \in 1 .. Len(s), k # l,
           NEW y \in S, NEW x \in S, NEW r, r = [s EXCEPT ![k] = y, ![l] = x]
    PROVE  /\ r \in Seq(S) /\ Len(r) = Len(s) /\ DOMAIN r = 1 .. Len(s)
           /\ r[k] = y /\ r[l] = x
           /\ \A i \in 1 .. Len(s) : i # k /\ i # l => r[i] = s[i]
<1> DEFINE n == Len(s)
<1>1. n \in Nat /\ DOMAIN s = 1 .. n /\ s \in [1 .. n -> S]
  OBVIOUS
<1>. HIDE DEF n
<1>2. DOMAIN r = 1 .. n /\ r[k] = y /\ r[l] = x
  BY <1>1 DEF n
<1>3. \A i \in 1 .. n : i # k /\ i # l => r[i] = s[i]
  BY <1>1 DEF n
<1>4. r \in [1 .. n -> S]
  BY <1>1 DEF n
<1>5. r \in Seq(S) /\ Len(r) = n
  BY <1>1, <1>4
<1>. QED BY <1>2, <1>3, <1>5 DEF n

LEMMA ReplaceInFcn ==
    ASSUME NEW S, NEW T, NEW f \in [S -> T], NEW x \in S, NEW y \in S, x # y,
           NEW a \in T, NEW b \in T, NEW r, r = [f EXCEPT ![y] = a, ![x] = b]
    PROVE  r \in [S -> T] /\ r[y] = a /\ r[x] = b
           /\ \A z \in S : z # x /\ z # y => r[z] = f[z]
  OBVIOUS

(* Two nodes change places.                                                  *)
LEMMA SwapFacts ==
    ASSUME NEW h, Sound(h), NEW a \in 0 .. Len(h.node) - 1, NEW b \in 0 .. Len(h.node) - 1,
           NEW w, w = __SWAP_PH_NODE(h, a, b), a # b
    PROVE  /\ Sound(w) /\ Len(w.node) = Len(h.node) /\ Members(w) = Members(h)
           /\ w.node[a + 1] = h.node[b + 1] /\ w.node[b + 1] = h.node[a + 1]
           /\ \A i \in 0 .. Len(h.node) - 1 : i # a /\ i # b => w.node[i + 1] = h.node[i + 1]
<1> DEFINE n == Len(h.node)
           x == h.node[a + 1]
           y == h.node[b + 1]
<1>1. /\ h.node \in Seq(Item) /\ h.pos \in [Item -> Nat \cup {POS_NULL}]
      /\ n \in Nat /\ DOMAIN h.node = 1 .. n
      /\ \A i \in 0 .. n - 1 : h.node[i + 1] \in Item /\ h.pos[h.node[i + 1]] = i
      /\ \A i, j \in 0 .. n - 1 : h.node[i + 1] = h.node[j + 1] => i = j
      /\ \A z : z \in Members(h) <=> z \in Item /\ \E i \in 0 .. n - 1 : z = h.node[i + 1]
  BY SoundFacts
<1>2. /\ w.node = [h.node EXCEPT ![a + 1] = y, ![b + 1] = x]
      /\ w.pos = [h.pos EXCEPT ![y] = a, ![x] = b]
      /\ w = [node |-> w.node, pos |-> w.pos]
  BY DEF __SWAP_PH_NODE
<1>3. x \in Item /\ y \in Item /\ x # y /\ a \in Nat /\ b \in Nat
  BY <1>1
<1>4. a + 1 \in 1 .. n /\ b + 1 \in 1 .. n /\ a + 1 # b + 1
  BY <1>1
<1>. HIDE DEF x, y
<1>5. /\ w.node \in Seq(Item) /\ Len(w.node) = n /\ DOMAIN w.node = 1 .. n
      /\ w.node[a + 1] = y /\ w.node[b + 1] = x
      /\ \A k \in 1 .. n : k # a + 1 /\ k # b + 1 => w.node[k] = h.node[k]
  BY ONLY <1>1, <1>2, <1>3, <1>4, ReplaceInSeq
<1>6. /\ w.pos \in [Item -> Nat \cup {POS_NULL}] /\ w.pos[y] = a /\ w.pos[x] = b
      /\ \A z \in Item : z # x /\ z # y => w.pos[z] = h.pos[z]
  <2> DEFINE T == Nat \cup {POS_NULL}
  <2>1. a \in T /\ b \in T
    BY <1>3
  <2>2. h.pos \in [Item -> T]
    BY <1>1
  <2>. HIDE DEF T
  <2>3. /\ w.pos \in [Item -> T] /\ w.pos[y] = a /\ w.pos[x] = b
        /\ \A z \in Item : z # x /\ z # y => w.pos[z] = h.pos[z]
    BY ONLY <1>2, <1>3, <2>1, <2>2, ReplaceInFcn
  <2>. QED BY <2>3 DEF T
<1>. HIDE DEF n
<1>7. \A i \in 0 .. n - 1 : i # a /\ i # b => w.node[i + 1] = h.node[i + 1]
  <2>. SUFFICES ASSUME NEW i \in 0 .. n - 1, i # a, i # b PROVE w.node[i + 1] = h.node[i + 1]
    OBVIOUS
  <2>1. i + 1 \in 1 .. n /\ i + 1 # a + 1 /\ i + 1 # b + 1
    BY <1>1, <1>3
  <2>. QED BY <1>5, <2>1
<1>8. w \in Heap
  BY <1>2, <1>5, <1>6 DEF Heap
<1>9. Members(w) = Members(h)
  <2>1. ASSUME NEW z \in Members(w) PROVE z \in Members(h)
    <3>1. PICK k \in 1 .. n : z = w.node[k]
      BY <1>5 DEF Members
    <3>2. z = y \/ z = x \/ z = h.node[k]
      BY <1>5, <3>1
    <3>. QED BY <1>1, <1>4, <3>2 DEF Members, x, y
  <2>2. ASSUME NEW z \in Members(h) PROVE z \in Members(w)
    <3>1. PICK k \in 1 .. n : z = h.node[k]
      BY <1>1 DEF Members
    <3>2. z = w.node[a + 1] \/ z = w.node[b + 1] \/ z = w.node[k]
      BY <1>5, <3>1 DEF x, y
    <3>. QED BY <1>4, <1>5, <3>1, <3>2 DEF Members
  <2>. QED BY <2>1, <2>2
<1>10. Placed(w)
  <2>1. ASSUME NEW k \in DOMAIN w.node PROVE w.pos[w.node[k]] = k - 1
    <3>1. k \in 1 .. n /\ k - 1 \in 0 .. n - 1 /\ (k - 1) + 1 = k
      BY <1>1, <1>5
    <3>2. CASE k = a + 1
      BY <1>3, <1>5, <1>6, <3>2
    <3>3. CASE k = b + 1
      BY <1>3, <1>5, <1>6, <3>3
    <3>4. CASE k # a + 1 /\ k # b + 1
      <4>1. k - 1 # a /\ k - 1 # b
        BY <1>3, <3>1, <3>4
      <4>2. h.node[k] \in Item /\ h.pos[h.node[k]] = k - 1 /\ h.node[k] # x /\ h.node[k] # y
        BY <1>1, <3>1, <4>1 DEF x, y, n
      <4>. QED BY <1>5, <1>6, <3>1, <3>4, <4>2
    <3>. QED BY <3>2, <3>3, <3>4
  <2>2. ASSUME NEW z \in Item, w.pos[z] # POS_NULL PROVE z \in Members(w)
    <3>1. CASE z = x \/ z = y
      BY <1>1, <1>4, <1>9, <3>1 DEF Members, x, y
    <3>2. CASE z # x /\ z # y
      BY <1>6, <1>9, <2>2, <3>2 DEF Sound, Placed
    <3>. QED BY <3>1, <3>2
  <2>. QED BY <2>1, <2>2 DEF Placed
<1>. QED BY <1>5, <1>5, <1>7, <1>8, <1>9, <1>10 DEF Sound, n, x, y

\* The key at place i, and the order of the heap around one node: all other nodes
\* are in order, also without it; it is not above its parent; its children are not
\* above it.
KeyAt(h, key, i) == key[h.node[i + 1]]

Loose(h, key, i) ==
    \A j \in 1 .. Len(h.node) - 1 :
        /\ j # i /\ __PH_PARENT(j) # i => KeyAt(h, key, __PH_PARENT(j)) <= KeyAt(h, key, j)
        /\ __PH_PARENT(j) = i /\ i # 0 => KeyAt(h, key, __PH_PARENT(i)) <= KeyAt(h, key, j)

Risen(h, key, i) == i # 0 => KeyAt(h, key, __PH_PARENT(i)) <= KeyAt(h, key, i)

Sunk(h, key, i) ==
    \A j \in 1 .. Len(h.node) - 1 :
        __PH_PARENT(j) = i => KeyAt(h, key, i) <= KeyAt(h, key, j)

(* Parents and children.                                                     *)
LEMMA ParentFacts ==
    /\ \A j \in Nat : j # 0 => /\ __PH_PARENT(j) \in Nat /\ __PH_PARENT(j) < j
                               /\ j = __PH_LEFT(__PH_PARENT(j)) \/ j = __PH_RIGHT(__PH_PARENT(j))
    /\ \A i \in Nat : /\ __PH_LEFT(i) \in Nat /\ __PH_RIGHT(i) \in Nat
                      /\ i < __PH_LEFT(i) /\ i < __PH_RIGHT(i)
                      /\ __PH_LEFT(i) # __PH_RIGHT(i)
                      /\ __PH_PARENT(__PH_LEFT(i)) = i /\ __PH_PARENT(__PH_RIGHT(i)) = i
  BY DEF __PH_PARENT, __PH_LEFT, __PH_RIGHT

(* Keys are numbers.                                                         *)
LEMMA KeyFacts ==
    ASSUME NEW h, Sound(h), NEW key \in [Item -> Nat]
    PROVE  \A i \in 0 .. Len(h.node) - 1 : KeyAt(h, key, i) \in Nat
  BY SoundFacts DEF KeyAt

(* The order of a heap is the order around any of its nodes.                 *)
LEMMA OrderedAround ==
    ASSUME NEW h, Sound(h), NEW key \in [Item -> Nat], NEW i \in 0 .. Len(h.node) - 1
    PROVE  Ordered(h, key) <=> Loose(h, key, i) /\ Risen(h, key, i) /\ Sunk(h, key, i)
<1> DEFINE n == Len(h.node)
           K(j) == KeyAt(h, key, j)
           P(j) == __PH_PARENT(j)
<1>1. n \in Nat /\ \A j \in 1 .. n - 1 : j \in 0 .. n - 1 /\ P(j) \in 0 .. n - 1 /\ P(j) < j
  BY SoundFacts, ParentFacts
<1>2. \A j \in 0 .. n - 1 : K(j) \in Nat
  BY KeyFacts
<1>3. Ordered(h, key) <=> \A j \in 1 .. n - 1 : ~(K(j) < K(P(j)))
  BY DEF Ordered, Above, KeyAt
<1>4. \A j \in 1 .. n - 1 : K(j) \in Nat /\ K(P(j)) \in Nat
  BY <1>1, <1>2
<1>5. i # 0 => i \in 1 .. n - 1
  BY <1>1
<1>. HIDE DEF n, K, P
<1>8. Ordered(h, key) <=> \A j \in 1 .. n - 1 : K(P(j)) <= K(j)
  BY <1>3, <1>4
<1>6. ASSUME \A j \in 1 .. n - 1 : K(P(j)) <= K(j)
      PROVE  Loose(h, key, i) /\ Risen(h, key, i) /\ Sunk(h, key, i)
  <2>1. ASSUME NEW j \in 1 .. n - 1, P(j) = i, i # 0 PROVE K(P(i)) <= K(j)
    BY <1>1, <1>2, <1>5, <1>6, <2>1
  <2>. QED BY <1>5, <1>6, <2>1 DEF Loose, Risen, Sunk, n, K, P
<1>7. ASSUME Loose(h, key, i), Risen(h, key, i), Sunk(h, key, i), NEW j \in 1 .. n - 1
      PROVE  K(P(j)) <= K(j)
  <2>1. CASE j = i
    BY <1>1, <1>7, <2>1 DEF Risen, n, K, P
  <2>2. CASE P(j) = i
    BY <1>7, <2>2 DEF Sunk, n, K, P
  <2>3. CASE j # i /\ P(j) # i
    BY <1>7, <2>3 DEF Loose, n, K, P
  <2>. QED BY <2>1, <2>2, <2>3
<1>. QED BY <1>6, <1>7, <1>8

-----------------------------------------------------------------------------
(* The turns of the loops.                                                  *)

(* The parents of the places of an array.                                   *)
LEMMA ParentRange ==
    ASSUME NEW n \in Nat, NEW j \in 1 .. n - 1
    PROVE  /\ __PH_PARENT(j) \in 0 .. n - 1 /\ __PH_PARENT(j) < j
           /\ j \in Nat /\ j \in 0 .. n - 1 /\ j # 0
<1>1. j \in Nat /\ j # 0 /\ j <= n - 1
  OBVIOUS
<1>2. __PH_PARENT(j) \in Nat /\ __PH_PARENT(j) < j
  BY <1>1, ParentFacts
<1>. QED BY <1>1, <1>2

(* The arrays of any heap.                                                  *)
LEMMA HeapFacts ==
    ASSUME NEW h \in Heap
    PROVE  /\ h.node \in Seq(Item) /\ h.pos \in [Item -> Nat \cup {POS_NULL}]
           /\ Len(h.node) \in Nat
           /\ \A i \in 0 .. Len(h.node) - 1 : i \in Nat /\ h.node[i + 1] \in Item
           /\ \A key \in [Item -> Nat] : \A i \in 0 .. Len(h.node) - 1 : KeyAt(h, key, i) \in Nat
<1>1. h.node \in Seq(Item) /\ h.pos \in [Item -> Nat \cup {POS_NULL}]
  BY DEF Heap
<1>2. Len(h.node) \in Nat
  BY <1>1
<1>3. \A i \in 0 .. Len(h.node) - 1 : i \in Nat /\ h.node[i + 1] \in Item
  BY <1>1
<1>. QED BY <1>1, <1>2, <1>3 DEF KeyAt

LEMMA SwapType ==
    ASSUME NEW h \in Heap, NEW a \in 0 .. Len(h.node) - 1, NEW b \in 0 .. Len(h.node) - 1
    PROVE  /\ __SWAP_PH_NODE(h, a, b) \in Heap
           /\ Len(__SWAP_PH_NODE(h, a, b).node) = Len(h.node)
<1> DEFINE n == h.node
           p == h.pos
           x == h.node[a + 1]
           y == h.node[b + 1]
           T == Nat \cup {POS_NULL}
           u == [n EXCEPT ![a + 1] = y, ![b + 1] = x]
           v == [p EXCEPT ![y] = a, ![x] = b]
<1>1. n \in Seq(Item) /\ p \in [Item -> T] /\ x \in Item /\ y \in Item /\ a \in T /\ b \in T
  BY HeapFacts
<1>2. __SWAP_PH_NODE(h, a, b) = [node |-> u, pos |-> v]
  BY DEF __SWAP_PH_NODE
<1>3. Heap = [node : Seq(Item), pos : [Item -> T]]
  BY DEF Heap
<1>. HIDE DEF n, p, x, y, T
<1>4. u \in Seq(Item) /\ Len(u) = Len(n)
  <2> DEFINE k == a + 1
             l == b + 1
             N == Len(n)
  <2>1. k \in 1 .. N /\ l \in 1 .. N /\ N \in Nat
    BY <1>1 DEF n
  <2>2. n \in [1 .. N -> Item]
    BY <1>1
  <2>3. u = [n EXCEPT ![k] = y, ![l] = x]
    OBVIOUS
  <2>. HIDE DEF k, l, N, u
  <2>4. u \in [1 .. N -> Item]
    BY <1>1, <2>1, <2>2, <2>3
  <2>. QED BY <2>1, <2>4 DEF N
<1>5. v \in [Item -> T]
  BY <1>1
<1>. HIDE DEF u, v
<1>. QED BY <1>2, <1>3, <1>4, <1>5 DEF n

(* The place of the least key among a node and its children.                *)
LEMMA UpperFacts ==
    ASSUME NEW h \in Heap, NEW key \in [Item -> Nat], NEW i \in 0 .. Len(h.node) - 1, NEW m,
           m = Upper(h, key, Upper(h, key, i, __PH_LEFT(i)), __PH_RIGHT(i))
    PROVE  /\ m = i \/ (/\ m \in 1 .. Len(h.node) - 1 /\ i < m /\ __PH_PARENT(m) = i
                        /\ KeyAt(h, key, m) < KeyAt(h, key, i))
           /\ \A j \in 1 .. Len(h.node) - 1 :
                 __PH_PARENT(j) = i => KeyAt(h, key, m) <= KeyAt(h, key, j)
<1> DEFINE n == Len(h.node)
           K(j) == KeyAt(h, key, j)
           P(j) == __PH_PARENT(j)
           l == __PH_LEFT(i)
           r == __PH_RIGHT(i)
           U(j, k) == Upper(h, key, j, k)
<1>1. n \in Nat /\ i \in Nat /\ \A j \in 0 .. n - 1 : K(j) \in Nat
  BY HeapFacts
<1>2. l \in Nat /\ r \in Nat /\ i < l /\ i < r /\ P(l) = i /\ P(r) = i
  BY <1>1, ParentFacts
<1>3. \A j \in 1 .. n - 1 : P(j) = i => j = l \/ j = r
  <2>. SUFFICES ASSUME NEW j \in 1 .. n - 1, P(j) = i PROVE j = l \/ j = r
    OBVIOUS
  <2>1. j \in Nat /\ j # 0
    OBVIOUS
  <2>. QED BY <2>1, ParentFacts
<1>4. \A j, k : U(j, k) = IF k < n /\ K(k) < K(j) THEN k ELSE j
  BY DEF Upper, Above, KeyAt
<1>5. m = U(U(i, l), r)
  OBVIOUS
<1>. HIDE DEF n, K, P, l, r, U
<1>6. U(i, l) = i \/ (U(i, l) = l /\ l < n)
  BY <1>4
<1>7. U(i, l) \in 0 .. n - 1 /\ K(U(i, l)) <= K(i) /\ (U(i, l) # i => K(U(i, l)) < K(i))
      /\ (l < n => K(U(i, l)) <= K(l))
  BY <1>1, <1>2, <1>4 DEF n
<1>8. m \in 0 .. n - 1 /\ K(m) <= K(U(i, l)) /\ (m # U(i, l) => m = r /\ r < n /\ K(m) < K(U(i, l)))
      /\ (r < n => K(m) <= K(r))
  BY <1>1, <1>2, <1>4, <1>5, <1>7
<1>9. m = i \/ (m \in 1 .. n - 1 /\ i < m /\ P(m) = i /\ K(m) < K(i))
  <2>1. CASE m = U(i, l)
    BY <1>1, <1>2, <1>6, <1>7, <2>1
  <2>2. CASE m # U(i, l)
    <3>1. m = r /\ r < n /\ K(m) < K(U(i, l)) /\ K(m) \in Nat /\ K(U(i, l)) \in Nat /\ K(i) \in Nat
      BY <1>1, <1>7, <1>8, <2>2 DEF n
    <3>2. K(m) < K(i)
      BY <1>7, <3>1
    <3>. QED BY <1>1, <1>2, <3>1, <3>2
  <2>. QED BY <2>1, <2>2
<1>10. ASSUME NEW j \in 1 .. n - 1, P(j) = i PROVE K(m) <= K(j)
  <2>1. j = l \/ j = r
    BY <1>3, <1>10
  <2>2. j < n /\ K(j) \in Nat /\ K(m) \in Nat /\ K(U(i, l)) \in Nat
    BY <1>1, <1>7, <1>8
  <2>. QED BY <1>7, <1>8, <2>1, <2>2
<1>. QED BY <1>9, <1>10 DEF n, K, P

(* The keys after two nodes changed places.                                 *)
LEMMA SwapKeys ==
    ASSUME NEW h, Sound(h), NEW key \in [Item -> Nat], NEW a \in 0 .. Len(h.node) - 1,
           NEW b \in 0 .. Len(h.node) - 1, a # b, NEW w, w = __SWAP_PH_NODE(h, a, b)
    PROVE  /\ KeyAt(w, key, a) = KeyAt(h, key, b) /\ KeyAt(w, key, b) = KeyAt(h, key, a)
           /\ \A i \in 0 .. Len(h.node) - 1 :
                 i # a /\ i # b => KeyAt(w, key, i) = KeyAt(h, key, i)
  BY SwapFacts DEF KeyAt

(* A node out of place changes places with its upper child: it is now out of place *)
(* there.                                                                   *)
LEMMA SwapDown ==
    ASSUME NEW h, Sound(h), NEW key \in [Item -> Nat], NEW i \in 0 .. Len(h.node) - 1,
           NEW m \in 1 .. Len(h.node) - 1, i < m, __PH_PARENT(m) = i,
           KeyAt(h, key, m) < KeyAt(h, key, i), Loose(h, key, i),
           \A j \in 1 .. Len(h.node) - 1 :
               __PH_PARENT(j) = i => KeyAt(h, key, m) <= KeyAt(h, key, j),
           NEW w, w = __SWAP_PH_NODE(h, m, i)
    PROVE  Loose(w, key, m) /\ Risen(w, key, m)
<1> DEFINE n == Len(h.node)
           K(j) == KeyAt(h, key, j)
           W(j) == KeyAt(w, key, j)
           P(j) == __PH_PARENT(j)
<1>1. n \in Nat /\ i \in Nat /\ m \in Nat /\ m # 0 /\ \A j \in 0 .. n - 1 : K(j) \in Nat
  <2>1. n \in Nat
    BY SoundFacts
  <2>2. \A j \in 0 .. n - 1 : K(j) \in Nat
    BY KeyFacts
  <2>. QED BY <2>1, <2>2
<1>2. \A j \in 1 .. n - 1 : P(j) \in 0 .. n - 1 /\ P(j) < j /\ j \in 0 .. n - 1 /\ j # 0
  BY <1>1, ParentRange
<1>3. m \in 0 .. n - 1 /\ m # i
  BY <1>1
<1>4. Len(w.node) = n
  BY <1>3, SwapFacts
<1>5. W(m) = K(i) /\ W(i) = K(m) /\ \A j \in 0 .. n - 1 : j # m /\ j # i => W(j) = K(j)
  BY <1>3, SwapKeys
<1>6. \A j \in 1 .. n - 1 : /\ j # i /\ P(j) # i => K(P(j)) <= K(j)
                            /\ P(j) = i /\ i # 0 => K(P(i)) <= K(j)
  BY DEF Loose
<1>7. P(m) = i /\ i < m /\ m \in 1 .. n - 1 /\ K(m) < K(i)
      /\ \A j \in 1 .. n - 1 : P(j) = i => K(m) <= K(j)
  OBVIOUS
<1>8. i \in 0 .. n - 1
  OBVIOUS
<1>9. Loose(w, key, m) <=>
         \A j \in 1 .. n - 1 : /\ j # m /\ P(j) # m => W(P(j)) <= W(j)
                               /\ P(j) = m /\ m # 0 => W(P(m)) <= W(j)
  BY <1>4 DEF Loose
<1>10. Risen(w, key, m) <=> (m # 0 => W(P(m)) <= W(m))
  BY DEF Risen
<1>. HIDE DEF n, K, W, P
<1>11. ASSUME NEW j \in 1 .. n - 1, j # m, P(j) # m PROVE W(P(j)) <= W(j)
  <2>1. CASE j = i
    <3>1. P(i) # m /\ P(i) # i /\ P(i) \in 0 .. n - 1 /\ i # 0
      BY <1>1, <1>2, <1>11, <2>1
    <3>2. W(P(i)) = K(P(i))
      BY <1>5, <3>1
    <3>. QED BY <1>5, <1>6, <1>7, <2>1, <3>1, <3>2
  <2>2. CASE P(j) = i
    <3>1. j # i /\ j \in 0 .. n - 1
      BY <1>1, <1>2, <2>2
    <3>. QED BY <1>5, <1>7, <1>11, <2>2, <3>1
  <2>3. CASE j # i /\ P(j) # i
    <3>1. W(j) = K(j) /\ W(P(j)) = K(P(j))
      BY <1>2, <1>5, <1>11, <2>3
    <3>. QED BY <1>6, <2>3, <3>1
  <2>. QED BY <2>1, <2>2, <2>3
<1>12. ASSUME NEW j \in 1 .. n - 1, P(j) = m PROVE W(P(m)) <= W(j)
  <2>1. m < j /\ j # m /\ j # i /\ j \in 0 .. n - 1
    BY <1>1, <1>2, <1>7, <1>12
  <2>2. W(j) = K(j) /\ W(P(m)) = K(m)
    BY <1>5, <1>7, <2>1
  <2>. QED BY <1>3, <1>6, <1>12, <2>1, <2>2
<1>13. W(P(m)) <= W(m)
  <2>1. K(m) \in Nat /\ K(i) \in Nat
    BY <1>1, <1>3, <1>8
  <2>. QED BY <1>5, <1>7, <2>1
<1>. QED BY <1>9, <1>10, <1>11, <1>12, <1>13

(* A node out of place, not above its children, changes places with its parent.  *)
LEMMA SwapUp ==
    ASSUME NEW h, Sound(h), NEW key \in [Item -> Nat], NEW i \in 1 .. Len(h.node) - 1,
           KeyAt(h, key, i) < KeyAt(h, key, __PH_PARENT(i)),
           Loose(h, key, i), Sunk(h, key, i),
           NEW w, w = __SWAP_PH_NODE(h, __PH_PARENT(i), i)
    PROVE  Loose(w, key, __PH_PARENT(i)) /\ Sunk(w, key, __PH_PARENT(i))
<1> DEFINE n == Len(h.node)
           K(j) == KeyAt(h, key, j)
           W(j) == KeyAt(w, key, j)
           P(j) == __PH_PARENT(j)
           p == P(i)
<1>1. n \in Nat /\ i \in Nat /\ i # 0 /\ \A j \in 0 .. n - 1 : K(j) \in Nat
  <2>1. n \in Nat
    BY SoundFacts
  <2>2. \A j \in 0 .. n - 1 : K(j) \in Nat
    BY KeyFacts
  <2>. QED BY <2>1, <2>2
<1>2. \A j \in 1 .. n - 1 : P(j) \in 0 .. n - 1 /\ P(j) < j /\ j \in 0 .. n - 1 /\ j # 0
  BY <1>1, ParentRange
<1>3. p \in 0 .. n - 1 /\ p \in Nat /\ p < i /\ i \in 0 .. n - 1 /\ p # i
  BY <1>1, <1>2
<1>4. Len(w.node) = n
  BY <1>3, SwapFacts
<1>5. W(p) = K(i) /\ W(i) = K(p) /\ \A j \in 0 .. n - 1 : j # p /\ j # i => W(j) = K(j)
  BY <1>3, SwapKeys
<1>6. \A j \in 1 .. n - 1 : /\ j # i /\ P(j) # i => K(P(j)) <= K(j)
                            /\ P(j) = i => K(p) <= K(j)
                            /\ P(j) = i => K(i) <= K(j)
  BY <1>1 DEF Loose, Sunk
<1>7. K(i) < K(p) /\ i \in 1 .. n - 1 /\ P(i) = p
  OBVIOUS
<1>8. Loose(w, key, p) <=>
         \A j \in 1 .. n - 1 : /\ j # p /\ P(j) # p => W(P(j)) <= W(j)
                               /\ P(j) = p /\ p # 0 => W(P(p)) <= W(j)
  BY <1>4 DEF Loose
<1>9. Sunk(w, key, p) <=> \A j \in 1 .. n - 1 : P(j) = p => W(p) <= W(j)
  BY <1>4 DEF Sunk
<1>. HIDE DEF n, K, W, P, p
<1>11. ASSUME NEW j \in 1 .. n - 1, j # p, P(j) # p PROVE W(P(j)) <= W(j)
  <2>1. j # i /\ W(j) = K(j)
    BY <1>2, <1>5, <1>7, <1>11
  <2>2. CASE P(j) = i
    BY <1>5, <1>6, <2>1, <2>2
  <2>3. CASE P(j) # i
    <3>1. W(P(j)) = K(P(j))
      BY <1>2, <1>5, <1>11, <2>3
    <3>. QED BY <1>6, <2>1, <2>3, <3>1
  <2>. QED BY <2>2, <2>3
<1>12. ASSUME NEW j \in 1 .. n - 1, P(j) = p, j # i
       PROVE  j # p /\ W(j) = K(j) /\ K(p) <= K(j)
  <2>1. j # p
    BY <1>2, <1>3, <1>12
  <2>2. W(j) = K(j)
    BY <1>2, <1>5, <1>12, <2>1
  <2>. QED BY <1>3, <1>6, <1>12, <2>1, <2>2
<1>13. ASSUME NEW j \in 1 .. n - 1, P(j) = p, p # 0 PROVE W(P(p)) <= W(j)
  <2>1. p \in 1 .. n - 1
    BY <1>1, <1>3, <1>13
  <2>2. P(p) \in 0 .. n - 1 /\ P(p) # p /\ P(p) # i
    BY <1>2, <1>3, <2>1
  <2>3. W(P(p)) = K(P(p)) /\ K(P(p)) <= K(p)
    BY <1>3, <1>5, <1>6, <2>1, <2>2
  <2>4. CASE j = i
    BY <1>5, <2>3, <2>4
  <2>5. CASE j # i
    <3>1. K(p) \in Nat /\ K(j) \in Nat /\ K(P(p)) \in Nat
      BY <1>1, <1>2, <1>3, <2>2
    <3>. QED BY <1>12, <1>13, <2>3, <2>5, <3>1
  <2>. QED BY <2>4, <2>5
<1>14. ASSUME NEW j \in 1 .. n - 1, P(j) = p PROVE W(p) <= W(j)
  <2>1. K(p) \in Nat /\ K(j) \in Nat /\ K(i) \in Nat
    BY <1>1, <1>2, <1>3
  <2>. QED BY <1>5, <1>7, <1>12, <1>14, <2>1
<1>. QED BY <1>8, <1>9, <1>11, <1>13, <1>14 DEF p, P

(* Every turn of the loop down is a turn further down in a heap of the same size. *)
LEMMA SinkTurn ==
    ASSUME NEW key \in [Item -> Nat], NEW s \in Loop, NEW t, t = Sink(key, s)
    PROVE  /\ t \in Loop
           /\ t = s \/ (s.idx < t.idx /\ Len(t.heap.node) = Len(s.heap.node))
           /\ Sound(s.heap) /\ Loose(s.heap, key, s.idx) =>
                 IF t = s THEN Sunk(s.heap, key, s.idx)
                 ELSE /\ Sound(t.heap) /\ Members(t.heap) = Members(s.heap)
                      /\ Loose(t.heap, key, t.idx) /\ Risen(t.heap, key, t.idx)
<1> DEFINE h == s.heap
           i == s.idx
           m == Upper(h, key, Upper(h, key, i, __PH_LEFT(i)), __PH_RIGHT(i))
           w == __SWAP_PH_NODE(h, m, i)
<1>1. h \in Heap /\ i \in Nat /\ i < Len(h.node)
  BY DEF Loop
<1>2. i \in 0 .. Len(h.node) - 1 /\ Len(h.node) \in Nat
  BY <1>1, HeapFacts
<1>3. t = IF m = i THEN s ELSE [heap |-> w, idx |-> m]
  BY DEF Sink
<1>4. /\ m = i \/ (/\ m \in 1 .. Len(h.node) - 1 /\ i < m /\ __PH_PARENT(m) = i
                   /\ KeyAt(h, key, m) < KeyAt(h, key, i))
      /\ \A j \in 1 .. Len(h.node) - 1 :
            __PH_PARENT(j) = i => KeyAt(h, key, m) <= KeyAt(h, key, j)
  <2>. HIDE DEF h, i
  <2>. QED BY <1>1, <1>2, UpperFacts
<1>. HIDE DEF m
<1>5. CASE m = i
  <2>1. t = s
    BY <1>3, <1>5
  <2>2. Sunk(h, key, i)
    BY <1>4, <1>5 DEF Sunk
  <2>. QED BY <2>1, <2>2
<1>6. CASE m # i
  <2>1. /\ m \in 1 .. Len(h.node) - 1 /\ i < m /\ __PH_PARENT(m) = i
        /\ KeyAt(h, key, m) < KeyAt(h, key, i) /\ m \in 0 .. Len(h.node) - 1
    BY <1>2, <1>4, <1>6
  <2>2. t.heap = w /\ t.idx = m /\ t = [heap |-> w, idx |-> m]
    BY <1>3, <1>6
  <2>. HIDE DEF h, i
  <2>3. w \in Heap /\ Len(w.node) = Len(h.node)
    BY <1>1, <1>2, <2>1, SwapType
  <2>4. t \in Loop
    <3>1. m \in Nat /\ m < Len(w.node)
      BY <1>2, <2>1, <2>3
    <3>. HIDE DEF w
    <3>. QED BY <2>2, <2>3, <3>1 DEF Loop
  <2>5. ASSUME Sound(h), Loose(h, key, i)
        PROVE  Sound(w) /\ Members(w) = Members(h) /\ Loose(w, key, m) /\ Risen(w, key, m)
    <3>1. Sound(w) /\ Members(w) = Members(h)
      BY <1>2, <1>6, <2>1, <2>5, SwapFacts
    <3>2. Loose(w, key, m) /\ Risen(w, key, m)
      BY <1>2, <1>4, <2>1, <2>5, SwapDown
    <3>. QED BY <3>1, <3>2
  <2>6. i < t.idx /\ Len(t.heap.node) = Len(h.node)
    BY <2>1, <2>2, <2>3
  <2>7. t # s
    BY <1>6, <2>2 DEF i
  <2>. HIDE DEF w
  <2>. QED BY <2>2, <2>4, <2>5, <2>6, <2>7 DEF h, i
<1>. QED BY <1>5, <1>6

(* The same for the loop up.                                                *)
LEMMA RiseTurn ==
    ASSUME NEW key \in [Item -> Nat], NEW s \in Loop, NEW t, t = Rise(key, s)
    PROVE  /\ t \in Loop
           /\ t = s \/ (t.idx < s.idx /\ Len(t.heap.node) = Len(s.heap.node))
           /\ Sound(s.heap) /\ Loose(s.heap, key, s.idx) /\ Sunk(s.heap, key, s.idx) =>
                 IF t = s THEN Risen(s.heap, key, s.idx)
                 ELSE /\ Sound(t.heap) /\ Members(t.heap) = Members(s.heap)
                      /\ Loose(t.heap, key, t.idx) /\ Sunk(t.heap, key, t.idx)
<1> DEFINE h == s.heap
           i == s.idx
           p == __PH_PARENT(i)
           w == __SWAP_PH_NODE(h, p, i)
<1>1. h \in Heap /\ i \in Nat /\ i < Len(h.node)
  BY DEF Loop
<1>2. i \in 0 .. Len(h.node) - 1 /\ Len(h.node) \in Nat
  BY <1>1, HeapFacts
<1>3. t = IF i = 0 \/ ~(KeyAt(h, key, i) < KeyAt(h, key, p)) THEN s
          ELSE [heap |-> w, idx |-> p]
  BY DEF Rise, Above, KeyAt
<1>4. ASSUME i # 0
      PROVE  i \in 1 .. Len(h.node) - 1 /\ p \in 0 .. Len(h.node) - 1 /\ p < i /\ p \in Nat
  <2>1. i \in 1 .. Len(h.node) - 1
    BY <1>2, <1>4
  <2>2. p \in 0 .. Len(h.node) - 1 /\ p < i
    BY <1>2, <2>1, ParentRange
  <2>. QED BY <1>2, <2>1, <2>2
<1>5. CASE i = 0 \/ ~(KeyAt(h, key, i) < KeyAt(h, key, p))
  <2>1. t = s
    BY <1>3, <1>5
  <2>2. Risen(h, key, i)
    <3>1. CASE i = 0
      BY <3>1 DEF Risen
    <3>2. CASE i # 0
      <4>1. KeyAt(h, key, i) \in Nat /\ KeyAt(h, key, p) \in Nat
        BY <1>1, <1>2, <1>4, <3>2, HeapFacts
      <4>. QED BY <1>5, <3>2, <4>1 DEF Risen
    <3>. QED BY <3>1, <3>2
  <2>. QED BY <2>1, <2>2
<1>6. CASE ~(i = 0 \/ ~(KeyAt(h, key, i) < KeyAt(h, key, p)))
  <2>1. /\ i \in 1 .. Len(h.node) - 1 /\ p \in 0 .. Len(h.node) - 1 /\ p < i /\ p \in Nat
        /\ KeyAt(h, key, i) < KeyAt(h, key, p) /\ p # i
    BY <1>2, <1>4, <1>6
  <2>2. t.heap = w /\ t.idx = p /\ t = [heap |-> w, idx |-> p]
    BY <1>3, <1>6
  <2>. HIDE DEF h, i
  <2>3. w \in Heap /\ Len(w.node) = Len(h.node)
    BY <1>1, <1>2, <2>1, SwapType
  <2>4. t \in Loop
    <3>1. p < Len(w.node)
      BY <1>2, <2>1, <2>3
    <3>. HIDE DEF w, p
    <3>. QED BY <2>1, <2>2, <2>3, <3>1 DEF Loop
  <2>5. ASSUME Sound(h), Loose(h, key, i), Sunk(h, key, i)
        PROVE  Sound(w) /\ Members(w) = Members(h) /\ Loose(w, key, p) /\ Sunk(w, key, p)
    <3>1. Sound(w) /\ Members(w) = Members(h)
      BY <1>2, <2>1, <2>5, SwapFacts
    <3>2. Loose(w, key, p) /\ Sunk(w, key, p)
      BY <1>2, <2>1, <2>5, SwapUp
    <3>. QED BY <3>1, <3>2
  <2>6. t.idx < i /\ Len(t.heap.node) = Len(h.node)
    BY <2>1, <2>2, <2>3
  <2>7. t # s
    BY <2>1, <2>2 DEF i
  <2>. HIDE DEF w, p
  <2>. QED BY <2>2, <2>4, <2>5, <2>6, <2>7 DEF h, i
<1>. QED BY <1>5, <1>6

(* __fix_downward() on a heap where only the node at i may be out of place: after *)
(* it the node at i is not above its children, and still at most it is out of place. *)
LEMMA FixDown ==
    ASSUME NEW h, Sound(h), NEW key \in [Item -> Nat], NEW i \in 0 .. Len(h.node) - 1,
           Loose(h, key, i), NEW w, w = __fix_downward(h, key, i)
    PROVE  /\ Sound(w) /\ Len(w.node) = Len(h.node) /\ Members(w) = Members(h)
           /\ Loose(w, key, i) /\ Sunk(w, key, i)
<1> DEFINE Down[s \in Loop] == LET t == Sink(key, s) IN IF t = s THEN s ELSE Down[t]
           start == [heap |-> h, idx |-> i]
           step == [s \in Loop |-> Sink(key, s)]
           mu == [s \in Loop |-> Len(s.heap.node) - s.idx]
           I == {s \in Loop : /\ Sound(s.heap) /\ Len(s.heap.node) = Len(h.node)
                              /\ Members(s.heap) = Members(h) /\ Loose(s.heap, key, s.idx)
                              /\ s.idx = i \/ Risen(s.heap, key, s.idx)}
           end == Down[start]
<1>1. w = end.heap
  BY DEF __fix_downward
<1>2. step \in [Loop -> Loop]
  BY SinkTurn
<1>3. \E f : IsLoop(f, Loop, step)
  BY <1>2, LoopExists
<1>4. IsLoop(Down, Loop, step)
  <2>1. PICK f : f = [s \in Loop |-> LET t == Sink(key, s) IN IF t = s THEN s ELSE f[t]]
    BY <1>3 DEF IsLoop
  <2>2. Down = [s \in Loop |-> LET t == Sink(key, s) IN IF t = s THEN s ELSE Down[t]]
    BY <2>1
  <2>. HIDE DEF Down
  <2>. QED BY <2>2 DEF IsLoop
<1>. HIDE DEF Down
<1>5. \A s \in Loop : s.idx \in Nat /\ Len(s.heap.node) \in Nat /\ s.idx < Len(s.heap.node)
  BY HeapFacts DEF Loop
<1>6. mu \in [Loop -> Nat]
  BY <1>5
<1>7. \A s \in Loop : step[s] = s \/ mu[step[s]] < mu[s]
  <2>. SUFFICES ASSUME NEW s \in Loop PROVE step[s] = s \/ mu[step[s]] < mu[s]
    OBVIOUS
  <2>1. step[s] = Sink(key, s) /\ step[s] \in Loop
    BY <1>2
  <2>2. step[s] = s \/ (s.idx < step[s].idx /\ Len(step[s].heap.node) = Len(s.heap.node))
    BY <2>1, SinkTurn
  <2>3. /\ mu[s] = Len(s.heap.node) - s.idx
        /\ mu[step[s]] = Len(step[s].heap.node) - step[s].idx
    BY <2>1
  <2>. HIDE DEF step, mu
  <2>4. /\ s.idx \in Nat /\ Len(s.heap.node) \in Nat
        /\ step[s].idx \in Nat /\ Len(step[s].heap.node) \in Nat
    BY <1>5, <2>1
  <2>. QED BY <2>2, <2>3, <2>4
<1>8. \A s \in I : step[s] \in I
  <2>. SUFFICES ASSUME NEW s \in I PROVE step[s] \in I
    OBVIOUS
  <2>1. step[s] = Sink(key, s) /\ s \in Loop
    OBVIOUS
  <2>. DEFINE t == step[s]
  <2>2. /\ t \in Loop
        /\ t = s \/ (s.idx < t.idx /\ Len(t.heap.node) = Len(s.heap.node))
        /\ \/ t = s
           \/ /\ Sound(t.heap) /\ Members(t.heap) = Members(s.heap)
              /\ Loose(t.heap, key, t.idx) /\ Risen(t.heap, key, t.idx)
    BY <2>1, SinkTurn
  <2>. HIDE DEF step
  <2>. QED BY <2>2
<1>9. start \in I
  <2>1. h \in Heap /\ i \in Nat /\ i < Len(h.node)
    BY SoundFacts DEF Sound
  <2>. QED BY <2>1 DEF Loop
<1>10. Lowers(mu, Loop, step) /\ Keeps(I, Loop, step)
  BY <1>6, <1>7, <1>8 DEF Lowers, Keeps
<1>. HIDE DEF I, step, mu, start
<1>11. end \in I /\ step[end] = end
  <2>1. \A s \in I : Down[s] \in I /\ step[Down[s]] = Down[s]
    BY <1>2, <1>4, <1>10, LoopEnds
  <2>. QED BY <1>9, <2>1
<1>. HIDE DEF end
<1>12. /\ end \in Loop /\ Sound(w) /\ Len(w.node) = Len(h.node) /\ Members(w) = Members(h)
       /\ Loose(w, key, end.idx) /\ (end.idx = i \/ Risen(w, key, end.idx))
  BY <1>1, <1>11 DEF I
<1>13. Sunk(w, key, end.idx)
  <2>1. Sink(key, end) = end
    BY <1>11, <1>12 DEF step
  <2>. QED BY <1>1, <1>12, <2>1, SinkTurn
<1>14. CASE end.idx = i
  BY <1>12, <1>13, <1>14
<1>15. CASE end.idx # i
  <2>1. end.idx \in 0 .. Len(w.node) - 1 /\ i \in 0 .. Len(w.node) - 1
    BY <1>1, <1>5, <1>12
  <2>2. Ordered(w, key)
    BY <1>12, <1>13, <1>15, <2>1, OrderedAround
  <2>. QED BY <1>12, <2>1, <2>2, OrderedAround
<1>. QED BY <1>14, <1>15

(* __fix_upward() on a heap where only the node at i may be out of place, and it is *)
(* not above its children: the heap is in order.                            *)
LEMMA FixUp ==
    ASSUME NEW h, Sound(h), NEW key \in [Item -> Nat], NEW i \in 0 .. Len(h.node) - 1,
           Loose(h, key, i), Sunk(h, key, i), NEW w, w = __fix_upward(h, key, i)
    PROVE  /\ Sound(w) /\ Len(w.node) = Len(h.node) /\ Members(w) = Members(h)
           /\ Ordered(w, key)
<1> DEFINE Up[s \in Loop] == LET t == Rise(key, s) IN IF t = s THEN s ELSE Up[t]
           start == [heap |-> h, idx |-> i]
           step == [s \in Loop |-> Rise(key, s)]
           mu == [s \in Loop |-> s.idx]
           I == {s \in Loop : /\ Sound(s.heap) /\ Len(s.heap.node) = Len(h.node)
                              /\ Members(s.heap) = Members(h)
                              /\ Loose(s.heap, key, s.idx) /\ Sunk(s.heap, key, s.idx)}
           end == Up[start]
<1>1. w = end.heap
  BY DEF __fix_upward
<1>2. step \in [Loop -> Loop]
  BY RiseTurn
<1>3. \E f : IsLoop(f, Loop, step)
  BY <1>2, LoopExists
<1>4. IsLoop(Up, Loop, step)
  <2>1. PICK f : f = [s \in Loop |-> LET t == Rise(key, s) IN IF t = s THEN s ELSE f[t]]
    BY <1>3 DEF IsLoop
  <2>2. Up = [s \in Loop |-> LET t == Rise(key, s) IN IF t = s THEN s ELSE Up[t]]
    BY <2>1
  <2>. HIDE DEF Up
  <2>. QED BY <2>2 DEF IsLoop
<1>. HIDE DEF Up
<1>5. \A s \in Loop : s.idx \in Nat /\ Len(s.heap.node) \in Nat /\ s.idx < Len(s.heap.node)
  BY HeapFacts DEF Loop
<1>6. mu \in [Loop -> Nat]
  BY <1>5
<1>7. \A s \in Loop : step[s] = s \/ mu[step[s]] < mu[s]
  <2>. SUFFICES ASSUME NEW s \in Loop PROVE step[s] = s \/ mu[step[s]] < mu[s]
    OBVIOUS
  <2>1. step[s] = Rise(key, s) /\ step[s] \in Loop
    BY <1>2
  <2>2. step[s] = s \/ step[s].idx < s.idx
    BY <2>1, RiseTurn
  <2>3. mu[s] = s.idx /\ mu[step[s]] = step[s].idx
    BY <2>1
  <2>. QED BY <2>2, <2>3
<1>8. \A s \in I : step[s] \in I
  <2>. SUFFICES ASSUME NEW s \in I PROVE step[s] \in I
    OBVIOUS
  <2>1. step[s] = Rise(key, s) /\ s \in Loop
    OBVIOUS
  <2>. DEFINE t == step[s]
  <2>2. /\ t \in Loop
        /\ t = s \/ (t.idx < s.idx /\ Len(t.heap.node) = Len(s.heap.node))
        /\ \/ t = s
           \/ /\ Sound(t.heap) /\ Members(t.heap) = Members(s.heap)
              /\ Loose(t.heap, key, t.idx) /\ Sunk(t.heap, key, t.idx)
    BY <2>1, RiseTurn
  <2>. HIDE DEF step
  <2>. QED BY <2>2
<1>9. start \in I
  <2>1. h \in Heap /\ i \in Nat /\ i < Len(h.node)
    BY SoundFacts DEF Sound
  <2>. QED BY <2>1 DEF Loop
<1>10. Lowers(mu, Loop, step) /\ Keeps(I, Loop, step)
  BY <1>6, <1>7, <1>8 DEF Lowers, Keeps
<1>. HIDE DEF I, step, mu, start
<1>11. end \in I /\ step[end] = end
  <2>1. \A s \in I : Up[s] \in I /\ step[Up[s]] = Up[s]
    BY <1>2, <1>4, <1>10, LoopEnds
  <2>. QED BY <1>9, <2>1
<1>. HIDE DEF end
<1>12. /\ end \in Loop /\ Sound(w) /\ Len(w.node) = Len(h.node) /\ Members(w) = Members(h)
       /\ Loose(w, key, end.idx) /\ Sunk(w, key, end.idx)
  BY <1>1, <1>11 DEF I
<1>13. Risen(w, key, end.idx)
  <2>1. Rise(key, end) = end
    BY <1>11, <1>12 DEF step
  <2>. QED BY <1>1, <1>12, <2>1, RiseTurn
<1>14. end.idx \in 0 .. Len(w.node) - 1
  BY <1>1, <1>5, <1>12
<1>. QED BY <1>12, <1>13, <1>14, OrderedAround

-----------------------------------------------------------------------------
(* The interface.                                                           *)

\* A heap as the sanity checks of the code want it.
IsHeap(h, key) == Sound(h) /\ Ordered(h, key)

(* The words behind the idx pointers.                                        *)
LEMMA PosFacts ==
    ASSUME NEW h, Sound(h)
    PROVE  /\ \A x \in Members(h) : /\ x \in Item /\ h.pos[x] \in 0 .. Len(h.node) - 1
                                    /\ h.pos[x] \in Nat /\ h.node[h.pos[x] + 1] = x
           /\ \A x \in Item : x \notin Members(h) => h.pos[x] = POS_NULL
           /\ Members(h) \subseteq Item
           /\ Len(h.node) = 0 <=> Members(h) = {}
           /\ h.node = <<>> <=> Members(h) = {}
<1>1. ASSUME NEW x \in Members(h)
      PROVE  /\ x \in Item /\ h.pos[x] \in 0 .. Len(h.node) - 1
             /\ h.pos[x] \in Nat /\ h.node[h.pos[x] + 1] = x
  <2>1. PICK i \in 0 .. Len(h.node) - 1 : x = h.node[i + 1]
    BY SoundFacts
  <2>2. h.pos[x] = i /\ x \in Item
    BY <2>1, SoundFacts
  <2>. QED BY <2>1, <2>2
<1>2. \A x \in Item : x \notin Members(h) => h.pos[x] = POS_NULL
  BY DEF Sound, Placed
<1>3. Len(h.node) = 0 <=> Members(h) = {}
  <2>1. h.node \in Seq(Item) /\ Len(h.node) \in Nat
    BY SoundFacts
  <2>2. ASSUME Len(h.node) # 0 PROVE Members(h) # {}
    <3>1. 0 \in 0 .. Len(h.node) - 1
      BY <2>1, <2>2
    <3>2. h.node[0 + 1] \in Members(h)
      BY <3>1, SoundFacts
    <3>. QED BY <3>2
  <2>3. ASSUME Len(h.node) = 0 PROVE Members(h) = {}
    <3>1. DOMAIN h.node = {}
      BY <2>1, <2>3
    <3>. QED BY <3>1 DEF Members
  <2>. QED BY <2>2, <2>3
<1>4. h.node = <<>> <=> Len(h.node) = 0
  <2>1. h.node \in Seq(Item)
    BY SoundFacts
  <2>. QED BY <2>1
<1>. QED BY <1>1, <1>2, <1>3, <1>4, SoundFacts

LEMMA EmptyHeapFacts ==
    ASSUME NEW key
    PROVE  IsHeap(EmptyHeap, key) /\ Members(EmptyHeap) = {}
<1>1. EmptyHeap.node = <<>> /\ EmptyHeap.pos = [x \in Item |-> POS_NULL]
  BY DEF EmptyHeap
<1>2. EmptyHeap \in Heap
  BY DEF EmptyHeap, Heap
<1>3. Members(EmptyHeap) = {}
  BY <1>1 DEF Members
<1>4. Placed(EmptyHeap)
  BY <1>1 DEF Placed
<1>5. Ordered(EmptyHeap, key)
  BY <1>1 DEF Ordered
<1>. QED BY <1>2, <1>3, <1>4, <1>5 DEF IsHeap, Sound

(* Only the keys of members count.                                           *)
LEMMA OrderedFrame ==
    ASSUME NEW h, NEW key, IsHeap(h, key), NEW k2, \A x \in Members(h) : k2[x] = key[x]
    PROVE  IsHeap(h, k2)
<1>1. Len(h.node) \in Nat /\ Sound(h)
  BY SoundFacts DEF IsHeap
<1>2. \A i \in 1 .. Len(h.node) - 1 :
         h.node[i + 1] \in Members(h) /\ h.node[__PH_PARENT(i) + 1] \in Members(h)
  BY <1>1, SoundFacts, ParentRange
<1>. QED BY <1>1, <1>2 DEF IsHeap, Ordered, Above

(* A changed key puts at most its own node out of place.                     *)
LEMMA ChangedKey ==
    ASSUME NEW h, NEW key \in [Item -> Nat], IsHeap(h, key), NEW x \in Members(h),
           NEW k2 \in [Item -> Nat], \A y \in Members(h) : y # x => k2[y] = key[y]
    PROVE  Loose(h, k2, h.pos[x])
<1> DEFINE n == Len(h.node)
           P(j) == __PH_PARENT(j)
           i == h.pos[x]
           K(j) == KeyAt(h, key, j)
           N(j) == KeyAt(h, k2, j)
<1>1. Sound(h)
  BY DEF IsHeap
<1>2. n \in Nat /\ i \in 0 .. n - 1 /\ i \in Nat /\ h.node[i + 1] = x
  BY <1>1, SoundFacts, PosFacts
<1>3. \A j \in 0 .. n - 1 : j # i => N(j) = K(j)
  <2>. SUFFICES ASSUME NEW j \in 0 .. n - 1, j # i PROVE N(j) = K(j)
    OBVIOUS
  <2>1. h.node[j + 1] \in Members(h) /\ h.node[j + 1] # x
    BY <1>1, <1>2, SoundFacts
  <2>. QED BY <2>1 DEF KeyAt
<1>4. \A j \in 1 .. n - 1 : P(j) \in 0 .. n - 1 /\ P(j) < j /\ j \in 0 .. n - 1 /\ j # 0
  BY <1>2, ParentRange
<1>5. Loose(h, key, i)
  BY <1>1, <1>2, OrderedAround DEF IsHeap
<1>6. i # 0 => P(i) \in 0 .. n - 1 /\ P(i) # i
  BY <1>2, <1>4
<1>7. \A j \in 1 .. n - 1 : P(j) = i => j # i
  BY <1>2, <1>4
<1>8. \A j \in 1 .. n - 1 : /\ j # i /\ P(j) # i => K(P(j)) <= K(j)
                            /\ P(j) = i /\ i # 0 => K(P(i)) <= K(j)
  BY <1>5 DEF Loose
<1>9. Loose(h, k2, i) <=>
         \A j \in 1 .. n - 1 : /\ j # i /\ P(j) # i => N(P(j)) <= N(j)
                               /\ P(j) = i /\ i # 0 => N(P(i)) <= N(j)
  BY DEF Loose
<1>. HIDE DEF n, P, i, K, N
<1>10. Loose(h, k2, i)
  BY <1>3, <1>4, <1>6, <1>7, <1>8, <1>9
<1>. QED BY <1>10 DEF i

(* tt_ptrheap_fix() where only one node is out of place.                     *)
LEMMA FixFacts ==
    ASSUME NEW h, Sound(h), NEW key \in [Item -> Nat], NEW i \in 0 .. Len(h.node) - 1,
           Loose(h, key, i)
    PROVE  /\ IsHeap(tt_ptrheap_fix(h, key, i), key)
           /\ Members(tt_ptrheap_fix(h, key, i)) = Members(h)
           /\ Len(tt_ptrheap_fix(h, key, i).node) = Len(h.node)
<1> DEFINE u == __fix_downward(h, key, i)
           w == __fix_upward(u, key, i)
<1>1. /\ Sound(u) /\ Len(u.node) = Len(h.node) /\ Members(u) = Members(h)
      /\ Loose(u, key, i) /\ Sunk(u, key, i)
  BY FixDown
<1>2. tt_ptrheap_fix(h, key, i) = w
  BY DEF tt_ptrheap_fix
<1>3. i \in 0 .. Len(u.node) - 1
  BY <1>1
<1>. HIDE DEF u
<1>4. /\ Sound(w) /\ Len(w.node) = Len(u.node) /\ Members(w) = Members(u) /\ Ordered(w, key)
  BY <1>1, <1>3, FixUp
<1>. QED BY <1>1, <1>2, <1>4 DEF IsHeap

(* A key changes, and the heap is told.                                      *)
LEMMA FixChangedKey ==
    ASSUME NEW h, NEW key \in [Item -> Nat], IsHeap(h, key), NEW x \in Members(h),
           NEW k2 \in [Item -> Nat], \A y \in Members(h) : y # x => k2[y] = key[y]
    PROVE  /\ IsHeap(tt_ptrheap_fix(h, k2, h.pos[x]), k2)
           /\ Members(tt_ptrheap_fix(h, k2, h.pos[x])) = Members(h)
<1>1. Sound(h)
  BY DEF IsHeap
<1>2. h.pos[x] \in 0 .. Len(h.node) - 1
  BY <1>1, PosFacts
<1>3. Loose(h, k2, h.pos[x])
  BY ChangedKey
<1>. QED BY <1>1, <1>2, <1>3, FixFacts

(* The head has the least key: otherwise some node has a smaller one, and the   *)
(* first such node is above its parent.                                      *)
LEMMA HeadIsLeast ==
    ASSUME NEW h, NEW key \in [Item -> Nat], IsHeap(h, key), Members(h) # {}
    PROVE  /\ tt_ptrheap_head(h) \in Members(h) /\ h.pos[tt_ptrheap_head(h)] = 0
           /\ \A x \in Members(h) : key[tt_ptrheap_head(h)] <= key[x]
<1> DEFINE n == Len(h.node)
           K(j) == KeyAt(h, key, j)
           T == {j \in 0 .. n - 1 : K(j) < K(0)}
<1>1. Sound(h)
  BY DEF IsHeap
<1>2. n \in Nat /\ 0 \in 0 .. n - 1
  BY <1>1, PosFacts, SoundFacts
<1>3. tt_ptrheap_head(h) = h.node[0 + 1]
  BY DEF tt_ptrheap_head
<1>4. tt_ptrheap_head(h) \in Members(h) /\ h.pos[tt_ptrheap_head(h)] = 0
  <2>1. h.node[0 + 1] \in Members(h) /\ h.pos[h.node[0 + 1]] = 0
    BY <1>1, <1>2, SoundFacts
  <2>. QED BY <1>3, <2>1
<1>5. \A j \in 0 .. n - 1 : K(j) \in Nat
  BY <1>1, KeyFacts
<1>6. \A j \in 1 .. n - 1 : ~(K(j) < K(__PH_PARENT(j)))
  BY DEF IsHeap, Ordered, Above, KeyAt
<1>7. T = {}
  <2>. SUFFICES ASSUME T # {} PROVE FALSE
    OBVIOUS
  <2>1. T \subseteq Nat
    BY <1>2
  <2>2. PICK m \in T : \A j \in T : m <= j
    BY <2>1, LeastNumber
  <2>3. m \in 0 .. n - 1 /\ K(m) < K(0) /\ K(0) \in Nat /\ K(m) \in Nat
    BY <1>2, <1>5
  <2>. HIDE DEF K
  <2>4. m \in 1 .. n - 1
    BY <1>2, <2>3
  <2>5. __PH_PARENT(m) \in 0 .. n - 1 /\ __PH_PARENT(m) < m /\ m \in Nat
    BY <1>2, <2>4, ParentRange
  <2>6. K(__PH_PARENT(m)) \in Nat /\ K(__PH_PARENT(m)) <= K(m)
    BY <1>5, <1>6, <2>3, <2>4, <2>5
  <2>7. __PH_PARENT(m) \in T
    BY <2>3, <2>5, <2>6
  <2>8. __PH_PARENT(m) \in Nat
    BY <2>1, <2>7
  <2>. HIDE DEF T
  <2>. QED BY <2>2, <2>5, <2>7, <2>8
<1>8. ASSUME NEW x \in Members(h) PROVE key[tt_ptrheap_head(h)] <= key[x]
  <2>1. h.pos[x] \in 0 .. n - 1 /\ h.node[h.pos[x] + 1] = x
    BY <1>1, PosFacts
  <2>2. ~(K(h.pos[x]) < K(0)) /\ K(h.pos[x]) \in Nat /\ K(0) \in Nat
    BY <1>2, <1>5, <1>7, <2>1
  <2>3. K(h.pos[x]) = key[x] /\ K(0) = key[tt_ptrheap_head(h)]
    BY <1>3, <2>1 DEF KeyAt
  <2>. HIDE DEF K
  <2>. QED BY <2>2, <2>3
<1>. QED BY <1>4, <1>8

\* An array of n items and words that agree with it.
Agree(n, a, p) ==
    /\ a \in [1 .. n -> Item] /\ p \in [Item -> Nat \cup {POS_NULL}]
    /\ \A i \in 0 .. n - 1 : p[a[i + 1]] = i
    /\ \A x \in Item : p[x] # POS_NULL => \E i \in 0 .. n - 1 : a[i + 1] = x

(* They make a heap.                                                         *)
LEMMA MakeSound ==
    ASSUME NEW n \in Nat, NEW a, NEW p, Agree(n, a, p), NEW h, h = [node |-> a, pos |-> p]
    PROVE  /\ Sound(h) /\ Len(h.node) = n /\ h.node = a
           /\ \A x : x \in Members(h) <=> x \in Item /\ \E i \in 0 .. n - 1 : x = a[i + 1]
<1>. USE DEF Agree
<1>1. a \in Seq(Item) /\ Len(a) = n /\ DOMAIN a = 1 .. n
  OBVIOUS
<1>2. h \in Heap /\ h.node = a /\ h.pos = p
  BY <1>1 DEF Heap
<1>3. ASSUME NEW k \in 1 .. n PROVE p[a[k]] = k - 1
  <2>1. k - 1 \in 0 .. n - 1 /\ (k - 1) + 1 = k
    OBVIOUS
  <2>. QED BY <2>1
<1>4. ASSUME NEW x \in Item, p[x] # POS_NULL PROVE x \in {a[k] : k \in 1 .. n}
  <2>1. PICK i \in 0 .. n - 1 : a[i + 1] = x
    BY <1>4
  <2>2. i + 1 \in 1 .. n
    OBVIOUS
  <2>. QED BY <2>1, <2>2
<1>5. Placed(h)
  BY <1>1, <1>2, <1>3, <1>4 DEF Placed, Members
<1>6. Sound(h)
  BY <1>2, <1>5 DEF Sound
<1>7. \A x : x \in Members(h) <=> x \in Item /\ \E i \in 0 .. Len(h.node) - 1 : x = h.node[i + 1]
  BY ONLY <1>6, SoundFacts
<1>. QED BY <1>1, <1>2, <1>6, <1>7

(* The first elements of a sequence.                                         *)
LEMMA ShorterSeq ==
    ASSUME NEW S, NEW s \in Seq(S), NEW l \in Nat, l <= Len(s)
    PROVE  /\ SubSeq(s, 1, l) \in [1 .. l -> S]
           /\ \A i \in 1 .. l : SubSeq(s, 1, l)[i] = s[i]
<1>1. Len(s) \in Nat
  OBVIOUS
<1>2. SubSeq(s, 1, l) = [i \in 1 .. l |-> s[i]]
  BY <1>1
<1>3. \A i \in 1 .. l : s[i] \in S
  BY <1>1
<1>. QED BY <1>2, <1>3

(* tt_ptrheap_add() of an item that is not in the heap.                      *)
LEMMA AddFacts ==
    ASSUME NEW h, NEW key \in [Item -> Nat], IsHeap(h, key), NEW x \in Item, x \notin Members(h)
    PROVE  /\ IsHeap(tt_ptrheap_add(h, key, x), key)
           /\ Members(tt_ptrheap_add(h, key, x)) = Members(h) \cup {x}
<1> DEFINE n == Len(h.node)
           s == h.node
           p == h.pos
           a == Append(s, x)
           q == [p EXCEPT ![x] = n]
           u == [node |-> a, pos |-> q]
           P(j) == __PH_PARENT(j)
<1>1. Sound(h)
  BY DEF IsHeap
<1>2. /\ n \in Nat /\ s \in Seq(Item) /\ Len(s) = n /\ p \in [Item -> Nat \cup {POS_NULL}]
      /\ \A i \in 0 .. n - 1 : s[i + 1] \in Members(h) /\ s[i + 1] \in Item /\ p[s[i + 1]] = i
      /\ \A y : y \in Members(h) <=> y \in Item /\ \E i \in 0 .. n - 1 : y = s[i + 1]
  BY <1>1, SoundFacts
<1>3. \A y \in Item : p[y] # POS_NULL => \E i \in 0 .. n - 1 : s[i + 1] = y
  BY <1>1, <1>2 DEF Sound, Placed
<1>4. tt_ptrheap_add(h, key, x) = __fix_upward(u, key, n)
  BY DEF tt_ptrheap_add
<1>. HIDE DEF n, s, p
<1>5. a \in [1 .. n + 1 -> Item] /\ a[n + 1] = x /\ \A i \in 1 .. n : a[i] = s[i]
  <2>1. s \in Seq(Item) /\ Len(s) = n /\ n \in Nat /\ x \in Item
    BY <1>2
  <2>2. Append(s, x) \in Seq(Item) /\ Len(Append(s, x)) = n + 1 /\ Append(s, x)[n + 1] = x
    BY ONLY <2>1
  <2>3. \A i \in 1 .. n : Append(s, x)[i] = s[i]
    BY ONLY <2>1
  <2>. HIDE DEF a
  <2>4. a \in Seq(Item) /\ Len(a) = n + 1
    BY <2>2 DEF a
  <2>5. a \in [1 .. n + 1 -> Item]
    BY ONLY <2>1, <2>4
  <2>. QED BY <2>2, <2>3, <2>5 DEF a
<1>6. /\ q \in [Item -> Nat \cup {POS_NULL}] /\ q[x] = n
      /\ \A y \in Item : y # x => q[y] = p[y]
  BY <1>2
<1>7. \A i \in 0 .. n - 1 : a[i + 1] = s[i + 1] /\ a[i + 1] # x
  BY <1>2, <1>5
<1>. HIDE DEF a, q
<1>8. \A i \in 0 .. (n + 1) - 1 : i = n \/ i \in 0 .. n - 1
  BY <1>2
<1>9. \A i \in 0 .. (n + 1) - 1 : q[a[i + 1]] = i
  BY <1>2, <1>5, <1>6, <1>7, <1>8
<1>10. \A y \in Item : q[y] # POS_NULL => \E i \in 0 .. (n + 1) - 1 : a[i + 1] = y
  <2>. SUFFICES ASSUME NEW y \in Item, q[y] # POS_NULL
                PROVE  \E i \in 0 .. (n + 1) - 1 : a[i + 1] = y
    OBVIOUS
  <2>1. CASE y = x
    <3>1. n \in 0 .. (n + 1) - 1
      BY <1>2
    <3>. QED BY <1>5, <2>1, <3>1
  <2>2. CASE y # x
    <3>1. PICK i \in 0 .. n - 1 : s[i + 1] = y
      BY <1>3, <1>6, <2>2
    <3>2. i \in 0 .. (n + 1) - 1 /\ a[i + 1] = y
      BY <1>2, <1>7, <3>1
    <3>. QED BY <3>2
  <2>. QED BY <2>1, <2>2
<1>11. n + 1 \in Nat
  BY <1>2
<1>12. u = [node |-> a, pos |-> q]
  OBVIOUS
<1>. HIDE DEF u
<1>13. /\ Sound(u) /\ Len(u.node) = n + 1 /\ u.node = a
       /\ \A y : y \in Members(u) <=> y \in Item /\ \E i \in 0 .. (n + 1) - 1 : y = a[i + 1]
  <2>1. Agree(n + 1, a, q)
    BY <1>5, <1>6, <1>9, <1>10 DEF Agree
  <2>. DEFINE N == n + 1
  <2>2. N \in Nat /\ Agree(N, a, q)
    BY <1>11, <2>1
  <2>. HIDE DEF N
  <2>3. /\ Sound(u) /\ Len(u.node) = N /\ u.node = a
        /\ \A y : y \in Members(u) <=> y \in Item /\ \E i \in 0 .. N - 1 : y = a[i + 1]
    BY ONLY <1>12, <2>2, MakeSound
  <2>. QED BY <2>3 DEF N
<1>14. Members(u) = Members(h) \cup {x}
  <2>1. ASSUME NEW y \in Members(u) PROVE y \in Members(h) \cup {x}
    <3>1. PICK i \in 0 .. (n + 1) - 1 : y = a[i + 1]
      BY <1>13
    <3>. QED BY <1>2, <1>5, <1>7, <1>8, <3>1
  <2>2. ASSUME NEW y \in Members(h) \cup {x} PROVE y \in Members(u)
    <3>1. y \in Item /\ \E i \in 0 .. (n + 1) - 1 : y = a[i + 1]
      <4>1. CASE y = x
        <5>1. n \in 0 .. (n + 1) - 1
          BY <1>2
        <5>. QED BY <1>5, <4>1, <5>1
      <4>2. CASE y # x
        <5>1. PICK i \in 0 .. n - 1 : y = s[i + 1]
          BY <1>2, <4>2
        <5>2. i \in 0 .. (n + 1) - 1 /\ a[i + 1] = y
          BY <1>2, <1>7, <5>1
        <5>. QED BY <1>2, <4>2, <5>2
      <4>. QED BY <4>1, <4>2
    <3>. QED BY <1>13, <3>1
  <2>. QED BY <2>1, <2>2
<1>15. \A j \in 1 .. (n + 1) - 1 : P(j) # n /\ P(j) \in 0 .. n - 1 /\ (j # n => j \in 1 .. n - 1)
  <2>. SUFFICES ASSUME NEW j \in 1 .. (n + 1) - 1
                PROVE  P(j) # n /\ P(j) \in 0 .. n - 1 /\ (j # n => j \in 1 .. n - 1)
    OBVIOUS
  <2>1. P(j) \in 0 .. (n + 1) - 1 /\ P(j) < j
    BY <1>11, ParentRange
  <2>. HIDE DEF P
  <2>. QED BY <1>2, <2>1
<1>16. \A j \in 0 .. n - 1 : KeyAt(u, key, j) = KeyAt(h, key, j)
  BY <1>7, <1>13 DEF KeyAt, s
<1>17. \A j \in 1 .. n - 1 : KeyAt(h, key, P(j)) <= KeyAt(h, key, j)
  <2>. SUFFICES ASSUME NEW j \in 1 .. n - 1 PROVE KeyAt(h, key, P(j)) <= KeyAt(h, key, j)
    OBVIOUS
  <2>1. ~(KeyAt(h, key, j) < KeyAt(h, key, P(j)))
    BY DEF IsHeap, Ordered, Above, KeyAt, n
  <2>2. j \in 0 .. n - 1 /\ P(j) \in 0 .. n - 1
    BY <1>2, ParentRange
  <2>3. KeyAt(h, key, j) \in Nat /\ KeyAt(h, key, P(j)) \in Nat
    BY <1>1, <2>2, KeyFacts DEF n
  <2>. QED BY <2>1, <2>3
<1>18. Loose(u, key, n) /\ Sunk(u, key, n)
  <2>. HIDE DEF P
  <2>1. \A j \in 1 .. n - 1 : j \in 0 .. n - 1
    BY <1>2
  <2>2. \A j \in 1 .. (n + 1) - 1 : j # n => KeyAt(u, key, P(j)) <= KeyAt(u, key, j)
    BY <1>15, <1>16, <1>17, <2>1
  <2>. QED BY <1>13, <1>15, <2>2 DEF Loose, Sunk, P
<1>19. n \in 0 .. Len(u.node) - 1
  BY <1>2, <1>13
<1>. QED BY <1>4, <1>13, <1>14, <1>18, <1>19, FixUp DEF IsHeap

(* tt_ptrheap_remove() of the item at place i, tt_ptrheap_pop() of the head.  *)
LEMMA RemoveFacts ==
    ASSUME NEW h, NEW key \in [Item -> Nat], IsHeap(h, key), NEW x \in Members(h)
    PROVE  /\ IsHeap(tt_ptrheap_remove(h, key, h.pos[x]), key)
           /\ Members(tt_ptrheap_remove(h, key, h.pos[x])) = Members(h) \ {x}
<1> DEFINE n == Len(h.node)
           l == n - 1
           s == h.node
           p == h.pos
           i == p[x]
           y == s[l + 1]
           c == SubSeq(s, 1, l)
           o == [p EXCEPT ![x] = POS_NULL]
           a == [c EXCEPT ![i + 1] = y]
           q == [o EXCEPT ![y] = i]
           u == [node |-> a, pos |-> q]
           P(j) == __PH_PARENT(j)
<1>1. Sound(h)
  BY DEF IsHeap
<1>2. /\ n \in Nat /\ s \in Seq(Item) /\ Len(s) = n /\ p \in [Item -> Nat \cup {POS_NULL}]
      /\ \A j \in 0 .. n - 1 : s[j + 1] \in Members(h) /\ s[j + 1] \in Item /\ p[s[j + 1]] = j
      /\ \A z : z \in Members(h) <=> z \in Item /\ \E j \in 0 .. n - 1 : z = s[j + 1]
  BY <1>1, SoundFacts
<1>3. \A z \in Item : p[z] # POS_NULL => \E j \in 0 .. n - 1 : s[j + 1] = z
  BY <1>1, <1>2 DEF Sound, Placed
<1>4. i \in 0 .. n - 1 /\ i \in Nat /\ s[i + 1] = x /\ x \in Item
  BY <1>1, PosFacts
<1>5. tt_ptrheap_remove(h, key, i) =
          IF i = l THEN [node |-> c, pos |-> o] ELSE tt_ptrheap_fix(u, key, i)
  <2>. HIDE DEF i
  <2>1. h.node[i + 1] = x
    BY <1>4
  <2>. QED BY <2>1 DEF tt_ptrheap_remove
<1>6. \A j \in 1 .. n - 1 : KeyAt(h, key, P(j)) <= KeyAt(h, key, j)
  <2>. SUFFICES ASSUME NEW j \in 1 .. n - 1 PROVE KeyAt(h, key, P(j)) <= KeyAt(h, key, j)
    OBVIOUS
  <2>1. ~(KeyAt(h, key, j) < KeyAt(h, key, P(j)))
    BY DEF IsHeap, Ordered, Above, KeyAt
  <2>2. j \in 0 .. n - 1 /\ P(j) \in 0 .. n - 1
    BY <1>2, ParentRange
  <2>3. KeyAt(h, key, j) \in Nat /\ KeyAt(h, key, P(j)) \in Nat
    BY <1>1, <2>2, KeyFacts
  <2>. QED BY <2>1, <2>3
<1>. HIDE DEF n, s, p, i
<1>7. l \in Nat /\ l \in 0 .. n - 1 /\ n = l + 1
  BY <1>2, <1>4
<1>8. c \in [1 .. l -> Item] /\ \A j \in 1 .. l : c[j] = s[j]
  <2>1. s \in Seq(Item) /\ l \in Nat /\ l <= Len(s)
    BY <1>2, <1>7
  <2>. HIDE DEF l
  <2>2. /\ SubSeq(s, 1, l) \in [1 .. l -> Item]
        /\ \A j \in 1 .. l : SubSeq(s, 1, l)[j] = s[j]
    BY ONLY <2>1, ShorterSeq, Zenon
  <2>. QED BY ONLY <2>2
<1>. HIDE DEF l, c
<1>9. y \in Item /\ p[y] = l /\ y \in Members(h)
  BY <1>2, <1>7
<1>10. o \in [Item -> Nat \cup {POS_NULL}] /\ o[x] = POS_NULL /\ \A z \in Item : z # x => o[z] = p[z]
  BY <1>2, <1>4
<1>. HIDE DEF y, o
<1>11. \A j \in 0 .. l - 1 : j \in 0 .. n - 1 /\ j + 1 \in 1 .. l /\ c[j + 1] = s[j + 1]
  BY <1>7, <1>8
<1>12. \A j \in 0 .. n - 1 : j # l => j \in 0 .. l - 1
  BY <1>7
<1>13. \A j \in 0 .. n - 1 : j # i => s[j + 1] # x
  BY <1>2, <1>4
<1>14. CASE i = l
  <2> DEFINE w == [node |-> c, pos |-> o]
  <2>1. \A j \in 0 .. l - 1 : o[c[j + 1]] = j /\ j # i
    <3>. SUFFICES ASSUME NEW j \in 0 .. l - 1 PROVE o[c[j + 1]] = j /\ j # i
      OBVIOUS
    <3>1. j # i
      BY <1>7, <1>14
    <3>2. s[j + 1] # x /\ s[j + 1] \in Item /\ p[s[j + 1]] = j
      BY <1>2, <1>11, <1>13, <3>1
    <3>. QED BY <1>10, <1>11, <3>1, <3>2
  <2>2. \A z \in Item : o[z] # POS_NULL => \E j \in 0 .. l - 1 : c[j + 1] = z
    <3>. SUFFICES ASSUME NEW z \in Item, o[z] # POS_NULL PROVE \E j \in 0 .. l - 1 : c[j + 1] = z
      OBVIOUS
    <3>1. z # x /\ p[z] # POS_NULL
      BY <1>10
    <3>2. PICK j \in 0 .. n - 1 : s[j + 1] = z
      BY <1>3, <3>1
    <3>3. j # l
      BY <1>4, <1>14, <3>1, <3>2
    <3>. QED BY <1>11, <1>12, <3>2, <3>3
  <2>3. w = [node |-> c, pos |-> o]
    OBVIOUS
  <2>. HIDE DEF w
  <2>4. /\ Sound(w) /\ Len(w.node) = l /\ w.node = c
        /\ \A z : z \in Members(w) <=> z \in Item /\ \E j \in 0 .. l - 1 : z = c[j + 1]
    <3>1. Agree(l, c, o)
      BY <1>8, <1>10, <2>1, <2>2 DEF Agree
    <3>. QED BY <1>7, <2>3, <3>1, MakeSound
  <2>5. Members(w) = Members(h) \ {x}
    <3>1. ASSUME NEW z \in Members(w) PROVE z \in Members(h) \ {x}
      <4>1. PICK j \in 0 .. l - 1 : z = c[j + 1]
        BY <2>4
      <4>. QED BY <1>2, <1>11, <1>13, <2>1, <4>1
    <3>2. ASSUME NEW z \in Members(h) \ {x} PROVE z \in Members(w)
      <4>1. PICK j \in 0 .. n - 1 : z = s[j + 1]
        BY <1>2
      <4>2. j \in 0 .. l - 1 /\ z = c[j + 1] /\ z \in Item
        BY <1>2, <1>4, <1>11, <1>12, <1>14, <4>1
      <4>. QED BY <2>4, <4>2
    <3>. QED BY <3>1, <3>2
  <2>6. \A j \in 0 .. l - 1 : KeyAt(w, key, j) = KeyAt(h, key, j)
    BY <1>11, <2>4 DEF KeyAt, s
  <2>7. Ordered(w, key)
    <3>. SUFFICES ASSUME NEW j \in 1 .. l - 1 PROVE ~(KeyAt(w, key, j) < KeyAt(w, key, P(j)))
      BY <2>4 DEF Ordered, Above, KeyAt
    <3>1. j \in 0 .. l - 1 /\ P(j) \in 0 .. l - 1 /\ j \in 1 .. n - 1
      BY <1>7, ParentRange
    <3>. HIDE DEF P
    <3>2. KeyAt(w, key, P(j)) <= KeyAt(w, key, j) /\ KeyAt(w, key, j) \in Nat
          /\ KeyAt(w, key, P(j)) \in Nat
      BY <1>6, <2>4, <2>6, <3>1, KeyFacts
    <3>. QED BY <3>2
  <2>. QED BY <1>5, <1>14, <2>3, <2>4, <2>5, <2>7 DEF IsHeap, i, p
<1>15. CASE i # l
  <2>1. i \in 0 .. l - 1 /\ i + 1 \in 1 .. l /\ x # y
    BY <1>4, <1>9, <1>11, <1>12, <1>15 DEF i
  <2>2. /\ a \in [1 .. l -> Item] /\ a[i + 1] = y
        /\ \A j \in 1 .. l : j # i + 1 => a[j] = c[j]
    BY <1>8, <1>9, <2>1
  <2>3. /\ q \in [Item -> Nat \cup {POS_NULL}] /\ q[y] = i /\ q[x] = POS_NULL
        /\ \A z \in Item : z # x /\ z # y => q[z] = p[z]
    BY <1>4, <1>9, <1>10, <2>1
  <2>4. u = [node |-> a, pos |-> q]
    OBVIOUS
  <2>. HIDE DEF a, q, u
  <2>5. \A j \in 0 .. l - 1 : j # i => a[j + 1] = s[j + 1] /\ s[j + 1] # x /\ s[j + 1] # y
    <3>. SUFFICES ASSUME NEW j \in 0 .. l - 1, j # i
                  PROVE  a[j + 1] = s[j + 1] /\ s[j + 1] # x /\ s[j + 1] # y
      OBVIOUS
    <3>1. j + 1 \in 1 .. l /\ j + 1 # i + 1 /\ j # l /\ j \in 0 .. n - 1
      BY <1>4, <1>7, <1>11
    <3>. QED BY <1>2, <1>9, <1>11, <1>13, <2>2, <3>1
  <2>6. \A j \in 0 .. l - 1 : q[a[j + 1]] = j
    <3>. SUFFICES ASSUME NEW j \in 0 .. l - 1 PROVE q[a[j + 1]] = j
      OBVIOUS
    <3>1. CASE j = i
      BY <2>2, <2>3, <3>1
    <3>2. CASE j # i
      BY <1>2, <1>11, <2>3, <2>5, <3>2
    <3>. QED BY <3>1, <3>2
  <2>7. \A z \in Item : q[z] # POS_NULL => \E j \in 0 .. l - 1 : a[j + 1] = z
    <3>. SUFFICES ASSUME NEW z \in Item, q[z] # POS_NULL PROVE \E j \in 0 .. l - 1 : a[j + 1] = z
      OBVIOUS
    <3>1. CASE z = y
      BY <2>1, <2>2, <3>1
    <3>2. CASE z # y
      <4>1. z # x /\ p[z] # POS_NULL
        BY <2>3, <3>2
      <4>2. PICK j \in 0 .. n - 1 : s[j + 1] = z
        BY <1>3, <4>1
      <4>3. j # l /\ j # i
        BY <1>4, <3>2, <4>1, <4>2 DEF y
      <4>. QED BY <1>12, <2>5, <4>2, <4>3
    <3>. QED BY <3>1, <3>2
  <2>8. /\ Sound(u) /\ Len(u.node) = l /\ u.node = a
        /\ \A z : z \in Members(u) <=> z \in Item /\ \E j \in 0 .. l - 1 : z = a[j + 1]
    <3>1. Agree(l, a, q)
      BY <2>2, <2>3, <2>6, <2>7 DEF Agree
    <3>. QED BY <1>7, <2>4, <3>1, MakeSound
  <2>9. Members(u) = Members(h) \ {x}
    <3>1. ASSUME NEW z \in Members(u) PROVE z \in Members(h) \ {x}
      <4>1. PICK j \in 0 .. l - 1 : z = a[j + 1]
        BY <2>8
      <4>2. CASE j = i
        BY <1>9, <2>1, <2>2, <4>1, <4>2
      <4>3. CASE j # i
        BY <1>2, <1>11, <2>5, <4>1, <4>3
      <4>. QED BY <4>2, <4>3
    <3>2. ASSUME NEW z \in Members(h) \ {x} PROVE z \in Members(u)
      <4>1. z \in Item
        BY <1>2
      <4>2. PICK j \in 0 .. n - 1 : z = s[j + 1]
        BY <1>2
      <4>3. CASE j = l
        BY <2>1, <2>2, <2>8, <4>1, <4>2, <4>3 DEF y
      <4>4. CASE j # l
        <5>1. j # i
          BY <1>4, <4>2
        <5>2. j \in 0 .. l - 1 /\ z = a[j + 1]
          BY <1>12, <2>5, <4>2, <4>4, <5>1
        <5>. QED BY <2>8, <4>1, <5>2
      <4>. QED BY <4>3, <4>4
    <3>. QED BY <3>1, <3>2
  <2>10. \A j \in 0 .. l - 1 : j # i => KeyAt(u, key, j) = KeyAt(h, key, j)
    BY <2>5, <2>8 DEF KeyAt, s
  <2>11. Loose(u, key, i)
    <3>1. ASSUME NEW j \in 1 .. l - 1
          PROVE  P(j) \in 0 .. l - 1 /\ P(j) < j /\ j \in 0 .. l - 1 /\ j \in 1 .. n - 1 /\ j \in Nat
      BY <1>7, ParentRange
    <3>2. ASSUME NEW j \in 1 .. l - 1, j # i, P(j) # i
          PROVE  KeyAt(u, key, P(j)) <= KeyAt(u, key, j)
      <4>1. KeyAt(u, key, j) = KeyAt(h, key, j) /\ KeyAt(u, key, P(j)) = KeyAt(h, key, P(j))
        <5>. HIDE DEF P
        <5>. QED BY <2>10, <3>1, <3>2
      <4>. QED BY <1>6, <3>1, <4>1
    <3>3. ASSUME NEW j \in 1 .. l - 1, P(j) = i, i # 0
          PROVE  KeyAt(u, key, P(i)) <= KeyAt(u, key, j)
      <4>1. i \in 1 .. l - 1 /\ j # i
        BY <1>7, <2>1, <3>1, <3>3
      <4>2. P(i) # i
        BY <3>1, <4>1
      <4>3. KeyAt(u, key, j) = KeyAt(h, key, j) /\ KeyAt(u, key, P(i)) = KeyAt(h, key, P(i))
        <5>. HIDE DEF P
        <5>. QED BY <2>10, <3>1, <4>1, <4>2
      <4>4. KeyAt(h, key, P(i)) <= KeyAt(h, key, i) /\ KeyAt(h, key, i) <= KeyAt(h, key, j)
        BY <1>6, <3>1, <3>3, <4>1
      <4>5. KeyAt(h, key, P(i)) \in Nat /\ KeyAt(h, key, i) \in Nat /\ KeyAt(h, key, j) \in Nat
        BY <1>1, <1>11, <3>1, <4>1, KeyFacts DEF n
      <4>. QED BY <4>3, <4>4, <4>5
    <3>. QED BY <2>8, <3>2, <3>3 DEF Loose
  <2>12. i \in 0 .. Len(u.node) - 1
    BY <2>1, <2>8
  <2>. QED BY <1>5, <1>15, <2>8, <2>9, <2>11, <2>12, FixFacts DEF i, p
<1>. QED BY <1>14, <1>15

LEMMA PopFacts ==
    ASSUME NEW h, NEW key \in [Item -> Nat], IsHeap(h, key), Members(h) # {}
    PROVE  /\ IsHeap(tt_ptrheap_pop(h, key), key)
           /\ Members(tt_ptrheap_pop(h, key)) = Members(h) \ {tt_ptrheap_head(h)}
<1>1. tt_ptrheap_head(h) \in Members(h) /\ h.pos[tt_ptrheap_head(h)] = 0
  BY HeadIsLeast
<1>. QED BY <1>1, RemoveFacts DEF tt_ptrheap_pop

LEMMA ClearFacts ==
    ASSUME NEW h, Sound(h)
    PROVE  tt_ptrheap_clear(h) = EmptyHeap
<1>1. \A x \in Item : x \notin Members(h) => h.pos[x] = POS_NULL
  BY PosFacts
<1>. QED BY <1>1 DEF tt_ptrheap_clear, EmptyHeap
=============================================================================
