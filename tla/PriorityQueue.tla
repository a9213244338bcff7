---------------------------- MODULE PriorityQueue ---------------------------
(***************************************************************************)
(* What the pointer heap promises the timer manager: a set of items with    *)
(* keys from which an item with the least key can be taken.                 *)
(***************************************************************************)
EXTENDS Naturals

CONSTANTS Item, Key, NoItem

VARIABLES members,  \* the items in the queue
          key,      \* their keys
          popped    \* what the last call returned, if it was a pop

queueVars == <<members, key, popped>>

Init ==
    /\ members = {}
    /\ key \in [Item -> Key]
    /\ popped = NoItem

\* An item enters the queue with a key, or the key of a member changes.
Put(x, k) ==
    /\ members' = members \cup {x}
    /\ \A y \in members' : key'[y] = IF y = x THEN k ELSE key[y]
    /\ popped' = NoItem

\* Members are taken out by name.
Take(S) ==
    /\ members' = members \ S
    /\ \A y \in members' : key'[y] = key[y]
    /\ popped' = NoItem

\* A member with the least key is taken out.
Pop(x) ==
    /\ x \in members
    /\ \A y \in members : key[x] <= key[y]
    /\ members' = members \ {x}
    /\ \A y \in members' : key'[y] = key[y]
    /\ popped' = x

Next ==
    \/ \E x \in Item, k \in Key : Put(x, k)
    \/ \E x \in Item : Take({x}) \/ Pop(x)
    \/ Take(members)

Spec == Init /\ [][Next]_queueVars
=============================================================================
