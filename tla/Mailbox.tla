------------------------------ MODULE Mailbox -------------------------------
(***************************************************************************)
(* What the io poller of a task promises the threads that send to it: a     *)
(* first-in first-out box per channel.  Every event that is put into a box  *)
(* is taken out once, by the owner of the box, in the order of putting,     *)
(* until the owner stops; when it stops it may throw away what it had       *)
(* fetched and not yet looked at.                                           *)
(***************************************************************************)
EXTENDS Naturals, Sequences

CONSTANTS Channel, Event

VARIABLES box,     \* box[c]: the events of channel c nobody has taken yet
          taken,   \* the event the owner took last
          open     \* the owner has not stopped

mailVars == <<box, taken, open>>

CONSTANT NoEvent

Init ==
    /\ box = [c \in Channel |-> <<>>]
    /\ taken = NoEvent
    /\ open = TRUE

\* Putting is possible for as long as the box exists, stopped or not.
Put(c, e) ==
    /\ \A i \in DOMAIN box[c] : box[c][i] # e
    /\ box' = [box EXCEPT ![c] = Append(@, e)]
    /\ UNCHANGED <<taken, open>>

Take(c) ==
    /\ open
    /\ box[c] # <<>>
    /\ taken' = Head(box[c])
    /\ box' = [box EXCEPT ![c] = Tail(@)]
    /\ UNCHANGED open

\* The owner stops, by its own decision or because of the event it takes, and
\* forgets the first k events of the channel it was working on.
Stop(c, k) ==
    /\ open
    /\ taken' \in {taken} \cup (IF k > 0 THEN {Head(box[c])} ELSE {})
    /\ box' = [box EXCEPT ![c] = SubSeq(@, k + 1, Len(@))]
    /\ open' = FALSE

Next ==
    \E c \in Channel :
        \/ \E e \in Event : Put(c, e)
        \/ Take(c)
        \/ \E k \in 0 .. Len(box[c]) : Stop(c, k)

Spec == Init /\ [][Next]_mailVars
=============================================================================
