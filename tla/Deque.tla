------------------------------- MODULE Deque --------------------------------
(***************************************************************************)
(* What tt_queue_t and tt_ptrq_t promise: a sequence that grows and shrinks *)
(* at both ends.                                                            *)
(***************************************************************************)
EXTENDS Naturals, Sequences

CONSTANTS Obj, NoObj

VARIABLES val,  \* the objects from head to tail
          out   \* what the last call handed out

dequeVars == <<val, out>>

Init == val = <<>> /\ out = NoObj

\* There may be no memory for the object.
Push(o) ==
    /\ val' \in {<<o>> \o val, Append(val, o), val}
    /\ out' = NoObj

PopHead ==
    /\ val # <<>>
    /\ out' = Head(val)
    /\ val' = Tail(val)

PopTail ==
    /\ val # <<>>
    /\ out' = val[Len(val)]
    /\ val' = SubSeq(val, 1, Len(val) - 1)

PopNothing == val = <<>> /\ val' = val /\ out' = NoObj

Replace(i, o) ==
    /\ i \in DOMAIN val
    /\ val' = [val EXCEPT ![i] = o]
    /\ out' = NoObj

Clear == val' = <<>> /\ out' = NoObj

Next ==
    \/ \E o \in Obj : Push(o) \/ \E i \in DOMAIN val : Replace(i, o)
    \/ PopHead \/ PopTail \/ PopNothing
    \/ Clear

Spec == Init /\ [][Next]_dequeVars
=============================================================================
