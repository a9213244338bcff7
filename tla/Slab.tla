-------------------------------- MODULE Slab --------------------------------
(***************************************************************************)
(* tt_slab_t (source/memory/tt_slab.c): objects of one size, cut from       *)
(* frames that are allocated when no object is free and given back when     *)
(* their last object has returned and the slab holds enough.                *)
(***************************************************************************)
EXTENDS FiniteSets, TTList

CONSTANTS Block,        \* places malloc() returns for a frame
          bulk_num,     \* objects of a frame
          obj_size, frame_size,
          Span          \* the values of a tt_u32_t

VARIABLES frame_list, obj_list, ref, obj_num,
          used          \* the objects the user has

vars == <<frame_list, obj_list, ref, obj_num, used>>

\* The objects of frame b in the order of their places.
Cut(b) == [i \in 1 .. bulk_num |-> <<b, i>>]

Init ==
    /\ frame_list = <<>>
    /\ obj_list = <<>>
    /\ ref = [b \in Block |-> 0]
    /\ obj_num = 0
    /\ used = {}

\* The rest of tt_slab_alloc_tag() with l, the list of free objects.  obj_num is not
\* counted down.
Take(l) ==
    /\ obj_list' = Tail(l)
    /\ ref' = [ref EXCEPT ![Head(l)[1]] = @ + 1]
    /\ used' = used \cup {Head(l)}
    /\ UNCHANGED obj_num

tt_slab_alloc_tag ==
    /\ obj_list # <<>>
    /\ Take(obj_list)
    /\ UNCHANGED frame_list

\* With a new frame; without memory NULL is returned and nothing changes.
__slab_alloc_frame(b) ==
    /\ obj_list = <<>>
    /\ b \notin Nodes(frame_list)
    /\ frame_list' = tt_list_push_tail(frame_list, b)
    /\ Take(Cut(b))

\* Wrong variant: the object that returns is still counted.
Returned_one(b) == ref[b] <= 2

\* All objects of b have returned, the last one now.
Returned(b) == ref[b] = 1

\* obj_num counts the objects returned ever, not those in the list.
Plenty == ((obj_num + 1) * obj_size) % Span >= (2 * frame_size) % Span

\* __slab_free_frame(): the objects of b leave the list, one after the other.
Without(l, b) ==
    LET W[i \in 0 .. bulk_num] == IF i = 0 THEN l ELSE tt_list_remove(W[i - 1], <<b, i>>)
    IN  W[bulk_num]

tt_slab_free(o) ==
    LET b == o[1]
        l == tt_list_push_head(obj_list, o)
        frees == Returned(b) /\ Plenty
    IN  /\ o \in used
        /\ used' = used \ {o}
        /\ ref' = [ref EXCEPT ![b] = IF frees THEN 0 ELSE @ - 1]
        /\ obj_num' = (obj_num + 1) % Span
        /\ obj_list' = IF frees THEN Without(l, b) ELSE l
        /\ frame_list' = IF frees THEN tt_list_remove(frame_list, b) ELSE frame_list

\* A frame that is referenced stops it; else the frames are freed, and a slab may be
\* created again.
tt_slab_destroy ==
    /\ frame_list # <<>>
    /\ \A b \in Nodes(frame_list) : ref[b] = 0
    /\ frame_list' = <<>>
    /\ obj_list' = <<>>
    /\ obj_num' = 0
    /\ UNCHANGED <<ref, used>>

Next ==
    \/ tt_slab_destroy
    \/ tt_slab_alloc_tag
    \/ \E b \in Block : __slab_alloc_frame(b)
    \/ \E o \in used : tt_slab_free(o)

Spec == Init /\ [][Next]_vars

-----------------------------------------------------------------------------

(* An object lies in a frame that is allocated, and is either free or in use,  *)
(* once: no frame is given back while the user or the list has something of    *)
(* it, and none of its objects is lost.                                        *)
Backed ==
    /\ Distinct(obj_list) /\ Distinct(frame_list)
    /\ used \cap Nodes(obj_list) = {}
    /\ used \cup Nodes(obj_list) = Nodes(frame_list) \X (1 .. bulk_num)

(* tt_slab_destroy() goes by the counts of the frames: they are those of the   *)
(* objects in use.                                                             *)
RefsCount ==
    \A b \in Nodes(frame_list) : ref[b] = Cardinality({o \in used : o[1] = b})
=============================================================================
