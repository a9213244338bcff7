----------------------------- MODULE FrameQueue -----------------------------
(***************************************************************************)
(* tt_queue_t (source/algorithm/tt_queue.c): a list of frames of            *)
(* obj_per_frame slots each, of which one that became empty is cached.      *)
(* tt_ptrq_t (source/algorithm/ptr/tt_ptr_queue.c) is the same code with    *)
(* pointers for objects.                                                    *)
(*                                                                          *)
(* The objects of a frame are in the slots start .. end - 1; what the other *)
(* slots hold is left over from before and part of the model, since         *)
(* tt_queue_get() and tt_queue_set() can reach it.                          *)
(***************************************************************************)
EXTENDS Naturals, Sequences

CONSTANTS Obj,            \* the objects
          Junk,           \* what malloc() leaves in a slot
          NoObj,          \* no object
          obj_per_frame,
          MaxCount        \* bound: the caller keeps at most so many objects

VARIABLES frame,         \* the frames from head to tail
          cached_frame,  \* the cached frame, as a sequence of at most one
          count,
          out            \* what the last call handed out

vars == <<frame, cached_frame, count, out>>

Slot == 0 .. obj_per_frame - 1

\* tt_queue_init()
Init ==
    /\ frame = <<>>
    /\ cached_frame = <<>>
    /\ count = 0
    /\ out = NoObj

\* __alloc_head_frame() and __alloc_tail_frame(): the frame in the cache or a new
\* one, filled from slot at on.
Alloc(at) ==
    [start |-> at, end |-> at,
     obj |-> IF cached_frame = <<>> THEN [s \in Slot |-> Junk] ELSE cached_frame[1].obj]

\* __free_frame(): the cache afterwards.
Freed(f) == IF cached_frame = <<>> THEN <<f>> ELSE cached_frame

\* The place of the last frame.
Tailmost == Len(frame)

-----------------------------------------------------------------------------

\* Whether push_head finds a free slot before the first object.
HeadRoom == frame # <<>> /\ frame[1].start > 0

TailRoom == frame # <<>> /\ frame[Tailmost].end < obj_per_frame

\* Wrong variant: the object is written before start is moved.
PutFirst_late(f, o) ==
    [f EXCEPT !.start = @ - 1, !.obj = [s \in Slot |-> IF s = f.start THEN o ELSE @[s]]]

\* f with o as its new first object, as its new last object.
PutFirst(f, o) == [f EXCEPT !.start = @ - 1, !.obj[f.start - 1] = o]

PutLast(f, o) == [f EXCEPT !.end = @ + 1, !.obj[f.end] = o]

tt_queue_push_head(o) ==
    /\ count < MaxCount
    /\ frame' = IF HeadRoom THEN [frame EXCEPT ![1] = PutFirst(@, o)]
                ELSE <<PutFirst(Alloc(obj_per_frame), o)>> \o frame
    /\ cached_frame' = IF HeadRoom THEN cached_frame ELSE <<>>
    /\ count' = count + 1
    /\ out' = NoObj

tt_queue_push_tail(o) ==
    /\ count < MaxCount
    /\ frame' = IF TailRoom THEN [frame EXCEPT ![Tailmost] = PutLast(@, o)]
                ELSE Append(frame, PutLast(Alloc(0), o))
    /\ cached_frame' = IF TailRoom THEN cached_frame ELSE <<>>
    /\ count' = count + 1
    /\ out' = NoObj

\* Either push when malloc() fails: nothing is changed.
PushFails ==
    /\ ~HeadRoom \/ ~TailRoom
    /\ cached_frame = <<>>
    /\ out' = NoObj
    /\ UNCHANGED <<frame, cached_frame, count>>

\* A pop from an empty queue.
PopFails ==
    /\ frame = <<>>
    /\ out' = NoObj
    /\ UNCHANGED <<frame, cached_frame, count>>

\* Wrong variant: a frame is given up only when its last slot was read.
Spent_atEnd(f) == f.start = obj_per_frame

\* Whether a pop left nothing in f.
Spent(f) == f.start = f.end

tt_queue_pop_head ==
    /\ frame # <<>>
    /\ LET f == [frame[1] EXCEPT !.start = @ + 1]
       IN  /\ frame' = IF Spent(f) THEN Tail(frame) ELSE [frame EXCEPT ![1] = f]
           /\ cached_frame' = IF Spent(f) THEN Freed(f) ELSE cached_frame
           /\ out' = f.obj[f.start - 1]
    /\ count' = count - 1

tt_queue_pop_tail ==
    /\ frame # <<>>
    /\ LET f == [frame[Tailmost] EXCEPT !.end = @ - 1]
       IN  /\ frame' = IF Spent(f) THEN SubSeq(frame, 1, Tailmost - 1)
                       ELSE [frame EXCEPT ![Tailmost] = f]
           /\ cached_frame' = IF Spent(f) THEN Freed(f) ELSE cached_frame
           /\ out' = f.obj[f.end]
    /\ count' = count - 1

\* The frames are freed from the head on, so the first one goes to an empty cache.
tt_queue_clear ==
    /\ cached_frame' = IF frame = <<>> THEN cached_frame ELSE Freed(frame[1])
    /\ frame' = <<>>
    /\ count' = 0
    /\ out' = NoObj

-----------------------------------------------------------------------------

Size(f) == f.end - f.start

\* How many objects are in the frames before frame k.
Before(k) ==
    LET n[j \in 0 .. k - 1] == IF j = 0 THEN 0 ELSE n[j - 1] + Size(frame[j]) IN n[k - 1]

\* The frame and the slot that tt_queue_get() and tt_queue_set() use for index idx.
\* (The code counts the slot from the begin of the frame, not from frame->start.)
Place(idx) ==
    LET k == CHOOSE k \in 1 .. Tailmost : Before(k) <= idx /\ idx < Before(k) + Size(frame[k])
    IN  <<k, idx - Before(k)>>

\* (For idx >= count the call fails.)
tt_queue_get(idx) == LET p == Place(idx) IN frame[p[1]].obj[p[2]]

\* Where the slots of a frame are the places of its objects.
Indexed(idx) == frame[1].start = 0 \/ idx >= Size(frame[1])

\* A caller that only sets where this is so.
tt_queue_set(idx, o) ==
    /\ idx < count
    /\ Indexed(idx)
    /\ LET p == Place(idx) IN frame' = [frame EXCEPT ![p[1]].obj[p[2]] = o]
    /\ out' = NoObj
    /\ UNCHANGED <<cached_frame, count>>

Next ==
    \/ \E o \in Obj :
          \/ tt_queue_push_head(o) \/ tt_queue_push_tail(o)
          \/ \E i \in 0 .. MaxCount - 1 : tt_queue_set(i, o)
    \/ PushFails
    \/ PopFails
    \/ tt_queue_pop_head
    \/ tt_queue_pop_tail
    \/ tt_queue_clear

Spec == Init /\ [][Next]_vars

-----------------------------------------------------------------------------

\* The iterator after a call: it has handed out the object before idx of frame f,
\* or NULL (f = 0).
tt_queue_iter_next(it) ==
    IF frame[it.f].start + it.idx < frame[it.f].end THEN [it EXCEPT !.idx = @ + 1]
    ELSE IF it.f < Tailmost THEN [f |-> it.f + 1, idx |-> 1]
    ELSE [f |-> 0, idx |-> 0]

\* The iterator after n calls, starting with tt_queue_iter().
Iterator(n) ==
    LET it[i \in 0 .. n] ==
            IF i > 0 THEN tt_queue_iter_next(it[i - 1])
            ELSE [f |-> IF frame = <<>> THEN 0 ELSE 1, idx |-> 0]
    IN  it[n]

\* The object an iterator has just handed out.
Given(it) == frame[it.f].obj[frame[it.f].start + it.idx - 1]

Objects(f) == [i \in 1 .. Size(f) |-> f.obj[f.start + i - 1]]

\* The objects of the queue from head to tail.
Contents ==
    LET c[k \in 0 .. Tailmost] == IF k = 0 THEN <<>> ELSE c[k - 1] \o Objects(frame[k])
    IN  c[Tailmost]

(* The assertions of tt_queue.c hold: no frame in the list is empty, so both   *)
(* ends are real objects; in between no slot is left out: only the first frame *)
(* begins late and only the last one ends early; the objects are count.        *)
NoGaps ==
    /\ \A k \in 1 .. Tailmost :
          /\ frame[k].start < frame[k].end /\ frame[k].end <= obj_per_frame
          /\ k > 1 => frame[k].start = 0
          /\ k < Tailmost => frame[k].end = obj_per_frame
    /\ count = Len(Contents)

(* An iterator hands out every object once, in order, and then NULL.           *)
IteratorWalks ==
    /\ \A i \in 1 .. count : Given(Iterator(i)) = Contents[i]
    /\ count > 0 => tt_queue_iter_next(Iterator(count)).f = 0

(* tt_queue_get() gives the object at that place from the head, unless    *)
(* the index is in a first frame that does not begin at its first slot.        *)
GetMatchesIterator ==
    \A i \in 0 .. count - 1 : Indexed(i) => tt_queue_get(i) = Contents[i + 1]

(* The frames implement a sequence that changes at its two ends.               *)
Abstract == INSTANCE Deque WITH val <- Contents

DequeSpec == Abstract!Spec
=============================================================================
