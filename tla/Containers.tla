----------------------------- MODULE Containers -----------------------------
(***************************************************************************)
(* The containers of the library side by side, each under a caller that     *)
(* makes any calls of its interface in any order, and what each of them     *)
(* promises.                                                                *)
(***************************************************************************)
EXTENDS PtrHeapUse

CONSTANTS List, Node, NULL,
          Obj, Junk, NoObj, obj_per_frame, MaxCount,
          Byte, Dirt, InitSize, MinExtend, MaxExtend, MaxLimit, MaxLen, BufSpan,
          Block, bulk_num, obj_size, frame_size, SlabSpan,
          HNode, HKey, NoNode, NoKey, sll_num, hash

ASSUME ListAssumption == NULL \notin List \cup Node

\* What the code asserts, or takes for granted, of the sizes.
ASSUME SizeAssumption ==
    /\ {MinExtend, MaxExtend, MaxLimit, BufSpan, InitSize, MaxLen} \subseteq Nat
    /\ 0 < MinExtend /\ MinExtend < MaxExtend
    /\ MaxLimit = 0 \/ MaxExtend < MaxLimit
    /\ 2 * MaxExtend < BufSpan
    /\ obj_per_frame \in Nat \ {0} /\ MaxCount \in Nat
    /\ bulk_num \in Nat \ {0} /\ bulk_num * obj_size < frame_size
    /\ sll_num \in Nat \ {0} /\ hash \in [HKey -> Nat]
    /\ Dirt \notin Byte /\ NoNode \notin HNode /\ NoKey \notin HKey

VARIABLES subject,                             \* the container in use
          head, tail, count, lst, prev, next,  \* LinkedList
          frame, cached_frame, qcount, out,    \* FrameQueue
          buf,                                 \* Buffer
          frame_list, obj_list, ref, obj_num, used,   \* Slab
          sll, hkey, hcount, walk, seen, stay  \* HashMap

Lists == INSTANCE LinkedList

Frames == INSTANCE FrameQueue WITH count <- qcount

Bytes == INSTANCE Buffer WITH Span <- BufSpan

Slabs == INSTANCE Slab WITH Span <- SlabSpan

Map == INSTANCE HashMap WITH key <- hkey

-----------------------------------------------------------------------------
(* HeapSound and QueueSpec, that the heap is in order and is a priority      *)
(* queue, are those of PtrHeapUse.                                          *)

(* tt_list_t: pointers and counts of all lists and nodes agree, as nodes move  *)
(* between lists by tt_list_remove() and the pushes and inserts.               *)
WellLinked == Lists!WellLinked

(* tt_list_t: lists are sequences of nodes. *)
ListsSpec == Lists!ListsSpec

(* tt_queue_t: no empty frame and no slot left out between the two ends;       *)
(* tt_queue_iter_next() gives every object once and in order, then NULL;       *)
(* tt_queue_get() gives the object at that place, except in a first frame that *)
(* does not begin at its first slot.                                           *)
QueueSound == Frames!NoGaps /\ Frames!IteratorWalks /\ Frames!GetMatchesIterator

(* tt_queue_t: the frames are a sequence that changes at its ends. *)
DequeSpec == Frames!DequeSpec

(* tt_buf_t: the positions are as TT_BUF_CHECK() asserts, and the readable     *)
(* bytes after a call are what that call is to make of those before it, though *)
(* the array grows, moves and is refined in between.  Left out is what the     *)
(* code does wrong, tt_buf_compress() where it is not Compressible.            *)
BufferSound == Bytes!Checked /\ (subject = "buffer" => Bytes!Contents)

(* tt_slab_t: every object lies in a frame that is there, and is free or used, *)
(* and the counts tt_slab_destroy() goes by are right.                         *)
SlabSound == Slabs!Backed /\ Slabs!RefsCount

(* tt_hashmap_t: every node is found by its key, and tt_hmap_iter_next() and   *)
(* tt_hmap_foreach() visit every node that stays, once, while others than the  *)
(* one they will visit next come and go.                                       *)
MapSound == Map!Finds /\ Map!WalkComplete
=============================================================================
