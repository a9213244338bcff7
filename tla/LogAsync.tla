------------------------------ MODULE LogAsync ------------------------------
(***************************************************************************)
(* The asynchronous log io: source/log/io/tt_log_io_async.c.               *)
(*                                                                         *)
(* Threads that log put a length and a text into a buffer, under a spin     *)
(* lock, and post an event; a fiber in a task of its own exchanges that     *)
(* buffer with an empty one for every event, and hands the entries it finds *)
(* to the log ios behind it.  None of the results of the puts is looked at. *)
(*                                                                         *)
(* An entry is its number in the order of the lock.  The event queue is     *)
(* module TaskEvents' (in order, nothing lost).                             *)
(***************************************************************************)
EXTENDS Naturals, Sequences

CONSTANTS Threads,   \* how many threads log, each through a log manager of its own
          MaxEntry,  \* bound of the entries
          MaxNoMem   \* bound of the allocations that fail

VARIABLES
    apc,        \* the io fiber: "off", "recv" (waits), "drain" (empties obuf)
    sending,    \* how many threads are between put and post
    closing,    \* the exit event has been sent
    ibuf, obuf, \* the two buffers: sequences of [e, whole]
    evq,        \* the events sent to the io fiber
    puts,       \* how many entries were put
    announced,  \* the entries that were in the buffer when an event was posted
    spoiled,    \* the entries in a buffer that was misread
    nomem

vars == <<apc, sending, closing, ibuf, obuf, evq, puts, announced, spoiled, nomem>>

\* What is written instead when entry e is misread.
Garbage(e) == MaxEntry + e

Held(buf) == {buf[i].e : i \in DOMAIN buf}

NoMem == nomem < MaxNoMem /\ nomem' = nomem + 1

Init ==
    /\ apc = "off" /\ sending = 0 /\ closing = FALSE
    /\ ibuf = <<>> /\ obuf = <<>> /\ evq = <<>>
    /\ puts = 0 /\ announced = {} /\ spoiled = {}
    /\ nomem = 0

tt_logio_async_create ==
    /\ apc = "off"
    /\ apc' = "recv"
    /\ ibuf' = <<>> /\ obuf' = <<>> /\ evq' = <<>> /\ closing' = FALSE
    /\ UNCHANGED <<sending, puts, announced, spoiled, nomem>>

\* Wrong variant: the entry goes where the io fiber reads.
Frame_front(buf, f) == <<f>> \o buf

\* tt_buf_put_u32() and tt_buf_put()
Frame(buf, f) == Append(buf, f)

\* __lio_async_output() with the lock held.  Without memory only one of the two
\* puts may take effect, or none.
Put ==
    /\ apc # "off" /\ ~closing
    /\ sending < Threads
    /\ puts < MaxEntry
    /\ puts' = puts + 1
    /\ \/ /\ ibuf' = Frame(ibuf, [e |-> puts + 1, whole |-> TRUE])
          /\ UNCHANGED <<spoiled, nomem>>
       \/ /\ NoMem
          /\ ibuf' \in {Append(ibuf, [e |-> puts + 1, whole |-> FALSE]), ibuf}
          /\ spoiled' = spoiled \cup {puts + 1}
    /\ sending' = sending + 1
    /\ UNCHANGED <<apc, closing, obuf, evq, announced>>

\* The rest of it: the event, or a message that the log may be delayed.
Post ==
    /\ sending > 0
    /\ \/ /\ evq' = Append(evq, "data")
          /\ announced' = announced \cup Held(ibuf)
          /\ UNCHANGED nomem
       \/ /\ NoMem
          /\ UNCHANGED <<evq, announced>>
    /\ sending' = sending - 1
    /\ UNCHANGED <<apc, closing, ibuf, obuf, puts, spoiled>>

\* __lio_async_destroy() sends the exit event and waits.
__lio_async_destroy ==
    /\ apc # "off" /\ ~closing
    /\ sending = 0
    /\ closing' = TRUE
    /\ evq' = Append(evq, "exit")
    /\ UNCHANGED <<apc, sending, ibuf, obuf, puts, announced, spoiled, nomem>>

\* Wrong variant: the exit event overtakes the data events.
ExitFirst_any == "exit" \in {evq[i] : i \in DOMAIN evq}

\* fev->ev == __EV_EXIT
ExitFirst == evq # <<>> /\ Head(evq) = "exit"

\* __logio_async(): an event of data, the buffers are exchanged ...
Swap ==
    /\ apc = "recv"
    /\ evq # <<>> /\ ~ExitFirst
    /\ evq' = Tail(evq)
    /\ obuf' = ibuf /\ ibuf' = obuf
    /\ apc' = "drain"
    /\ UNCHANGED <<sending, closing, puts, announced, spoiled, nomem>>

\* ... and an entry that is read as it was put goes to the log ios.
Deliver ==
    /\ apc = "drain"
    /\ obuf # <<>> /\ Head(obuf).whole
    /\ obuf' = Tail(obuf)
    /\ UNCHANGED <<apc, sending, closing, ibuf, evq, puts, announced, spoiled, nomem>>

\* From a half put on the lengths are wrong: something else is written, and what
\* follows is read from the middle ...
Misread ==
    /\ apc = "drain"
    /\ obuf # <<>> /\ ~Head(obuf).whole
    /\ spoiled' = spoiled \cup Held(obuf)
    /\ \E k \in 2 .. Len(obuf) + 1 :
          obuf' = [i \in 1 .. Len(obuf) + 1 - k |-> [e |-> obuf[i + k - 1].e, whole |-> FALSE]]
    /\ UNCHANGED <<apc, sending, closing, ibuf, evq, puts, announced, nomem>>

\* ... until a length is larger than what is left.
Inconsistent ==
    /\ apc = "drain"
    /\ obuf # <<>> /\ ~Head(obuf).whole
    /\ spoiled' = spoiled \cup Held(obuf)
    /\ obuf' = <<>>
    /\ UNCHANGED <<apc, sending, closing, ibuf, evq, puts, announced, nomem>>

\* Wrong variant: the fiber waits for events only if nothing was put meanwhile.
DrainDone_idle ==
    /\ apc = "drain"
    /\ obuf = <<>> /\ ibuf = <<>>
    /\ apc' = "recv"
    /\ UNCHANGED <<sending, closing, ibuf, obuf, evq, puts, announced, spoiled, nomem>>

\* The output buffer is empty; the event is finished.
DrainDone ==
    /\ apc = "drain"
    /\ obuf = <<>>
    /\ apc' = "recv"
    /\ UNCHANGED <<sending, closing, ibuf, obuf, evq, puts, announced, spoiled, nomem>>

\* The exit event: the fiber and with it the task end, __lio_async_destroy()
\* goes on and frees buffers and log ios.
ExitRecv ==
    /\ apc = "recv"
    /\ ExitFirst
    /\ apc' = "off"
    /\ ibuf' = <<>> /\ evq' = <<>> /\ closing' = FALSE
    /\ UNCHANGED <<sending, obuf, puts, announced, spoiled, nomem>>

\* The process dies, and what was in the buffers is gone.
Crash ==
    /\ apc' = "off" /\ sending' = 0 /\ closing' = FALSE
    /\ ibuf' = <<>> /\ obuf' = <<>> /\ evq' = <<>>
    /\ announced' = announced \ (Held(ibuf) \cup Held(obuf))
    /\ UNCHANGED <<puts, spoiled, nomem>>

\* The steps of the fiber that call no log io.
IoFiber == Swap \/ Inconsistent \/ DrainDone

-----------------------------------------------------------------------------

Frames == [e : 1 .. MaxEntry, whole : BOOLEAN]

(* The types of the variables. *)
TypeOK ==
    /\ apc \in {"off", "recv", "drain"}
    /\ sending \in 0 .. Threads /\ closing \in BOOLEAN
    /\ ibuf \in Seq(Frames) /\ obuf \in Seq(Frames)
    /\ evq \in Seq({"data", "exit"})
    /\ puts \in 0 .. MaxEntry /\ nomem \in 0 .. MaxNoMem
    /\ announced \subseteq 1 .. puts /\ spoiled \subseteq 1 .. MaxEntry

(* The buffers hold the entries in the order of their puts, the one that is     *)
(* emptied the older ones, and both are empty when no fiber reads them.         *)
InOrder ==
    /\ \A i, j \in DOMAIN obuf : i < j => obuf[i].e < obuf[j].e
    /\ \A i, j \in DOMAIN ibuf : i < j => ibuf[i].e < ibuf[j].e
    /\ \A i \in DOMAIN obuf, j \in DOMAIN ibuf : obuf[i].e < ibuf[j].e
    /\ \A i \in DOMAIN obuf : obuf[i].e <= puts
    /\ \A j \in DOMAIN ibuf : ibuf[j].e <= puts
    /\ apc # "drain" => obuf = <<>>
    /\ apc = "off" => ibuf = <<>>

(* The exit event is the last one, sent when no thread is about to post.        *)
ExitLast ==
    \A i \in DOMAIN evq : evq[i] = "exit" => i = Len(evq) /\ closing /\ sending = 0

(* An entry that was announced is not left without an event: while it is in the *)
(* buffer of the threads, an event of data is on its way.                       *)
EventOnItsWay ==
    Held(ibuf) \cap announced # {} => \E i \in DOMAIN evq : evq[i] = "data"
=============================================================================
