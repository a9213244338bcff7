------------------------------ MODULE IoPoller ------------------------------
(***************************************************************************)
(* The io poller of one task on Linux: tt_io_poller_ntv_t of                *)
(* native/linux-gnu/tt_io_poller_native.c.                                  *)
(*                                                                          *)
(* Two channels lead into it.  poller_ev carries the messages of other      *)
(* tasks and the request to exit (tt_io_poller_send, tt_io_poller_exit);    *)
(* worker_ev carries io finished elsewhere (tt_io_poller_finish).  A sender *)
(* pushes its event under the lock of the list and then, after the unlock,  *)
(* adds 1 to the eventfd of the channel; the thread of the task sleeps in   *)
(* epoll_wait(), clears the eventfd, takes the whole list under the lock    *)
(* and handles one event after the other.  Each of these is a step of its   *)
(* own here, since the threads interleave between them.                     *)
(*                                                                          *)
(* An event is an abstract value.  It may be sent again once it has been    *)
(* handled.  The counter of an eventfd has 64 bits: it would refuse a write *)
(* after 2^64 - 2 unread ones, which is out of reach.                       *)
(***************************************************************************)
EXTENDS TTList, FiniteSets

CONSTANTS Sender,    \* threads that send to this poller
          MsgEv,     \* messages for the fibers or the task (tt_io_poller_send)
          ExitEv,    \* requests to exit (tt_io_poller_exit)
          WorkEv,    \* finished io (tt_io_poller_finish)
          None       \* no event, no channel

PollerEv == MsgEv \cup ExitEv \cup WorkEv

Channel == {"poller", "worker"}

ASSUME PollerAssumption ==
    /\ None \notin PollerEv \cup Channel
    /\ WorkEv \cap (MsgEv \cup ExitEv) = {}
    /\ MsgEv \cap ExitEv = {}

VARIABLES
    queue,    \* queue[c]: sys_iop->poller_ev and sys_iop->worker_ev
    evfd,     \* evfd[c]: the counters of poller_evfd and worker_evfd
    owes,     \* owes[s]: the channel whose eventfd sender s has yet to write
    at,       \* where the task's thread is
    chan,     \* the channel it handles
    dl,       \* the local list dl of the handler
    handled   \* the event it handled last

pollerVars == <<queue, evfd, owes, at, chan, dl, handled>>

\* The places of the task's thread: outside of the handlers (its fibers run, or
\* it sleeps in epoll_wait), before read(), before tt_dlist_move(), in the loop
\* over dl, after its main loop, and after tt_io_poller_destroy().
Place == {"wait", "read", "move", "handle", "stopped", "destroyed"}

\* tt_io_poller_create_ntv(), when it succeeds.
PollerInit ==
    /\ queue = [c \in Channel |-> <<>>]
    /\ evfd = [c \in Channel |-> 0]
    /\ owes = [s \in Sender |-> None]
    /\ at = "wait"
    /\ chan = None
    /\ dl = <<>>
    /\ handled = None

-----------------------------------------------------------------------------

\* An event is free when it is linked into no list.
Free(e) == e \notin Nodes(dl) /\ \A c \in Channel : e \notin Nodes(queue[c])

\* Wrong variant: the newest event goes first.
Push_head(s, c, e) ==
    /\ at # "destroyed"
    /\ owes[s] = None
    /\ Free(e)
    /\ queue' = [queue EXCEPT ![c] = tt_list_push_head(@, e)]
    /\ owes' = [owes EXCEPT ![s] = c]
    /\ UNCHANGED <<evfd, at, chan, dl, handled>>

\* The part the three functions of a sender have in common: the push under the
\* lock.  The eventfd is written later.
Push(s, c, e) ==
    /\ at # "destroyed"
    /\ owes[s] = None
    /\ Free(e)
    /\ queue' = [queue EXCEPT ![c] = tt_list_push_tail(@, e)]
    /\ owes' = [owes EXCEPT ![s] = c]
    /\ UNCHANGED <<evfd, at, chan, dl, handled>>

tt_io_poller_send_ntv(s, e) == e \in MsgEv /\ Push(s, "poller", e)

\* (Without memory for the event tt_io_poller_exit_ntv() fails: no change.)
tt_io_poller_exit_ntv(s, e) == e \in ExitEv /\ Push(s, "poller", e)

tt_io_poller_finish_ntv(s, e) == e \in WorkEv /\ Push(s, "worker", e)

\* Wrong variant: a sender that finds more than its own event in the list relies
\* on the others to write.
WriteEvfd_ifAlone(s) ==
    /\ owes[s] # None
    /\ owes' = [owes EXCEPT ![s] = None]
    /\ evfd' = IF at = "destroyed" \/ Len(queue[owes[s]]) > 1 THEN evfd
               ELSE [evfd EXCEPT ![owes[s]] = @ + 1]
    /\ UNCHANGED <<queue, at, chan, dl, handled>>

\* The write() that ends each of the three; it is retried after a signal.  When
\* the poller was destroyed in between the descriptor is closed and the write
\* fails: the sender returns without any effect on the poller.
WriteEvfd(s) ==
    /\ owes[s] # None
    /\ owes' = [owes EXCEPT ![s] = None]
    /\ evfd' = IF at = "destroyed" THEN evfd
               ELSE [evfd EXCEPT ![owes[s]] = @ + 1]
    /\ UNCHANGED <<queue, at, chan, dl, handled>>

-----------------------------------------------------------------------------

\* tt_io_poller_run_ntv(): epoll_wait() reports one ready descriptor
\* (__EP_EV_NUM is 1).  Sockets are left out, and so are a timeout and a signal,
\* which change nothing.
tt_io_poller_run_ntv(c) ==
    /\ at = "wait"
    /\ evfd[c] > 0
    /\ at' = "read"
    /\ chan' = c
    /\ UNCHANGED <<queue, evfd, owes, dl, handled>>

\* __poller_io() and __worker_io(): read() clears the counter ...
ReadEvfd ==
    /\ at = "read"
    /\ evfd' = [evfd EXCEPT ![chan] = 0]
    /\ at' = "move"
    /\ UNCHANGED <<queue, owes, chan, dl, handled>>

\* ... tt_dlist_move() takes the list under the lock ...
MoveList ==
    /\ at = "move"
    /\ dl' = dl \o queue[chan]
    /\ queue' = [queue EXCEPT ![chan] = <<>>]
    /\ at' = "handle"
    /\ UNCHANGED <<evfd, owes, chan, handled>>

\* ... and the loop hands over the events one by one: to the fiber an event is
\* addressed to or waits for it, or to the task.
HandleEv ==
    /\ at = "handle"
    /\ dl # <<>>
    /\ Head(dl) \notin ExitEv
    /\ handled' = Head(dl)
    /\ dl' = Tail(dl)
    /\ UNCHANGED <<queue, evfd, owes, at, chan>>

\* Wrong variant: the handler frees the exit event and goes on.
HandleExit_goesOn ==
    /\ at = "handle"
    /\ dl # <<>>
    /\ Head(dl) \in ExitEv
    /\ handled' = Head(dl)
    /\ dl' = Tail(dl)
    /\ UNCHANGED <<queue, evfd, owes, at, chan>>

\* The exit event ends the main loop at once.  The events behind it in dl are
\* forgotten.
HandleExit ==
    /\ at = "handle"
    /\ dl # <<>>
    /\ Head(dl) \in ExitEv
    /\ handled' = Head(dl)
    /\ dl' = <<>>
    /\ at' = "stopped"
    /\ chan' = None
    /\ UNCHANGED <<queue, evfd, owes>>

HandlerReturns ==
    /\ at = "handle"
    /\ dl = <<>>
    /\ at' = "wait"
    /\ chan' = None
    /\ UNCHANGED <<queue, evfd, owes, dl, handled>>

\* __task_routine(): the main loop also ends when the last fiber has ended,
\* whatever is in the lists.
FibersEnded ==
    /\ at = "wait"
    /\ at' = "stopped"
    /\ UNCHANGED <<queue, evfd, owes, chan, dl, handled>>

\* tt_task_wait(), after the join: tt_io_poller_destroy_ntv().  A list that is
\* not empty is reported (TT_FATAL logs) and then ignored.
tt_io_poller_destroy_ntv ==
    /\ at = "stopped"
    /\ at' = "destroyed"
    /\ UNCHANGED <<queue, evfd, owes, chan, dl, handled>>

SenderNext(s) ==
    \/ \E e \in PollerEv : \/ tt_io_poller_send_ntv(s, e)
                        \/ tt_io_poller_exit_ntv(s, e)
                        \/ tt_io_poller_finish_ntv(s, e)
    \/ WriteEvfd(s)

TaskNext ==
    \/ \E c \in Channel : tt_io_poller_run_ntv(c)
    \/ ReadEvfd
    \/ MoveList
    \/ HandleEv
    \/ HandleExit
    \/ HandlerReturns
    \/ FibersEnded
    \/ tt_io_poller_destroy_ntv

PollerNext == (\E s \in Sender : SenderNext(s)) \/ TaskNext

PollerSpec == PollerInit /\ [][PollerNext]_pollerVars

\* Threads are scheduled: a sender that pushed goes on to write, and the task's
\* thread goes on as long as its fibers give control back.  epoll puts a level
\* triggered descriptor it reported behind the other ready ones, so a
\* descriptor that is ready again and again is reported (SF).
PollerFairness ==
    /\ \A s \in Sender : WF_pollerVars(WriteEvfd(s))
    /\ \A c \in Channel : SF_pollerVars(tt_io_poller_run_ntv(c))
    /\ WF_pollerVars(ReadEvfd)
    /\ WF_pollerVars(MoveList)
    /\ WF_pollerVars(HandleEv)
    /\ WF_pollerVars(HandleExit)
    /\ WF_pollerVars(HandlerReturns)

PollerFairSpec == PollerSpec /\ PollerFairness

-----------------------------------------------------------------------------

(* The types of the poller's fields. *)
PollerTypeOK ==
    /\ queue \in [Channel -> Seq(PollerEv)]
    /\ evfd \in [Channel -> Nat]
    /\ owes \in [Sender -> Channel \cup {None}]
    /\ at \in Place
    /\ chan \in Channel \cup {None}
    /\ dl \in Seq(PollerEv)
    /\ handled \in PollerEv \cup {None}

(* No wakeup is lost: while a list holds an event that nobody will look at on  *)
(* his own account, its eventfd is readable or a sender is about to write it.  *)
(* The order "push, then write" of the senders and "read, then move" of the    *)
(* handler is what makes it so.                                                *)
NoLostSignal ==
    \A c \in Channel :
        queue[c] # <<>> /\ at # "destroyed" =>
            \/ evfd[c] > 0
            \/ \E s \in Sender : owes[s] = c
            \/ at = "move" /\ chan = c

(* TT_ASSERT(n == sizeof(uint64_t)) in __poller_io() and __worker_io(): the    *)
(* non-blocking read() always finds the counter that epoll reported.           *)
ReadFindsSignal == at = "read" => chan \in Channel /\ evfd[chan] > 0

(* Events do not change channels, an event is in one list at most, once, and   *)
(* dl is used by a handler only.                                               *)
ListsInv ==
    /\ \A c \in Channel :
          /\ Distinct(queue[c])
          /\ Nodes(queue[c]) \cap Nodes(dl) = {}
          /\ Nodes(queue[c]) \subseteq
                (IF c = "worker" THEN WorkEv ELSE MsgEv \cup ExitEv)
    /\ Distinct(dl)
    /\ dl # <<>> => at = "handle"
    /\ at \in {"read", "move", "handle"} <=> chan # None
    /\ at = "handle" => Nodes(dl) \subseteq
           (IF chan = "worker" THEN WorkEv ELSE MsgEv \cup ExitEv)

(* The inductive invariant: no event is in two lists, none waits for a wakeup  *)
(* nobody will give, and the read() of a handler finds the counter it asserts, *)
(* for each of the channels of tt_io_poller_run_ntv().                         *)
PollerInv == PollerTypeOK /\ ListsInv /\ NoLostSignal /\ ReadFindsSignal

\* The main loop has ended.
Stopped == at \in {"stopped", "destroyed"}

(* The poller implements the mailbox: what a channel holds is the list the     *)
(* handler took and has not finished, followed by the list of the senders.     *)
Box(c) == IF c = chan THEN dl \o queue[c] ELSE queue[c]

Mail == INSTANCE Mailbox
        WITH Event <- PollerEv, box <- [c \in Channel |-> Box(c)],
             taken <- handled, open <- ~Stopped, NoEvent <- None

MailboxSpec == Mail!Spec

(* An event that a sender put into a list does not stay there: it is handled   *)
(* (an implementation of the mailbox takes it out in no other way) unless the  *)
(* main loop ends first, and a request to exit does end the main loop.         *)
EventsHandled ==
    /\ \A e \in PollerEv : ~Free(e) ~> (Free(e) \/ Stopped)
    /\ \A e \in ExitEv : ~Free(e) ~> Stopped
=============================================================================
