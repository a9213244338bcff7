------------------------------ MODULE SocketIo ------------------------------
(***************************************************************************)
(* Sockets on Linux (native/linux-gnu/tt_socket_native.c): the calls of     *)
(* fibers that wait for a socket, the one-shot registrations in epoll, and  *)
(* the handlers the poller calls.  One task.                                *)
(*                                                                          *)
(* A call keeps its io event on the stack of its fiber and gives epoll a    *)
(* pointer to it.  A fiber in recv or accept is also woken by fiber events  *)
(* and timers: it then takes the pointer back with tt_ep_unread() and       *)
(* returns.  What the kernel does (data, connections, errors, room to send) *)
(* happens at any time.  recvfrom and sendto are recv and send with an      *)
(* address; the ipc channels have the same code.                            *)
(***************************************************************************)
EXTENDS Naturals, Sequences

CONSTANTS Fiber, Main,
          Stream,    \* sockets to connect, to send and to receive with
          Listener,  \* listening sockets
          Null,      \* &__s_null_io_ev
          Gone,      \* a pointer to the io event of a call that has returned
          Box,       \* the io event of the poller itself
          NoSkt,
          BufLen,    \* the len of a recv
          MsgLen,    \* the len of a send
          Room,      \* what fits into a send buffer
          MaxIn,     \* bound: data or connections that wait at a socket
          MaxOps,    \* bound: calls a fiber makes
          MaxMail    \* bound: events that wait for a fiber

Skt == Stream \cup Listener

ASSUME SocketAssumption ==
    /\ Stream \cap Listener = {}
    /\ NoSkt \notin Skt
    /\ {Main, Null, Gone, Box} \cap Fiber = {}
    /\ Null # Gone /\ Null # Box /\ Gone # Box
    /\ {BufLen, MsgLen, Room} \subseteq Nat \ {0}
    /\ {MaxIn, MaxOps, MaxMail} \subseteq Nat

VARIABLES
    run, ready,         \* the executing fiber, and those that could
    call,               \* call[f]: the io event of f's call
    ret,                \* ret[f]: what f's last call returned, until f calls again
    mail, tmr,          \* fiber events, and an expired timer, f has not received
    ops,                \* calls f has made
    batch,              \* events of epoll_wait() the main fiber has not handled:
                        \* the pointer, and io_result
    box,                \* events of other tasks in the poller's list
    reg,                \* reg[s]: what s is registered for, and the pointer
    link, in, room,     \* the socket in the kernel
    owed, owing         \* data taken in for, and sent for, calls in progress

kernel == <<link, in, room>>
own == <<mail, tmr, ops>>
vars == <<run, ready, call, ret, own, batch, box, reg, kernel, owed, owing>>

\* n: the bytes received or sent so far
NoCall == [op |-> "none", skt |-> NoSkt, done |-> FALSE, result |-> "FAIL", n |-> 0]

NoRet == [op |-> "none", result |-> "FAIL", n |-> 0, fev |-> FALSE, tmr |-> FALSE]

\* tt_skt_create_ntv(): a new socket is in epoll for EPOLLRDHUP.
Idle == [want |-> "hup", ptr |-> Null]

Init ==
    /\ run \in Fiber
    /\ ready = Fiber \ {run}
    /\ call = [f \in Fiber |-> NoCall]
    /\ ret = [f \in Fiber |-> NoRet]
    /\ mail = [f \in Fiber |-> 0]
    /\ tmr = [f \in Fiber |-> FALSE]
    /\ ops = [f \in Fiber |-> 0]
    /\ batch = <<>>
    /\ box = <<>>
    /\ reg = [s \in Skt |-> Idle]
    /\ link = [s \in Skt |-> "new"]
    /\ in = [s \in Skt |-> 0]
    /\ room = [s \in Skt |-> Room]
    /\ owed = [s \in Skt |-> 0]
    /\ owing = [s \in Skt |-> 0]

Lesser(a, b) == IF a < b THEN a ELSE b

\* f is suspended in a call.
Waits(f) == call[f].op \notin {"none", "ended"} /\ run # f

\* f->recving
Recving(f) == Waits(f) /\ call[f].op \in {"recv", "accept", "wait"}

Woken(f) == mail[f] > 0 \/ tmr[f]

\* Another task has sent f an event.
Coming(f) == \E i \in DOMAIN box : box[i] = f

-----------------------------------------------------------------------------
(* The fibers.                                                              *)

\* The running fiber gives up control: to one that is ready, else to the main fiber.
Suspend ==
    /\ run' \in IF ready = {} THEN {Main} ELSE ready
    /\ ready' = ready \ {run'}

\* f executes its own code and calls.
Calls(f) ==
    /\ run = f
    /\ call[f].op = "none"
    /\ ops[f] < MaxOps
    /\ ops' = [ops EXCEPT ![f] = @ + 1]

\* Nobody waits for s: a socket has one registration, so it serves one fiber at
\* a time.
Unused(s) == \A f \in Fiber : call[f].skt # s

\* tt_fiber_recv(f, TT_FALSE): one event and one timer, if they are there.
Take(f) ==
    /\ mail' = [mail EXCEPT ![f] = IF @ > 0 THEN @ - 1 ELSE 0]
    /\ tmr' = [tmr EXCEPT ![f] = FALSE]

Forget(f) == ret' = [ret EXCEPT ![f] = NoRet]

\* The call registers its io event and suspends.
Register(f, op, s, want) ==
    /\ call' = [call EXCEPT ![f] = [NoCall EXCEPT !.op = op, !.skt = s]]
    /\ reg' = [reg EXCEPT ![s] = [want |-> want, ptr |-> f]]
    /\ Forget(f)
    /\ Suspend
    /\ UNCHANGED <<mail, tmr>>

\* A call that returns at once.
AtOnce(f, op, result, fev, exp) ==
    /\ ret' = [ret EXCEPT ![f] = [NoRet EXCEPT !.op = op, !.result = result,
                                               !.fev = fev, !.tmr = exp]]
    /\ UNCHANGED <<run, ready, call, reg>>

\* tt_skt_recv_ntv() and tt_skt_accept_ntv() up to their wait: what was sent to the
\* fiber comes first (accept then returns NULL).
ReadCall(f, op, s) ==
    /\ Calls(f)
    /\ Unused(s)
    /\ IF Woken(f)
       THEN /\ AtOnce(f, op, IF op = "recv" THEN "SUCCESS" ELSE "FAIL", mail[f] > 0, tmr[f])
            /\ Take(f)
       ELSE Register(f, op, s, "read")
    /\ UNCHANGED <<batch, box, kernel, owed, owing>>

tt_skt_recv_ntv(f, s) ==
    /\ s \in Stream
    /\ link[s] \in {"up", "fin", "reset"}
    /\ ReadCall(f, "recv", s)

tt_skt_accept_ntv(f, s) == s \in Listener /\ ReadCall(f, "accept", s)

tt_skt_send_ntv(f, s) ==
    /\ s \in Stream
    /\ link[s] \in {"up", "fin", "reset"}
    /\ Calls(f)
    /\ Unused(s)
    /\ Register(f, "send", s, "write")
    /\ UNCHANGED <<batch, box, kernel, owed, owing>>

tt_skt_connect_ntv(f, s) ==
    /\ s \in Stream
    /\ link[s] = "new"
    /\ Calls(f)
    /\ Unused(s)
    /\ \/ /\ link' = [link EXCEPT ![s] = "up"]
          /\ AtOnce(f, "connect", "SUCCESS", FALSE, FALSE)
          /\ UNCHANGED <<mail, tmr>>
       \/ /\ AtOnce(f, "connect", "FAIL", FALSE, FALSE)
          /\ UNCHANGED <<link, mail, tmr>>
       \/ /\ link' = [link EXCEPT ![s] = "pending"]
          /\ Register(f, "connect", s, "write")
    /\ UNCHANGED <<batch, box, in, room, owed, owing>>

\* tt_fiber_recv(f, TT_TRUE).  A fiber that knows of events to come waits for them,
\* whatever the bound.
tt_fiber_recv(f) ==
    /\ run = f
    /\ call[f].op = "none"
    /\ ops[f] < MaxOps \/ Coming(f)
    /\ ops' = [ops EXCEPT ![f] = Lesser(@ + 1, MaxOps)]
    /\ IF Woken(f) THEN Take(f) /\ UNCHANGED <<run, ready, call>>
       ELSE /\ call' = [call EXCEPT ![f] = [NoCall EXCEPT !.op = "wait"]]
            /\ Suspend
            /\ UNCHANGED <<mail, tmr>>
    /\ Forget(f)
    /\ UNCHANGED <<batch, box, reg, kernel, owed, owing>>

\* tt_fiber_send_ev(g, ev, TT_FALSE) within the task.
tt_fiber_send_ev(f, g) ==
    /\ Calls(f)
    /\ g # f /\ call[g].op # "ended"
    /\ mail[g] < MaxMail
    /\ mail' = [mail EXCEPT ![g] = @ + 1]
    /\ run' = IF Recving(g) THEN g ELSE f
    /\ ready' = IF Recving(g) THEN ready \cup {f} ELSE ready
    /\ Forget(f)
    /\ UNCHANGED <<call, tmr, batch, box, reg, kernel, owed, owing>>

\* The routine of f returns, when nobody is going to send it anything more.
FiberEnds(f) ==
    /\ run = f
    /\ call[f].op = "none"
    /\ ~Coming(f)
    /\ call' = [call EXCEPT ![f] = [NoCall EXCEPT !.op = "ended"]]
    /\ Forget(f)
    /\ mail' = [mail EXCEPT ![f] = 0]
    /\ tmr' = [tmr EXCEPT ![f] = FALSE]
    /\ ops' = [ops EXCEPT ![f] = MaxOps]
    /\ Suspend
    /\ UNCHANGED <<batch, box, reg, kernel, owed, owing>>

-----------------------------------------------------------------------------
(* The part of the calls after the wait: the fiber has been resumed.        *)

\* f's call returns and its io event is no more: pointers to it are left to nothing.
Leave(f, r) ==
    /\ call' = [call EXCEPT ![f] = NoCall]
    /\ reg' = [s \in Skt |-> IF r[s].ptr = f THEN [r[s] EXCEPT !.ptr = Gone] ELSE r[s]]
    /\ batch' = [i \in DOMAIN batch |->
                    IF batch[i].ptr = f THEN [batch[i] EXCEPT !.ptr = Gone] ELSE batch[i]]

\* tt_ep_unread() unless the handler has dealt with the event.
Unread(c) == IF c.done THEN reg ELSE [reg EXCEPT ![c.skt] = Idle]

\* What a recv or accept returns.
Report(f) ==
    [op |-> call[f].op,
     result |-> IF Woken(f) /\ call[f].op = "recv" THEN "SUCCESS" ELSE call[f].result,
     n |-> call[f].n, fev |-> mail[f] > 0, tmr |-> tmr[f]]

ReadReturns(f) ==
    /\ run = f
    /\ call[f].op \in {"recv", "accept"}
    /\ ret' = [ret EXCEPT ![f] = Report(f)]
    /\ owed' = [owed EXCEPT ![call[f].skt] = @ - Report(f).n]
    /\ Leave(f, Unread(call[f]))
    /\ Take(f)
    /\ UNCHANGED <<run, ready, ops, box, kernel, owing>>

WriteReturns(f) ==
    /\ run = f
    /\ call[f].op \in {"send", "connect"}
    /\ ret' = [ret EXCEPT ![f] = [NoRet EXCEPT !.op = call[f].op, !.result = call[f].result,
                                               !.n = call[f].n]]
    /\ owing' = [owing EXCEPT ![call[f].skt] = @ - call[f].n]
    /\ Leave(f, reg)
    /\ UNCHANGED <<run, ready, own, box, kernel, owed>>

WaitReturns(f) ==
    /\ run = f
    /\ call[f].op = "wait"
    /\ Leave(f, reg)
    /\ Take(f)
    /\ UNCHANGED <<run, ready, ret, ops, box, kernel, owed, owing>>

-----------------------------------------------------------------------------
(* The main fiber.                                                          *)

MainRuns == run = Main

\* Wrong variant: several events at a time, as the comment at __EP_EV_NUM offers.
EpEvNum_two == 2

\* __EP_EV_NUM
EpEvNum == 1

\* What epoll reports for s.
Reported(s) ==
    \/ reg[s].want # "off" /\ s \in Stream /\ link[s] \in {"reset", "refused"}
    \/ reg[s].want = "hup" /\ link[s] = "fin"
    \/ reg[s].want = "read" /\ (in[s] > 0 \/ link[s] = "fin")
    \/ reg[s].want = "write" /\ link[s] \in {"up", "fin"} /\ room[s] > 0

\* epoll_wait() returns an event of s, which is disarmed by that (EPOLLONESHOT) ...
PollSocket(s) ==
    /\ MainRuns
    /\ Len(batch) < EpEvNum
    /\ Reported(s)
    /\ batch' = Append(batch, [ptr |-> reg[s].ptr,
                               ok |-> link[s] \notin {"reset", "refused"}])
    /\ reg' = [reg EXCEPT ![s] = [want |-> "off", ptr |-> Null]]
    /\ UNCHANGED <<run, ready, call, ret, own, box, kernel, owed, owing>>

\* ... or the one of the poller's list.
PollBox ==
    /\ MainRuns
    /\ Len(batch) < EpEvNum
    /\ box # <<>>
    /\ \A i \in DOMAIN batch : batch[i].ptr # Box
    /\ batch' = Append(batch, [ptr |-> Box, ok |-> TRUE])
    /\ UNCHANGED <<run, ready, call, ret, own, box, reg, kernel, owed, owing>>

\* tt_io_poller_run_ntv() calls the handler of the next event.
Handles(p) ==
    /\ MainRuns
    /\ batch # <<>>
    /\ Head(batch).ptr = p
    /\ batch' = Tail(batch)

\* __poller_io(): one event for each fiber that has one in the list.
DeliverMail ==
    LET g == Head(box)
    IN  /\ MainRuns
        /\ batch # <<>> /\ Head(batch).ptr = Box
        /\ box' = Tail(box)
        /\ batch' = IF Len(box) = 1 THEN Tail(batch) ELSE batch
        /\ mail' = [mail EXCEPT ![g] = @ + 1]
        /\ run' = IF Recving(g) THEN g ELSE Main
        /\ UNCHANGED <<ready, call, ret, tmr, ops, reg, kernel, owed, owing>>

\* tt_fiber_send_timer(), called by the timer manager before epoll_wait().
TimerExpires(f) ==
    /\ MainRuns
    /\ batch = <<>>
    /\ call[f].op # "ended" /\ ~tmr[f]
    /\ tmr' = [tmr EXCEPT ![f] = TRUE]
    /\ run' = IF Recving(f) THEN f ELSE Main
    /\ UNCHANGED <<ready, call, ret, mail, ops, batch, box, reg, kernel, owed, owing>>

__do_null ==
    /\ Handles(Null)
    /\ UNCHANGED <<run, ready, call, ret, own, box, reg, kernel, owed, owing>>

\* The handler is done: __skt_io() resumes the fiber.
Finish(f, result, n) ==
    /\ call' = [call EXCEPT ![f] = [@ EXCEPT !.done = TRUE, !.result = result, !.n = n]]
    /\ run' = f
    /\ UNCHANGED reg

\* Wrong variant: pos is not kept.
Again_restart(f, want, n) ==
    /\ reg' = [reg EXCEPT ![call[f].skt] = [want |-> want, ptr |-> f]]
    /\ UNCHANGED <<call, run>>

\* EAGAIN: the event is registered again, and the fiber goes on waiting.
Again(f, want, n) ==
    /\ call' = [call EXCEPT ![f].n = n]
    /\ reg' = [reg EXCEPT ![call[f].skt] = [want |-> want, ptr |-> f]]
    /\ UNCHANGED run

\* Wrong variant: the end of the stream is taken for EAGAIN.
AtEnd_again(s) == FALSE

\* recv() returns 0.
AtEnd(s) == link[s] = "fin"

__do_recv(f) ==
    LET s == call[f].skt
        k == Lesser(BufLen, in[s])
    IN  /\ Handles(f)
        /\ call[f].op = "recv"
        /\ IF k > 0 THEN Finish(f, "SUCCESS", k)
           ELSE IF AtEnd(s) THEN Finish(f, "END", 0)
           ELSE IF link[s] = "reset" THEN \E r \in {"END", "FAIL"} : Finish(f, r, 0)
           ELSE Again(f, "read", 0)
        /\ in' = [in EXCEPT ![s] = @ - k]
        /\ owed' = [owed EXCEPT ![s] = @ + k]
        /\ UNCHANGED <<ready, ret, own, box, link, room, owing>>

\* new_skt is NULL without memory; with a failed accept4() or epoll_ctl() it is a
\* structure whose descriptor was never set.
__do_accept(f) ==
    LET s == call[f].skt
    IN  /\ Handles(f)
        /\ call[f].op = "accept"
        /\ \/ Finish(f, "FAIL", 0) /\ UNCHANGED <<in, owed>>
           \/ Finish(f, "UNSET", 0) /\ UNCHANGED owed
              /\ in' \in {in, [in EXCEPT ![s] = IF @ > 0 THEN @ - 1 ELSE 0]}
           \/ /\ in[s] > 0
              /\ Finish(f, "SUCCESS", 1)
              /\ in' = [in EXCEPT ![s] = @ - 1]
              /\ owed' = [owed EXCEPT ![s] = @ + 1]
        /\ UNCHANGED <<ready, ret, own, box, link, room, owing>>

\* The part of the message that is still to be sent.
Left(f) == MsgLen - call[f].n

__do_send(f) ==
    LET s == call[f].skt
        k == IF link[s] = "reset" THEN 0 ELSE Lesser(Left(f), room[s])
        n == call[f].n + k
    IN  /\ Handles(f)
        /\ call[f].op = "send"
        /\ IF k = Left(f) THEN Finish(f, "SUCCESS", n)
           ELSE IF link[s] = "reset"
                THEN \E r \in IF n > 0 THEN {"SUCCESS"} ELSE {"END", "FAIL"} : Finish(f, r, n)
           ELSE Again(f, "write", n)
        /\ room' = [room EXCEPT ![s] = @ - k]
        /\ owing' = [owing EXCEPT ![s] = @ + k]
        /\ UNCHANGED <<ready, ret, own, box, link, in, owed>>

__do_connect(f) ==
    /\ Handles(f)
    /\ call[f].op = "connect"
    /\ Finish(f, IF Head(batch).ok THEN "SUCCESS" ELSE "FAIL", 0)
    /\ UNCHANGED <<ready, ret, own, box, kernel, owed, owing>>

-----------------------------------------------------------------------------
(* The kernel, the peers and the other tasks.                               *)

Arrive(s) ==
    /\ in[s] < MaxIn
    /\ s \in Stream => link[s] = "up"
    /\ in' = [in EXCEPT ![s] = @ + 1]
    /\ UNCHANGED <<link, room, box>>

\* A connection is aborted before it is accepted, a bad datagram is dropped.
Discard(s) ==
    /\ in[s] > 0
    /\ in' = [in EXCEPT ![s] = @ - 1]
    /\ UNCHANGED <<link, room, box>>

PeerCloses(s) ==
    /\ link[s] = "up"
    /\ link' = [link EXCEPT ![s] = "fin"]
    /\ UNCHANGED <<in, room, box>>

PeerResets(s) ==
    /\ link[s] \in {"up", "fin"}
    /\ link' = [link EXCEPT ![s] = "reset"]
    /\ UNCHANGED <<in, room, box>>

PeerReads(s) ==
    /\ room[s] < Room
    /\ room' = [room EXCEPT ![s] = Room]
    /\ UNCHANGED <<link, in, box>>

PeerAnswers(s) ==
    /\ link[s] = "pending"
    /\ \E l \in {"up", "refused"} : link' = [link EXCEPT ![s] = l]
    /\ UNCHANGED <<in, room, box>>

OtherTaskSends(f) ==
    /\ call[f].op # "ended"
    /\ Len(box) + mail[f] < MaxMail
    /\ box' = Append(box, f)
    /\ UNCHANGED kernel

Outside ==
    /\ \/ \E s \in Skt : Arrive(s) \/ Discard(s)
       \/ \E s \in Stream : PeerCloses(s) \/ PeerResets(s) \/ PeerReads(s) \/ PeerAnswers(s)
       \/ \E f \in Fiber : OtherTaskSends(f)
    /\ UNCHANGED <<run, ready, call, ret, own, batch, reg, owed, owing>>

FiberNext(f) ==
    \/ \E s \in Skt : \/ tt_skt_recv_ntv(f, s) \/ tt_skt_accept_ntv(f, s)
                      \/ tt_skt_send_ntv(f, s) \/ tt_skt_connect_ntv(f, s)
    \/ tt_fiber_recv(f)
    \/ \E g \in Fiber : tt_fiber_send_ev(f, g)
    \/ FiberEnds(f)
    \/ ReadReturns(f) \/ WriteReturns(f) \/ WaitReturns(f)

Handle(f) == __do_recv(f) \/ __do_accept(f) \/ __do_send(f) \/ __do_connect(f)

HandlerNext ==
    \/ __do_null
    \/ \E f \in Fiber : Handle(f)
    \/ DeliverMail

Next ==
    \/ \E f \in Fiber : FiberNext(f)
    \/ HandlerNext
    \/ PollBox
    \/ \E s \in Skt : PollSocket(s)
    \/ \E f \in Fiber : TimerExpires(f)
    \/ Outside

Spec == Init /\ [][Next]_vars

\* The thread runs, and epoll puts a descriptor that it reported behind the others.
Fairness ==
    /\ \A f \in Fiber : WF_vars(FiberNext(f))
    /\ WF_vars(HandlerNext)
    /\ SF_vars(PollBox)
    /\ \A s \in Skt : SF_vars(PollSocket(s))

FairSpec == Spec /\ Fairness

-----------------------------------------------------------------------------

Ops == {"none", "recv", "accept", "send", "connect", "wait", "ended"}

Results == {"SUCCESS", "FAIL", "END", "UNSET"}

Reads(f) == call[f].op \in {"recv", "accept"}

Writes(f) == call[f].op \in {"send", "connect"}

(* The types of the variables. *)
TypeOK ==
    /\ run \in Fiber \cup {Main}
    /\ ready \subseteq Fiber
    /\ call \in [Fiber -> [op : Ops, skt : Skt \cup {NoSkt}, done : BOOLEAN,
                           result : Results, n : Nat]]
    /\ ret \in [Fiber -> [op : Ops, result : Results, n : Nat, fev : BOOLEAN, tmr : BOOLEAN]]
    /\ mail \in [Fiber -> Nat]
    /\ tmr \in [Fiber -> BOOLEAN]
    /\ ops \in [Fiber -> 0 .. MaxOps]
    /\ batch \in Seq([ptr : Fiber \cup {Null, Gone, Box}, ok : BOOLEAN])
    /\ box \in Seq(Fiber)
    /\ reg \in [Skt -> [want : {"off", "hup", "read", "write"},
                        ptr : Fiber \cup {Null, Gone}]]
    /\ link \in [Skt -> {"new", "pending", "up", "fin", "reset", "refused"}]
    /\ in \in [Skt -> 0 .. MaxIn]
    /\ room \in [Skt -> 0 .. Room]
    /\ owed \in [Skt -> Nat]
    /\ owing \in [Skt -> Nat]

(* A fiber is scheduled once: a ready fiber is in its own code, and not in a   *)
(* call.                                                                       *)
ScheduledOnce == run \notin ready /\ \A f \in ready : call[f].op = "none"

(* Sockets and calls: a call on a socket has it for itself, and a fiber that  *)
(* writes is resumed by its handler only.                                     *)
OneCaller ==
    /\ \A f \in Fiber : Reads(f) \/ Writes(f) <=> call[f].skt \in Skt
    /\ \A f, g \in Fiber : call[f].skt = call[g].skt /\ call[f].skt \in Skt => f = g
    /\ \A f \in Fiber : Waits(f) => ~call[f].done
    /\ \A f \in Fiber : run = f /\ Writes(f) => call[f].done

(* A pointer to an io event is in one place, epoll or the array of the poller, *)
(* and leads to a call that has not been served.                               *)
OnePointer ==
    /\ \A s \in Skt, f \in Fiber :
          reg[s].ptr = f => /\ call[f].skt = s /\ ~call[f].done
                            /\ \A i \in DOMAIN batch : batch[i].ptr # f
    /\ \A i \in DOMAIN batch, f \in Fiber :
          batch[i].ptr = f => call[f].skt \in Skt /\ ~call[f].done

(* The main fiber handles one event at a time: fibers run in between only     *)
(* while it goes through the list of the poller.                              *)
OneEvent ==
    /\ Len(batch) <= 1
    /\ \A i \in DOMAIN batch :
          IF batch[i].ptr = Box THEN box # <<>> ELSE run = Main

(* No handler touches the io event of a call that has returned: when a fiber   *)
(* leaves recv or accept because of an event or a timer, neither epoll nor the *)
(* array the poller works through holds a pointer into its stack.              *)
NoStaleEvent ==
    /\ \A s \in Skt : reg[s].ptr # Gone
    /\ \A i \in DOMAIN batch : batch[i].ptr # Gone

(* A fiber that waits for a socket will hear of it: its io event is registered *)
(* for what it waits for, or is about to be handled; and nothing it would wake *)
(* up for was sent to it.                                                      *)
NoLostWait ==
    \A f \in Fiber :
        /\ Waits(f) /\ call[f].skt # NoSkt =>
              \/ reg[call[f].skt] =
                    [want |-> IF Reads(f) THEN "read" ELSE "write", ptr |-> f]
              \/ \E i \in DOMAIN batch : batch[i].ptr = f
        /\ Recving(f) => ~Woken(f)

(* A recv that succeeds has brought data, an event or a timer; one that has    *)
(* brought neither says why.  An accept that succeeds has brought one          *)
(* connection, and one that returns NULL has none.                             *)
ReturnsSomething ==
    \A f \in Fiber :
        /\ ret[f].op = "recv" =>
              (ret[f].result = "SUCCESS" <=> ret[f].n > 0 \/ ret[f].fev \/ ret[f].tmr)
        /\ ret[f].op = "accept" => (ret[f].result = "SUCCESS" <=> ret[f].n = 1)

(* What a call has to its credit: nothing until its handler was called, except *)
(* for a send that goes on; a recv succeeds with data only, an accept with one *)
(* connection.                                                                 *)
Credit ==
    \A f \in Fiber :
        /\ Reads(f) /\ ~call[f].done => call[f].n = 0
        /\ ~Reads(f) /\ call[f].op # "send" => call[f].n = 0
        /\ call[f].op = "send" => call[f].n <= MsgLen
        /\ call[f].op = "recv" => (call[f].result = "SUCCESS" <=> call[f].n > 0)
        /\ call[f].op = "accept" => (call[f].result = "SUCCESS" <=> call[f].n = 1)

(* What the kernel gave to a call on a socket, or took from it, is what the   *)
(* call knows of and reports when it returns: a send that is interrupted by   *)
(* EAGAIN goes on where it stopped, and no data is dropped with a call that   *)
(* an event ends.  (A connection that was taken and could not be put into     *)
(* epoll is closed again and not counted: UNSET in __do_accept().)            *)
Accounted ==
    \A s \in Skt :
        /\ owed[s] > 0 => \E f \in Fiber : call[f].skt = s /\ Reads(f)
        /\ owing[s] > 0 => \E f \in Fiber : call[f].skt = s /\ call[f].op = "send"
        /\ \A f \in Fiber : call[f].skt = s =>
              /\ Reads(f) => owed[s] = call[f].n
              /\ call[f].op = "send" => owing[s] = call[f].n

\* f's call could be served.
Servable(f) ==
    /\ Waits(f) /\ call[f].skt # NoSkt
    /\ LET s == call[f].skt
       IN  \/ link[s] \in {"reset", "refused"}
           \/ call[f].op \in {"recv", "accept"} /\ (in[s] > 0 \/ link[s] = "fin")
           \/ call[f].op = "connect" /\ link[s] # "pending"
           \/ call[f].op = "send" /\ room[s] > 0

(* A call that can be served returns, whatever the other fibers and sockets    *)
(* do.                                                                         *)
CallsReturn == \A f \in Fiber : Servable(f) ~> ~Servable(f)

(* Registrations and waits (__do_recv(), __do_accept(), the calls that wait    *)
(* for them): no pointer to a call that is over, no call without a wakeup.     *)
SocketInv ==
    /\ TypeOK /\ ScheduledOnce /\ OneCaller /\ OnePointer /\ OneEvent
    /\ NoStaleEvent /\ NoLostWait

(* Results: the bytes recv and send report, and the connection an accept       *)
(* returns, are what the kernel moved for the call.                            *)
Accounting == ReturnsSomething /\ Credit /\ Accounted
=============================================================================
