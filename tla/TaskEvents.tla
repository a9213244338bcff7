----------------------------- MODULE TaskEvents -----------------------------
(***************************************************************************)
(* Tasks, the fibers they were given, and the events fibers send each      *)
(* other: source/os/tt_task.c (start, lookup of a fiber, exit, main loop)  *)
(* and source/os/tt_fiber_event.c (send, receive, finish), with the        *)
(* handlers of native/linux-gnu/tt_io_poller_native.c that deliver events  *)
(* across threads.                                                         *)
(*                                                                         *)
(* Threads interleave; the fibers of one thread run one at a time.  An     *)
(* action is what the executing fiber, or the main fiber, of one thread    *)
(* does up to the next call or switch.  The scheduler is the one of        *)
(* FiberSched with its pending list left out (a live fiber that is not     *)
(* active is pending), a channel of the poller is a list that is pushed to *)
(* and taken as a whole, as IoPoller shows.                                *)
(*                                                                         *)
(* Fibers have one of two roles.  A server loops over tt_fiber_recv_ev()   *)
(* and tt_fiber_finish(), as the fibers of the log do.  A client sends     *)
(* events and waits (Call: an event of tt_fiber_ev_init() on its stack) or *)
(* does not wait (Post: one of tt_fiber_ev_create()), looks fibers up, and *)
(* ends.  Servers call nobody, so no two fibers wait for each other.       *)
(***************************************************************************)
EXTENDS TTList, Integers

CONSTANTS Task,
          Tfl,      \* Tfl[t]: the fibers added to t, in order (t->tfl)
          Server,   \* the fibers that serve
          Main,     \* the main fiber of a thread
          None,     \* no event
          MaxOps,   \* MaxOps[f], bound: operations of client f
          MayExit   \* the tasks that are told to exit at some time

Fiber == UNION {Nodes(Tfl[t]) : t \in Task}

Client == Fiber \ Server

TaskOf == [f \in Fiber |-> CHOOSE t \in Task : f \in Nodes(Tfl[t])]

\* The fibers others look up: those of tasks with a server, which end on request
\* only.  (In a task that ends by itself a lookup may never be answered.)
Findable == {g \in Fiber : \E s \in Server : TaskOf[s] = TaskOf[g]}

\* Events.  A call and a lookup live on the stack of the fiber that waits.
CallEv(f, g)    == [kind |-> "call", src |-> f, dst |-> g]
PostEv(f, g, n) == [kind |-> "post", src |-> f, dst |-> g, n |-> n]
FindEv(f, g)    == [kind |-> "find", src |-> f, dst |-> g]
ExitEv          == [kind |-> "exit"]

Event == [kind : {"call"}, src : Client, dst : Server]
         \cup [kind : {"find"}, src : Client, dst : Findable]
         \cup [kind : {"post"}, src : Client, dst : Server, n : Nat]
         \cup {ExitEv}

ASSUME TaskAssumption ==
    /\ Tfl \in [Task -> Seq(Fiber) \ {<<>>}]
    /\ \A t \in Task : Distinct(Tfl[t])
    /\ \A t, u \in Task : t # u => Nodes(Tfl[t]) \cap Nodes(Tfl[u]) = {}
    /\ Server \subseteq Fiber
    /\ Main \notin Fiber /\ None \notin Event
    /\ MaxOps \in [Client -> Nat]
    /\ MayExit \subseteq Task

VARIABLES
    phase,   \* phase[t]: where the main fiber of t is
    turn,    \* turn[t]: the next fiber of its first round
    stored,  \* stored[t]: t->thread is set
    run,     \* run[t]: the fiber the thread of t executes
    active,  \* active[t]: the active list of its scheduler
    pc,      \* pc[f]: what fiber f is doing
    ev,      \* ev[f]: f->ev
    hold,    \* hold[f]: the event server f has received and not finished
    mail,    \* mail[t]: poller_ev of t
    done,    \* done[t]: worker_ev of t
    dl,      \* dl[t]: the local list of the handler that runs in t
    ops,     \* ops[f]: the operations client f made
    sent,    \* sent[<<f, g>>]: the posts of f to g
    got,     \* got[<<f, g>>]: the number of the last one that g received
    told     \* told[t]: "no", or what became of tt_task_exit(t)

vars == <<phase, turn, stored, run, active, pc, ev, hold, mail, done, dl,
          ops, sent, got, told>>

control == <<phase, turn, stored, told>>
lists   == <<mail, done, dl>>
counts  == <<sent, got>>

\* "start": in the first round; "mail", "done": in the handler of a channel.
Phase == {"created", "start", "loop", "mail", "done", "over"}

\* "new": never resumed; "go": in its own code, executing or active; "again":
\* woken up in tt_fiber_recv_ev(); "recv": suspended there, recving set; "wait":
\* suspended until its own event has been finished.
Pc == {"new", "go", "again", "recv", "wait", "ended"}

Pair == Client \X Server

\* tt_task_create() and tt_task_add_fiber() for every fiber.
Init ==
    /\ phase = [t \in Task |-> "created"]
    /\ turn = [t \in Task |-> 1]
    /\ stored = [t \in Task |-> FALSE]
    /\ run = [t \in Task |-> Main]
    /\ active = [t \in Task |-> <<>>]
    /\ pc = [f \in Fiber |-> "new"]
    /\ ev = [f \in Fiber |-> <<>>]
    /\ hold = [f \in Server |-> None]
    /\ mail = [t \in Task |-> <<>>]
    /\ done = [t \in Task |-> <<>>]
    /\ dl = [t \in Task |-> <<>>]
    /\ ops = [f \in Client |-> 0]
    /\ sent = [p \in Pair |-> 0]
    /\ got = [p \in Pair |-> 0]
    /\ told = [t \in Task |-> "no"]

-----------------------------------------------------------------------------
(* Switching: FiberSched reduced to the active list.                        *)

\* tt_fiber_sched_next()
SchedNext(act) == IF act = <<>> THEN Main ELSE Head(act)

\* tt_fiber_suspend(): the executing fiber leaves the active list and the next
\* one goes on.
Suspend(t) ==
    LET act == tt_list_remove(active[t], run[t])
    IN  /\ active' = [active EXCEPT ![t] = act]
        /\ run' = [run EXCEPT ![t] = SchedNext(act)]

\* The state a suspended fiber is in once it runs again.
Awake(s) == IF s = "recv" THEN "again"
            ELSE IF s \in {"new", "wait"} THEN "go" ELSE s

\* tt_fiber_resume(fb, suspend) in thread t.
Resume(t, fb, suspend) ==
    LET me  == run[t]
        act == IF me = Main THEN active[t]
               ELSE IF suspend THEN tt_list_remove(active[t], me)
               ELSE tt_list_push_tail(tt_list_remove(active[t], me), me)
    IN  IF fb = me THEN UNCHANGED <<active, run>>
        ELSE /\ active' = [active EXCEPT
                              ![t] = tt_list_push_head(tt_list_remove(act, fb), fb)]
             /\ run' = [run EXCEPT ![t] = fb]

-----------------------------------------------------------------------------
(* The thread that owns the tasks.                                          *)

\* tt_task_run(): the thread exists before the pointer to it is stored.
tt_task_run(t) ==
    /\ phase[t] = "created"
    /\ phase' = [phase EXCEPT ![t] = "start"]
    /\ UNCHANGED <<turn, stored, told, run, active, pc, ev, hold, lists, ops, counts>>

\* t->thread is read by tt_task_exit() alone, so that the step matters only in a
\* task for which that is called.
StoreThread(t) ==
    /\ t \in MayExit
    /\ phase[t] # "created"
    /\ ~stored[t]
    /\ stored' = [stored EXCEPT ![t] = TRUE]
    /\ UNCHANGED <<phase, turn, told, run, active, pc, ev, hold, lists, ops, counts>>

-----------------------------------------------------------------------------
(* Fibers.                                                                  *)

\* Client f is executing its own code and may do one more operation.
Acts(f) ==
    /\ pc[f] = "go"
    /\ run[TaskOf[f]] = f
    /\ ops[f] < MaxOps[f]
    /\ ops' = [ops EXCEPT ![f] = @ + 1]

\* cfb->fs == dst->fs
SameSched(f, g) == TaskOf[f] = TaskOf[g]

\* dst->recving
Recving(g) == pc[g] = "recv"

\* Wrong variant: a new event overtakes the old ones.
AddEv_front(g, e) == ev' = [ev EXCEPT ![g] = tt_list_push_head(@, e)]

AddEv(g, e) == ev' = [ev EXCEPT ![g] = tt_list_push_tail(@, e)]

\* tt_fiber_send_ev(g, e, wait) by f: to a fiber of the same thread directly, to
\* another one through the poller of its task.
tt_fiber_send_ev(f, g, e, wait) ==
    LET t == TaskOf[f]
        pcf == IF wait THEN [pc EXCEPT ![f] = "wait"] ELSE pc
        direct == SameSched(f, g)
    IN  /\ IF direct
           THEN AddEv(g, e) /\ UNCHANGED mail
           ELSE mail' = [mail EXCEPT ![TaskOf[g]] = tt_list_push_tail(@, e)] /\ UNCHANGED ev
        /\ IF direct /\ Recving(g)
           THEN pc' = [pcf EXCEPT ![g] = Awake(@)] /\ Resume(t, g, wait)
           ELSE pc' = pcf /\ (IF wait THEN Suspend(t) ELSE UNCHANGED <<active, run>>)

\* What the library leaves to its users: nobody uses a fiber of a task that was
\* told to exit, and the fibers of such a task use nobody else.
Usable(f, g) ==
    \/ TaskOf[f] = TaskOf[g]
    \/ told[TaskOf[f]] = "no" /\ told[TaskOf[g]] = "no"

\* A fiber of another task is known once it was found there, that is, once that
\* task runs; one of the own task from the start (__task_find_fiber).  That it has
\* not ended since is left to the user.
Known(f, g) == TaskOf[g] = TaskOf[f] \/ pc[g] \notin {"new", "ended"}

Call(f, g) ==
    /\ Acts(f)
    /\ Known(f, g) /\ Usable(f, g)
    /\ tt_fiber_send_ev(f, g, CallEv(f, g), TRUE)
    /\ UNCHANGED <<control, hold, done, dl, counts>>

Post(f, g) ==
    LET n == sent[<<f, g>>] + 1
    IN  /\ Acts(f)
        /\ Known(f, g) /\ Usable(f, g)
        /\ sent' = [sent EXCEPT ![<<f, g>>] = n]
        /\ tt_fiber_send_ev(f, g, PostEv(f, g, n), FALSE)
        /\ UNCHANGED <<control, hold, done, dl, got>>

\* tt_task_find_fiber() for a fiber of another task.  The message may be sent
\* before that task runs.
tt_task_find_fiber(f, g) ==
    LET t == TaskOf[f]
    IN  /\ Acts(f)
        /\ TaskOf[g] # t /\ Usable(f, g)
        /\ mail' = [mail EXCEPT ![TaskOf[g]] = tt_list_push_tail(@, FindEv(f, g))]
        /\ pc' = [pc EXCEPT ![f] = "wait"]
        /\ Suspend(t)
        /\ UNCHANGED <<control, ev, hold, done, dl, counts>>

tt_fiber_yield(f) ==
    LET t   == TaskOf[f]
        act == tt_list_push_tail(tt_list_remove(active[t], f), f)
    IN  /\ Acts(f)
        /\ active' = [active EXCEPT ![t] = act]
        /\ run' = [run EXCEPT ![t] = Head(act)]
        /\ UNCHANGED <<control, pc, ev, hold, lists, counts>>

\* The events that are somewhere in task t, and whether the one client f waits
\* for is among them.
EventsIn(t) ==
    Nodes(mail[t]) \cup Nodes(dl[t]) \cup Nodes(done[t])
    \cup UNION {Nodes(ev[g]) \cup ({hold[g]} \ {None}) : g \in Nodes(Tfl[t]) \cap Server}

CallIn(f, t) == \E e \in EventsIn(t) : e.kind \in {"call", "find"} /\ e.src = f

\* No fiber waits across the border of task t.  That, too, is left to the user:
\* a task that exits takes the stacks of its fibers, and the events on them, along.
Quiet(t) ==
    \A f \in Client : IF TaskOf[f] = t THEN \A u \in Task \ {t} : ~CallIn(f, u)
                                      ELSE ~CallIn(f, t)

\* tt_task_exit(t) by fiber f: nothing happens while t->thread is not set.
tt_task_exit(f, t) ==
    /\ Acts(f)
    /\ t \in MayExit
    /\ told[t] = "no"
    /\ Quiet(t)
    /\ IF stored[t]
       THEN /\ told' = [told EXCEPT ![t] = "asked"]
            /\ mail' = [mail EXCEPT ![t] = tt_list_push_tail(@, ExitEv)]
       ELSE /\ told' = [told EXCEPT ![t] = "ignored"]
            /\ UNCHANGED mail
    /\ UNCHANGED <<phase, turn, stored, run, active, pc, ev, hold, done, dl, counts>>

\* The routine of a client returns (tt_fiber_destroy, on the main fiber).
ClientEnds(f) ==
    LET t == TaskOf[f]
    IN  /\ pc[f] = "go"
        /\ run[t] = f
        /\ pc' = [pc EXCEPT ![f] = "ended"]
        /\ active' = [active EXCEPT ![t] = tt_list_remove(@, f)]
        /\ run' = [run EXCEPT ![t] = Main]
        /\ UNCHANGED <<control, ev, hold, lists, ops, counts>>

\* tt_dlist_pop_head() of the own list finds a node.
HasEvent(f) == ev[f] # <<>>

\* tt_fiber_recv_ev(f, TT_TRUE): the first event of the list, or recving and
\* suspended; a fiber that was woken up looks again.
tt_fiber_recv_ev(f) ==
    LET t == TaskOf[f]
        e == Head(ev[f])
    IN  /\ f \in Server
        /\ run[t] = f
        /\ pc[f] \in {"go", "again"} /\ hold[f] = None
        /\ IF HasEvent(f)
           THEN /\ hold' = [hold EXCEPT ![f] = e]
                /\ ev' = [ev EXCEPT ![f] = Tail(@)]
                /\ pc' = [pc EXCEPT ![f] = "go"]
                /\ got' = IF e.kind = "post" THEN [got EXCEPT ![<<e.src, f>>] = e.n] ELSE got
                /\ UNCHANGED <<active, run>>
           ELSE /\ pc' = [pc EXCEPT ![f] = "recv"]
                /\ Suspend(t)
                /\ UNCHANGED <<hold, ev, got>>
        /\ UNCHANGED <<control, lists, ops, sent>>

\* tt_fiber_finish(): the source of a call is resumed, by its own thread; a post
\* is freed.
tt_fiber_finish(f) ==
    LET t == TaskOf[f]
        e == hold[f]
    IN  /\ f \in Server
        /\ run[t] = f
        /\ pc[f] = "go" /\ e # None
        /\ hold' = [hold EXCEPT ![f] = None]
        /\ IF e.kind = "call" /\ SameSched(f, e.src)
           THEN pc' = [pc EXCEPT ![e.src] = Awake(@)] /\ Resume(t, e.src, FALSE)
           ELSE UNCHANGED <<pc, active, run>>
        /\ done' = IF e.kind = "call" /\ ~SameSched(f, e.src)
                   THEN [done EXCEPT ![TaskOf[e.src]] = tt_list_push_tail(@, e)] ELSE done
        /\ UNCHANGED <<control, ev, mail, dl, ops, counts>>

-----------------------------------------------------------------------------
(* The main fiber of a task: __task_routine() and the handlers of the       *)
(* poller.  (Its timers are the subject of TaskTimers.)                     *)

MainRuns(t, ph) == phase[t] = ph /\ run[t] = Main

\* Every fiber that was added is resumed once, by the pointer stored for it.
FirstRound(t) ==
    /\ MainRuns(t, "start")
    /\ turn[t] <= Len(Tfl[t])
    /\ turn' = [turn EXCEPT ![t] = @ + 1]
    /\ LET fb == Tfl[t][turn[t]]
       IN  pc' = [pc EXCEPT ![fb] = Awake(@)] /\ Resume(t, fb, FALSE)
    /\ UNCHANGED <<phase, stored, told, ev, hold, lists, ops, counts>>

\* Then, and before every wait, all active fibers.
RunActive(t) ==
    /\ MainRuns(t, "loop") \/ (MainRuns(t, "start") /\ turn[t] > Len(Tfl[t]))
    /\ active[t] # <<>>
    /\ Resume(t, Head(active[t]), FALSE)
    /\ UNCHANGED <<control, pc, ev, hold, lists, ops, counts>>

EnterLoop(t) ==
    /\ MainRuns(t, "start")
    /\ turn[t] > Len(Tfl[t])
    /\ active[t] = <<>>
    /\ phase' = [phase EXCEPT ![t] = "loop"]
    /\ UNCHANGED <<turn, stored, told, run, active, pc, ev, hold, lists, ops, counts>>

\* The thread is over: what is left of its fibers goes with it
\* (tt_fiber_sched_destroy), their events are dropped.
Over(t) ==
    /\ phase' = [phase EXCEPT ![t] = "over"]
    /\ pc' = [f \in Fiber |-> IF f \in Nodes(Tfl[t]) THEN "ended" ELSE pc[f]]
    /\ ev' = [f \in Fiber |-> IF f \in Nodes(Tfl[t]) THEN <<>> ELSE ev[f]]
    /\ hold' = [f \in Server |-> IF f \in Nodes(Tfl[t]) THEN None ELSE hold[f]]
    /\ active' = [active EXCEPT ![t] = <<>>]
    /\ dl' = [dl EXCEPT ![t] = <<>>]

\* Wrong variant: only a request ends the loop.
AllFibersEnded_told(t) ==
    /\ MainRuns(t, "loop")
    /\ \A f \in Nodes(Tfl[t]) : pc[f] = "ended"
    /\ told[t] = "asked"
    /\ Over(t)
    /\ UNCHANGED <<turn, stored, told, run, mail, done, ops, counts>>

\* "it's possible that all fibers terminate": whatever is in the lists of the poller.
AllFibersEnded(t) ==
    /\ MainRuns(t, "loop")
    /\ \A f \in Nodes(Tfl[t]) : pc[f] = "ended"
    /\ Over(t)
    /\ UNCHANGED <<turn, stored, told, run, mail, done, ops, counts>>

\* Wrong variant: messages are handled before the first round is over.
Polls_early(t) == run[t] = Main /\ phase[t] \in {"start", "loop"}

\* The main fiber gets to tt_io_poller_run().
Polls(t) ==
    /\ MainRuns(t, "loop")
    /\ active[t] = <<>>
    /\ \E f \in Nodes(Tfl[t]) : pc[f] # "ended"

\* tt_io_poller_run(): one channel is ready and its list is taken.
Poll(t, ch, list) ==
    /\ Polls(t)
    /\ list # <<>>
    /\ phase' = [phase EXCEPT ![t] = ch]
    /\ dl' = [dl EXCEPT ![t] = list]
    /\ UNCHANGED <<turn, stored, told, run, active, pc, ev, hold, ops, counts>>

\* Wrong variant: the list that was taken is not reset.
PollMail_copy(t) == Poll(t, "mail", mail[t]) /\ UNCHANGED <<mail, done>>

PollMail(t) ==
    /\ Poll(t, "mail", mail[t])
    /\ mail' = [mail EXCEPT ![t] = <<>>]
    /\ UNCHANGED done

PollDone(t) ==
    /\ Poll(t, "done", done[t])
    /\ done' = [done EXCEPT ![t] = <<>>]
    /\ UNCHANGED mail

\* The next event of the list that the handler of channel ch works on.
Takes(t, ch, kinds) ==
    /\ MainRuns(t, ch)
    /\ dl[t] # <<>>
    /\ Head(dl[t]).kind \in kinds

\* __poller_io(): an event for a fiber of this task ...
DeliverMail(t) ==
    LET e == Head(dl[t])
        g == e.dst
    IN  /\ Takes(t, "mail", {"call", "post"})
        /\ dl' = [dl EXCEPT ![t] = Tail(@)]
        /\ AddEv(g, e)
        /\ IF Recving(g)
           THEN pc' = [pc EXCEPT ![g] = Awake(@)] /\ Resume(t, g, FALSE)
           ELSE UNCHANGED <<pc, active, run>>
        /\ UNCHANGED <<control, hold, mail, done, ops, counts>>

\* ... a lookup (tt_task_poller_io), answered with the stored pointer, even if that
\* fiber has ended ...
__do_find_fiber(t) ==
    LET e == Head(dl[t])
    IN  /\ Takes(t, "mail", {"find"})
        /\ dl' = [dl EXCEPT ![t] = Tail(@)]
        /\ done' = [done EXCEPT ![TaskOf[e.src]] = tt_list_push_tail(@, e)]
        /\ UNCHANGED <<control, run, active, pc, ev, hold, mail, ops, counts>>

\* ... or the request to exit, which ends the main loop at once.
HandleExit(t) ==
    /\ Takes(t, "mail", {"exit"})
    /\ Over(t)
    /\ UNCHANGED <<turn, stored, told, run, mail, done, ops, counts>>

\* __worker_io(): the event of a fiber of this task has been finished.
HandleDone(t) ==
    LET e == Head(dl[t])
    IN  /\ Takes(t, "done", {"call", "find"})
        /\ dl' = [dl EXCEPT ![t] = Tail(@)]
        /\ pc' = [pc EXCEPT ![e.src] = Awake(@)]
        /\ Resume(t, e.src, TRUE)
        /\ UNCHANGED <<control, ev, hold, mail, done, ops, counts>>

HandlerReturns(t) ==
    /\ MainRuns(t, "mail") \/ MainRuns(t, "done")
    /\ dl[t] = <<>>
    /\ phase' = [phase EXCEPT ![t] = "loop"]
    /\ UNCHANGED <<turn, stored, told, run, active, pc, ev, hold, lists, ops, counts>>

ClientNext(f) ==
    \/ \E g \in Server : Call(f, g) \/ Post(f, g)
    \/ \E g \in Findable : tt_task_find_fiber(f, g)
    \/ tt_fiber_yield(f)
    \/ \E t \in Task : tt_task_exit(f, t)
    \/ ClientEnds(f)

MainNext(t) ==
    \/ FirstRound(t) \/ EnterLoop(t) \/ RunActive(t) \/ AllFibersEnded(t)
    \/ PollMail(t) \/ PollDone(t)
    \/ DeliverMail(t) \/ __do_find_fiber(t) \/ HandleExit(t) \/ HandleDone(t)
    \/ HandlerReturns(t)

ThreadNext(t) ==
    \/ \E f \in Nodes(Tfl[t]) \cap Client : ClientNext(f)
    \/ \E f \in Nodes(Tfl[t]) \cap Server : tt_fiber_recv_ev(f) \/ tt_fiber_finish(f)
    \/ MainNext(t)

Next == \E t \in Task : tt_task_run(t) \/ StoreThread(t) \/ ThreadNext(t)

Spec == Init /\ [][Next]_vars

\* Threads are scheduled: as long as some thread can take a step, one does.  What
\* a client does next is open, except that it ends when it has used up its
\* operations; since these are bounded no thread can run for ever, and nothing
\* has to be said about which thread is next.
Fairness == WF_vars(Next)

FairSpec == Spec /\ Fairness

-----------------------------------------------------------------------------

(* The types of the variables. *)
TypeOK ==
    /\ phase \in [Task -> Phase]
    /\ turn \in [Task -> Nat \ {0}]
    /\ stored \in [Task -> BOOLEAN]
    /\ run \in [Task -> Fiber \cup {Main}]
    /\ active \in [Task -> Seq(Fiber)]
    /\ pc \in [Fiber -> Pc]
    /\ ev \in [Fiber -> Seq(Event)]
    /\ hold \in [Server -> Event \cup {None}]
    /\ mail \in [Task -> Seq(Event)]
    /\ done \in [Task -> Seq(Event)]
    /\ dl \in [Task -> Seq(Event)]
    /\ ops \in [Client -> Nat] /\ \A f \in Client : ops[f] <= MaxOps[f]
    /\ sent \in [Pair -> Nat]
    /\ got \in [Pair -> Nat]
    /\ told \in [Task -> {"no", "asked", "ignored"}]

(* A fiber is resumed by the thread of its own task only: each active list has *)
(* the fibers of its task that can go on, once, and the executing one first.   *)
(* tt_fiber_finish() and __worker_io() share the work to keep it so.           *)
OwnThread ==
    \A t \in Task :
        /\ Distinct(active[t])
        /\ Nodes(active[t]) = {f \in Nodes(Tfl[t]) : pc[f] \in {"go", "again"}}
        /\ run[t] # Main => active[t] # <<>> /\ run[t] = Head(active[t])

\* The places where events are linked, and the list there; what was left to a
\* task that is over is gone.
Place == ({"ev", "hold"} \X Server) \cup ({"mail", "done", "dl"} \X Task)

Left(t, list) == IF phase[t] = "over" THEN <<>> ELSE list

ListAt(p) == CASE p[1] = "ev"   -> ev[p[2]]
               [] p[1] = "hold" -> IF hold[p[2]] = None THEN <<>> ELSE <<hold[p[2]]>>
               [] p[1] = "mail" -> Left(p[2], mail[p[2]])
               [] p[1] = "done" -> Left(p[2], done[p[2]])
               [] p[1] = "dl"   -> Left(p[2], dl[p[2]])

\* Event e is on the stack of f; how often such an event is in a list.
Mine(f, e) == e.kind \in {"call", "find"} /\ e.src = f

NoneIn(f, s) == \A i \in DOMAIN s : ~Mine(f, s[i])

OneIn(f, s) == \E i \in DOMAIN s : Mine(f, s[i]) /\ \A j \in DOMAIN s : Mine(f, s[j]) => j = i

(* The event of a waiting fiber is on the stack of that fiber.  As long as the *)
(* fiber waits its event is in exactly one place, so it will be answered once; *)
(* once the fiber goes on, for whatever reason, its event is in none, or a     *)
(* list would run through memory that is used for something else.              *)
CallTracked ==
    \A f \in Client :
        IF pc[f] = "wait"
        THEN \E p \in Place : /\ OneIn(f, ListAt(p))
                              /\ \A q \in Place \ {p} : NoneIn(f, ListAt(q))
        ELSE \A p \in Place : NoneIn(f, ListAt(p))

\* What a channel of task t carries: events of other tasks for its fibers, and the
\* request to exit; or events of its fibers that have been finished.
ForTask(t, e) == IF e.kind = "exit" THEN told[t] = "asked"
                 ELSE TaskOf[e.dst] = t /\ TaskOf[e.src] # t

Finished(t, e) == e.kind \in {"call", "find"} /\ TaskOf[e.src] = t

(* Every event is with the task, or the fiber, that has to handle it: no       *)
(* handler meets an event of another thread, or of a kind it does not expect.  *)
Addressed ==
    /\ \A t \in Task :
          /\ \A e \in Nodes(mail[t]) : ForTask(t, e)
          /\ \A e \in Nodes(done[t]) : Finished(t, e)
          /\ phase[t] = "mail" => \A e \in Nodes(dl[t]) : ForTask(t, e)
          /\ phase[t] = "done" => \A e \in Nodes(dl[t]) : Finished(t, e)
          /\ phase[t] \notin {"mail", "done"} => dl[t] = <<>>
    /\ \A f \in Fiber : \A e \in Nodes(ev[f]) :
          f \in Server /\ e.kind \in {"call", "post"} /\ e.dst = f
    /\ \A f \in Server : hold[f] # None => hold[f].kind \in {"call", "post"} /\ hold[f].dst = f

(* Once tt_task_exit() was called for a task nobody waits across its border    *)
(* any more.                                                                   *)
BorderQuiet ==
    \A f \in Client, t \in Task :
        t # TaskOf[f] /\ CallIn(f, t) => told[TaskOf[f]] = "no" /\ told[t] = "no"

(* A fiber that sleeps in tt_fiber_recv_ev() has no event: neither a fiber of  *)
(* its own task nor the poller adds one without waking it up.                  *)
NoSleepOnEvents == \A f \in Fiber : pc[f] = "recv" => ev[f] = <<>>

(* In the first round the main fiber resumes fibers by the pointers it stored: *)
(* none of them has run before, let alone ended, whatever events the earlier   *)
(* ones sent it; after the round each of them has run.                         *)
FirstRoundFresh ==
    \A t \in Task :
        IF phase[t] \in {"created", "start"}
        THEN \A i \in DOMAIN Tfl[t] : pc[Tfl[t][i]] = "new" <=> i >= turn[t]
        ELSE \A f \in Nodes(Tfl[t]) : pc[f] # "new"

(* A task that is over has no fiber left, and a server ends with its task, by  *)
(* request, and not before.                                                    *)
ServersStay ==
    /\ \A f \in Fiber : phase[TaskOf[f]] = "over" => pc[f] = "ended"
    /\ \A f \in Server :
          pc[f] = "ended" => phase[TaskOf[f]] = "over" /\ told[TaskOf[f]] = "asked"

(* The answer to tt_task_find_fiber() is a fiber that was created and has been *)
(* started, also when the message was sent before the task was run.  It may    *)
(* have ended since, or before it was looked up: t->tfl keeps the pointer.     *)
FoundIsStarted ==
    \A t \in Task : \A e \in Nodes(done[t]) \cup (IF phase[t] = "done" THEN Nodes(dl[t]) ELSE {}) :
        e.kind = "find" => pc[e.dst] # "new"

\* The posts of f to g in a list: their numbers, and whether they are in order.
IsPost(f, g, e) == e.kind = "post" /\ e.src = f /\ e.dst = g

Nums(f, g, s) == {s[i].n : i \in {j \in DOMAIN s : IsPost(f, g, s[j])}}

Rising(f, g, s) ==
    \A i, j \in DOMAIN s :
        i < j /\ IsPost(f, g, s[i]) /\ IsPost(f, g, s[j]) => s[i].n < s[j].n

Before(A, B) == \A a \in A, b \in B : a < b

\* The posts on the way from f to g, in the lists a, b and c one after the other, are
\* the numbers after lo up to hi.
InOrder(f, g, a, b, c, lo, hi) ==
    /\ Rising(f, g, a) /\ Rising(f, g, b) /\ Rising(f, g, c)
    /\ Before(Nums(f, g, a), Nums(f, g, b))
    /\ Before(Nums(f, g, a), Nums(f, g, c))
    /\ Before(Nums(f, g, b), Nums(f, g, c))
    /\ Nums(f, g, a) \cup Nums(f, g, b) \cup Nums(f, g, c) = lo + 1 .. hi
    /\ lo <= hi

\* The events the handler of messages in task t has yet to deliver.
Taken(t) == IF phase[t] = "mail" THEN dl[t] ELSE <<>>

(* Posts of one fiber to another arrive in order and without a gap, whether    *)
(* they take the direct way or the one through the poller of the other task:   *)
(* what is on the way are the numbers after the last one received, first those *)
(* in the list of the fiber, then those taken by the handler, then the rest.   *)
PostsInOrder ==
    \A f \in Client, g \in Server :
        LET t == TaskOf[g]
        IN  phase[t] # "over" =>
                InOrder(f, g, ev[g], Taken(t), mail[t], got[<<f, g>>], sent[<<f, g>>])

(* A fiber that waits for its event goes on (unless its own task is told to    *)
(* exit and takes it along).                                                   *)
CallsReturn == \A f \in Client : pc[f] = "wait" ~> pc[f] # "wait"

(* A request to exit that got into the list of the poller ends the task.       *)
ExitEnds == \A t \in MayExit : told[t] = "asked" ~> phase[t] = "over"

(* Events between fibers and tasks (tt_fiber_send_ev(), tt_fiber_recv(),       *)
(* tt_fiber_finish()): fibers run in their own thread, an event with a waiting *)
(* sender is in one place, nobody sleeps on events.                            *)
EventInv == TypeOK /\ OwnThread /\ CallTracked /\ NoSleepOnEvents /\ Addressed /\ BorderQuiet

(* The start of a task, seen by its own first round and by others: whom        *)
(* __task_routine() resumes for the first time has not run before, whom        *)
(* tt_task_find_fiber() hands out has.                                         *)
StartInv == FirstRoundFresh /\ ServersStay /\ FoundIsStarted

(* A task whose fibers all return ends by itself, whatever it waited for       *)
(* before.                                                                     *)
EndsWithFibers ==
    \A t \in {u \in Task : Nodes(Tfl[u]) \subseteq Client} :
        phase[t] = "start" ~> phase[t] = "over"

(* Every call is answered, and tasks end: the ones that are told to exit, and  *)
(* the ones whose fibers have ended.                                           *)
CallsAndTasksEnd == CallsReturn /\ ExitEnds /\ EndsWithFibers
=============================================================================
