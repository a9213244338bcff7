------------------------------ MODULE TaskTimers ----------------------------
(***************************************************************************)
(* The timers of a task and the main loop that drives them: tt_tmr_t        *)
(* (source/time/tt_timer.c), tt_tmr_mgr_run (source/time/tt_timer_manager.c),*)
(* the delivery of an expired timer to its fiber (source/os/                *)
(* tt_fiber_event.c) and __task_routine (source/os/tt_task.c).              *)
(*                                                                          *)
(* Everything here happens in one thread, but not in one piece: delivering  *)
(* a timer switches to the fiber that waits for it, and that fiber may      *)
(* start, stop and destroy timers, wait again or end before the manager     *)
(* goes on with its loop.  Of the scheduler (module FiberSched) only the    *)
(* contract FiberCoop is used: one fiber runs, a fiber that suspends hands  *)
(* over to some ready fiber or, if there is none, to the main fiber, and a  *)
(* fiber that ends hands over to the main fiber.                            *)
(*                                                                          *)
(* This is a task without dns cache (attr->enable_dns is FALSE, the         *)
(* default).  Its fibers use their own timers only, start a timer again     *)
(* only after they received its expiry, and choose delays that do not       *)
(* overflow; module TaskTimersMore adds the dns cache and the early restart. *)
(***************************************************************************)
EXTENDS PtrHeap, TTList, Integers, FiniteSets

CONSTANTS Fiber,     \* the fibers of the task
          Main,      \* its main fiber
          NoFiber,   \* the owner of a timer that is not allocated
          Forever,   \* TT_TIME_INFINITE as a time to wait
          Delay,     \* the delays, in ticks of the clock
          MaxWait,   \* 0x7FFFFFFF, the longest timeout of epoll_wait()
          MaxClock   \* bound: no timer expires after this, and the clock stops
                     \* here unless a sleep is to be ended

Timer == Item

ASSUME TimerAssumption ==
    /\ Main \notin Fiber /\ NoFiber \notin Fiber \cup {Main}
    /\ POS_NULL \notin Nat /\ Forever \notin Int
    /\ Delay \subseteq Nat
    /\ MaxWait \in Nat
    /\ MaxClock \in Nat \ {0}

VARIABLES
    clock,      \* tt_time_ref(); never 0
    ph,         \* mgr->tmr_heap
    key,        \* tmr->absolute_ref
    status,     \* tmr->status, or "free" while the timer is not allocated
    owner,      \* tmr->owner
    unexpired,  \* fb->unexpired_tmr
    expired,    \* fb->expired_tmr
    fiber,      \* what a fiber is doing
    run,        \* the fiber that executes
    at,         \* where the main fiber is in __task_routine()
    now,        \* now and cb_exec of tt_tmr_mgr_run()
    cb_exec,
    wait,       \* wait_ms
    wake        \* when epoll_wait() times out

timerVars == <<ph, key, status, owner, unexpired, expired>>
loopVars == <<at, now, cb_exec, wait, wake>>
vars == <<clock, timerVars, fiber, run, loopVars>>

\* A fiber is ready, in the loop of tt_fiber_recv_timer() or tt_fiber_recv(), in
\* the loop of tt_fiber_recv_ev(), suspended by something else, or has ended.
FiberState == {"ready", "recv_timer", "recv_ev", "suspended", "ended"}

\* The main fiber runs ready fibers ("resume"), is in tt_tmr_mgr_run() ("run"),
\* looks for ready fibers ("check"), sleeps ("poll"), handles what woke it
\* ("polled"), has left the loop ("stopped"); the task is gone ("destroyed").
Place == {"resume", "run", "check", "poll", "polled", "stopped", "destroyed"}

Live == {f \in Fiber : fiber[f] # "ended"}

Ready == {f \in Fiber : fiber[f] = "ready"}

\* fb->recving, for a fiber that is suspended.
Recving(f) == fiber[f] \in {"recv_timer", "recv_ev"}

\* __task_routine() once the fibers are created: it will resume each of them.
Init ==
    /\ clock = 1
    /\ ph = EmptyHeap
    /\ key = [t \in Timer |-> 0]
    /\ status = [t \in Timer |-> "free"]
    /\ owner = [t \in Timer |-> NoFiber]
    /\ unexpired = [f \in Fiber |-> <<>>]
    /\ expired = [f \in Fiber |-> <<>>]
    /\ fiber = [f \in Fiber |-> "ready"]
    /\ run = Main
    /\ at = "resume"
    /\ now = 0
    /\ cb_exec = FALSE
    /\ wait = Forever
    /\ wake = Forever

Tick ==
    /\ clock < MaxClock \/ (at = "poll" /\ wake # Forever /\ clock < wake)
    /\ clock' = clock + 1
    /\ UNCHANGED <<timerVars, fiber, run, loopVars>>

-----------------------------------------------------------------------------
(* What the executing fiber does with its timers.                           *)

\* f executes code of its own.
Executes(f) == run = f /\ fiber[f] = "ready"

tt_tmr_create(f, t) ==
    /\ Executes(f)
    /\ status[t] = "free"
    /\ status' = [status EXCEPT ![t] = "inactive"]
    /\ owner' = [owner EXCEPT ![t] = f]
    /\ key' = [key EXCEPT ![t] = 0]
    /\ unexpired' = [unexpired EXCEPT ![f] = tt_list_push_tail(@, t)]
    /\ UNCHANGED <<clock, ph, expired, fiber, run, loopVars>>

\* The last part of tt_tmr_start(): the timer enters the heap or, if it is there
\* already, moves to its new place.  (Without memory the heap refuses it and the
\* call fails; the timer is then active outside the heap.)
Enqueue(t, ref) ==
    /\ key' = [key EXCEPT ![t] = ref]
    /\ status' = [status EXCEPT ![t] = "active"]
    /\ \/ ph.pos[t] = POS_NULL /\ ph' = tt_ptrheap_add(ph, key', t)
       \/ ph.pos[t] = POS_NULL /\ ph' = ph
       \/ ph.pos[t] # POS_NULL /\ ph' = tt_ptrheap_fix(ph, key', ph.pos[t])

tt_tmr_start(f, t, delay) ==
    /\ Executes(f)
    /\ t \in Nodes(unexpired[f])
    /\ clock + delay <= MaxClock
    /\ Enqueue(t, clock + delay)
    /\ UNCHANGED <<clock, owner, unexpired, expired, fiber, run, loopVars>>

tt_tmr_stop(f, t) ==
    /\ Executes(f)
    /\ t \in Nodes(unexpired[f]) \cup Nodes(expired[f])
    /\ status' = [status EXCEPT ![t] = "inactive"]
    /\ UNCHANGED <<clock, ph, key, owner, unexpired, expired, fiber, run, loopVars>>

\* Wrong variant: the timers are freed, wherever they are.
Destroyed_freed(S) ==
    /\ status' = [t \in Timer |-> IF t \in S THEN "free" ELSE status[t]]
    /\ owner' = [t \in Timer |-> IF t \in S THEN NoFiber ELSE owner[t]]

\* tt_tmr_destroy() of the timers S, which their fiber has unlinked: one that is
\* in the heap must stay there and becomes an orphan.
Destroyed(S) ==
    /\ status' = [t \in Timer |-> IF t \notin S THEN status[t]
                                  ELSE IF ph.pos[t] = POS_NULL THEN "free"
                                  ELSE "orphan"]
    /\ owner' = [t \in Timer |-> IF t \in S /\ ph.pos[t] = POS_NULL THEN NoFiber
                                 ELSE owner[t]]

tt_tmr_destroy(f, t) ==
    /\ Executes(f)
    /\ t \in Nodes(unexpired[f]) \cup Nodes(expired[f])
    /\ unexpired' = [unexpired EXCEPT ![f] = tt_list_remove(@, t)]
    /\ expired' = [expired EXCEPT ![f] = tt_list_remove(@, t)]
    /\ Destroyed({t})
    /\ UNCHANGED <<clock, ph, key, fiber, run, loopVars>>

-----------------------------------------------------------------------------
(* Waiting, and control passing from fiber to fiber.                        *)

\* The executing fiber is not ready any more (fiber' says so): who runs next.
HandOver == run' \in IF Ready \ {run} # {} THEN Ready \ {run} ELSE {Main}

\* tt_fiber_recv_timer() and tt_fiber_recv() begin.
Receive(f) ==
    /\ Executes(f)
    /\ fiber' = [fiber EXCEPT ![f] = "recv_timer"]
    /\ UNCHANGED <<clock, timerVars, run, loopVars>>

\* The loop of tt_fiber_recv_timer() at "again", on the first pass and whenever
\* the fiber is resumed.  The first expired timer is returned and goes back to
\* the unexpired ones ...
TakeTimer(f) ==
    /\ run = f
    /\ fiber[f] = "recv_timer"
    /\ expired[f] # <<>>
    /\ expired' = [expired EXCEPT ![f] = Tail(@)]
    /\ unexpired' = [unexpired EXCEPT ![f] = tt_list_push_tail(@, Head(expired[f]))]
    /\ fiber' = [fiber EXCEPT ![f] = "ready"]
    /\ UNCHANGED <<clock, ph, key, status, owner, run, loopVars>>

\* ... with no timer the fiber suspends itself ...
WaitTimer(f) ==
    /\ run = f
    /\ fiber[f] = "recv_timer"
    /\ expired[f] = <<>>
    /\ HandOver
    /\ UNCHANGED <<clock, timerVars, fiber, loopVars>>

\* ... or, if it was told not to wait, returns.
NoTimer(f) ==
    /\ run = f
    /\ fiber[f] = "recv_timer"
    /\ expired[f] = <<>>
    /\ fiber' = [fiber EXCEPT ![f] = "ready"]
    /\ UNCHANGED <<clock, timerVars, run, loopVars>>

\* The executing fiber waits for an event (tt_fiber_recv_ev: recving is set) or
\* for io (tt_fiber_suspend).
Suspend(f, state) ==
    /\ Executes(f)
    /\ state \in {"recv_ev", "suspended"}
    /\ fiber' = [fiber EXCEPT ![f] = state]
    /\ HandOver
    /\ UNCHANGED <<clock, timerVars, loopVars>>

\* A fiber in tt_fiber_recv_ev() that was resumed by a timer finds no event and
\* suspends itself again.
RecvEvAgain(f) ==
    /\ run = f
    /\ fiber[f] = "recv_ev"
    /\ HandOver
    /\ UNCHANGED <<clock, timerVars, fiber, loopVars>>

tt_fiber_yield(f) ==
    /\ Executes(f)
    /\ run' \in Ready
    /\ UNCHANGED <<clock, timerVars, fiber, loopVars>>

\* What a waiting fiber does with an event or finished io that it is resumed for:
\* one in tt_fiber_recv_timer() goes back to its loop, any other returns.
Resumed(g) == {"ready"} \cup (IF fiber[g] = "recv_timer" THEN {"recv_timer"} ELSE {})

\* tt_fiber_send_ev() to a fiber of the same task that receives: it runs at once,
\* and the sender stays ready or suspends itself (wait).  To a fiber that does not
\* receive the event is only queued, after which a sender that waits suspends
\* itself: that is Suspend.
tt_fiber_send_ev(f, g, wt) ==
    /\ Executes(f)
    /\ Recving(g)
    /\ \E st \in Resumed(g) :
          fiber' = [fiber EXCEPT ![g] = st, ![f] = IF wt THEN "suspended" ELSE @]
    /\ run' = g
    /\ UNCHANGED <<clock, timerVars, loopVars>>

\* tt_fiber_finish() for an event from a fiber of the same task, which waits.
tt_fiber_finish(f, g) ==
    /\ Executes(f)
    /\ fiber[g] = "suspended"
    /\ fiber' = [fiber EXCEPT ![g] = "ready"]
    /\ run' = g
    /\ UNCHANGED <<clock, timerVars, loopVars>>

\* The routine returns; the main fiber runs tt_fiber_destroy().
FiberEnd(f) ==
    /\ Executes(f)
    /\ fiber' = [fiber EXCEPT ![f] = "ended"]
    /\ run' = Main
    /\ Destroyed(Nodes(unexpired[f]) \cup Nodes(expired[f]))
    /\ unexpired' = [unexpired EXCEPT ![f] = <<>>]
    /\ expired' = [expired EXCEPT ![f] = <<>>]
    /\ UNCHANGED <<clock, ph, key, loopVars>>

FiberNext(f) ==
    \/ \E t \in Timer :
          \/ tt_tmr_create(f, t)
          \/ \E d \in Delay : tt_tmr_start(f, t, d)
          \/ tt_tmr_stop(f, t)
          \/ tt_tmr_destroy(f, t)
    \/ Receive(f)
    \/ TakeTimer(f)
    \/ WaitTimer(f)
    \/ NoTimer(f)
    \/ \E state \in FiberState : Suspend(f, state)
    \/ RecvEvAgain(f)
    \/ tt_fiber_yield(f)
    \/ \E g \in Fiber : (\E wt \in BOOLEAN : tt_fiber_send_ev(f, g, wt)) \/ tt_fiber_finish(f, g)
    \/ FiberEnd(f)

-----------------------------------------------------------------------------
(* tt_tmr_mgr_run(): one action per branch of its loop.                     *)

Running == run = Main /\ at = "run"

HeadIs(st) == ph.node # <<>> /\ status[tt_ptrheap_head(ph)] = st

\* now is read from the clock when it is needed first.
Now == IF now = 0 THEN clock ELSE now

\* Wrong variant: a timer expires a tick early.
HeadDue_early == key[tt_ptrheap_head(ph)] <= Now + 1

HeadDue == key[tt_ptrheap_head(ph)] <= Now

\* Wrong variant: the fiber is not resumed.
tt_fiber_send_timer_quiet(t) ==
    /\ unexpired' = [unexpired EXCEPT ![owner[t]] = tt_list_remove(@, t)]
    /\ expired' = [expired EXCEPT ![owner[t]] =
                       tt_list_push_tail(tt_list_remove(@, t), t)]
    /\ UNCHANGED run

\* tt_fiber_send_timer(): the timer changes lists, and a fiber that waits to
\* receive runs at once.
tt_fiber_send_timer(t) ==
    /\ unexpired' = [unexpired EXCEPT ![owner[t]] = tt_list_remove(@, t)]
    /\ expired' = [expired EXCEPT ![owner[t]] =
                       tt_list_push_tail(tt_list_remove(@, t), t)]
    /\ run' = IF Recving(owner[t]) THEN owner[t] ELSE run

RunExpire ==
    /\ Running
    /\ HeadIs("active")
    /\ HeadDue
    /\ now' = Now
    /\ ph' = tt_ptrheap_pop(ph, key)
    /\ tt_fiber_send_timer(tt_ptrheap_head(ph))
    /\ cb_exec' = TRUE
    /\ UNCHANGED <<clock, key, status, owner, fiber, at, wait, wake>>

\* A callback may have taken time: the clock is read again.
RunRefresh ==
    /\ Running
    /\ HeadIs("active")
    /\ ~HeadDue
    /\ cb_exec
    /\ now' = clock
    /\ cb_exec' = FALSE
    /\ UNCHANGED <<clock, timerVars, fiber, run, at, wait, wake>>

\* tt_tmr_mgr_run() returns the time until the head is due ...
RunWait ==
    /\ Running
    /\ HeadIs("active")
    /\ ~HeadDue
    /\ ~cb_exec
    /\ now' = Now
    /\ wait' = key[tt_ptrheap_head(ph)] - Now
    /\ at' = "check"
    /\ UNCHANGED <<clock, timerVars, fiber, run, cb_exec, wake>>

\* ... or TT_TIME_INFINITE.
RunIdle ==
    /\ Running
    /\ ph.node = <<>>
    /\ wait' = Forever
    /\ at' = "check"
    /\ UNCHANGED <<clock, timerVars, fiber, run, now, cb_exec, wake>>

\* A timer that was stopped leaves the heap ...
RunDrop ==
    /\ Running
    /\ HeadIs("inactive")
    /\ ph' = tt_ptrheap_pop(ph, key)
    /\ UNCHANGED <<clock, key, status, owner, unexpired, expired, fiber, run, loopVars>>

\* ... and one that was destroyed is freed.
RunReap ==
    LET t == tt_ptrheap_head(ph)
    IN  /\ Running
        /\ HeadIs("orphan")
        /\ ph' = tt_ptrheap_pop(ph, key)
        /\ status' = [status EXCEPT ![t] = "free"]
        /\ owner' = [owner EXCEPT ![t] = NoFiber]
        /\ UNCHANGED <<clock, key, unexpired, expired, fiber, run, loopVars>>

tt_tmr_mgr_run ==
    RunExpire \/ RunRefresh \/ RunWait \/ RunIdle \/ RunDrop \/ RunReap

-----------------------------------------------------------------------------
(* The rest of __task_routine() and tt_task_wait().                         *)

\* Back to the head of the loop, into a new call of tt_tmr_mgr_run().  The local
\* variables of the last turn are dead.
ToRun ==
    /\ at' = "run"
    /\ now' = 0
    /\ cb_exec' = FALSE
    /\ wait' = Forever
    /\ wake' = Forever

\* The loops that resume the ready fibers, until there is none.
ResumeReady ==
    /\ run = Main
    /\ at = "resume"
    /\ IF Ready # {} THEN run' \in Ready /\ UNCHANGED loopVars
       ELSE ToRun /\ UNCHANGED run
    /\ UNCHANGED <<clock, timerVars, fiber>>

\* tt_io_poller_run_ntv() calls epoll_wait(), without a timeout if the time to
\* wait does not fit into an int.
Sleep ==
    /\ at' = "poll"
    /\ wake' = IF wait = Forever \/ wait >= MaxWait THEN Forever ELSE clock + wait
    /\ UNCHANGED <<run, now, cb_exec, wait>>

\* Wrong variant: the loop over the ready fibers is not followed by "continue".
CheckReady_noContinue ==
    /\ run = Main
    /\ at = "check"
    /\ IF Ready # {} THEN run' \in Ready /\ UNCHANGED loopVars
       ELSE IF Live = {} THEN at' = "stopped" /\ UNCHANGED <<run, now, cb_exec, wait, wake>>
       ELSE Sleep
    /\ UNCHANGED <<clock, timerVars, fiber>>

\* Ready fibers run first, and then everything starts over; with no fiber left
\* the loop ends; otherwise wait_ms is good and the task goes to sleep.
CheckReady ==
    /\ run = Main
    /\ at = "check"
    /\ IF Ready # {} THEN /\ run' \in Ready
                          /\ at' = "resume"
                          /\ UNCHANGED <<now, cb_exec, wait, wake>>
       ELSE IF Live = {} THEN at' = "stopped" /\ UNCHANGED <<run, now, cb_exec, wait, wake>>
       ELSE Sleep
    /\ UNCHANGED <<clock, timerVars, fiber>>

\* epoll_wait() is interrupted by a signal.
PollInterrupted ==
    /\ run = Main
    /\ at = "poll"
    /\ ToRun
    /\ UNCHANGED <<clock, timerVars, fiber, run>>

\* It times out.
PollTimeout ==
    /\ run = Main
    /\ at = "poll"
    /\ wake # Forever /\ clock >= wake
    /\ ToRun
    /\ UNCHANGED <<clock, timerVars, fiber, run>>

\* It hands an event to a fiber: finished io resumes a suspended fiber, a fiber
\* event resumes one that receives.
PollEvent(f) ==
    /\ run = Main
    /\ at \in {"poll", "polled"}
    /\ fiber[f] \in {"recv_timer", "recv_ev", "suspended"}
    /\ \E st \in Resumed(f) : fiber' = [fiber EXCEPT ![f] = st]
    /\ run' = f
    /\ at' = "polled"
    /\ UNCHANGED <<clock, timerVars, now, cb_exec, wait, wake>>

PollDone ==
    /\ run = Main
    /\ at = "polled"
    /\ ToRun
    /\ UNCHANGED <<clock, timerVars, fiber, run>>

\* The exit event (tt_task_exit), or an epoll_wait() that fails, ends the loop.
PollExit ==
    /\ run = Main
    /\ at \in {"poll", "polled"}
    /\ at' = "stopped"
    /\ UNCHANGED <<clock, timerVars, fiber, run, now, cb_exec, wait, wake>>

\* Wrong variant: the timers that are still in the heap are forgotten.
tt_task_wait_leak ==
    /\ at = "stopped"
    /\ at' = "destroyed"
    /\ fiber' = [f \in Fiber |-> "ended"]
    /\ unexpired' = [f \in Fiber |-> <<>>]
    /\ expired' = [f \in Fiber |-> <<>>]
    /\ ph' = tt_ptrheap_clear(ph)
    /\ Destroyed(UNION {Nodes(unexpired[f]) \cup Nodes(expired[f]) : f \in Fiber})
    /\ UNCHANGED <<clock, key, run, now, cb_exec, wait, wake>>

\* The thread ends: __thread_on_exit() destroys the fibers and with them their
\* timers.  tt_task_wait() then pops and destroys what is in the heap.
tt_task_wait ==
    /\ at = "stopped"
    /\ at' = "destroyed"
    /\ fiber' = [f \in Fiber |-> "ended"]
    /\ unexpired' = [f \in Fiber |-> <<>>]
    /\ expired' = [f \in Fiber |-> <<>>]
    /\ LET gone == Members(ph) \cup
                   UNION {Nodes(unexpired[f]) \cup Nodes(expired[f]) : f \in Fiber}
       IN  /\ status' = [t \in Timer |-> IF t \in gone THEN "free" ELSE status[t]]
           /\ owner' = [t \in Timer |-> IF t \in gone THEN NoFiber ELSE owner[t]]
    /\ ph' = tt_ptrheap_clear(ph)
    /\ UNCHANGED <<clock, key, run, now, cb_exec, wait, wake>>

MainNext ==
    \/ tt_tmr_mgr_run
    \/ ResumeReady
    \/ CheckReady
    \/ PollTimeout
    \/ PollInterrupted
    \/ \E f \in Fiber : PollEvent(f)
    \/ PollDone
    \/ PollExit
    \/ tt_task_wait

Next == Tick \/ (\E f \in Fiber : FiberNext(f)) \/ MainNext

Spec == Init /\ [][Next]_vars

\* A step that gives control back to the main fiber.
Pause == (\E f \in Fiber : FiberNext(f)) /\ run' = Main

\* Time passes; whoever executes goes on; the events of one wakeup are finitely
\* many (SF of PollDone); and fibers cooperate (SF of Pause): they do not pass
\* control among themselves for ever.  The scheduler gives no guarantee without
\* this: fibers that keep yielding to, or resuming, each other keep the main fiber
\* from running.
Fairness ==
    /\ WF_vars(Tick)
    /\ WF_vars(tt_tmr_mgr_run)
    /\ WF_vars(ResumeReady)
    /\ WF_vars(CheckReady)
    /\ WF_vars(PollTimeout)
    /\ SF_vars(PollDone)
    /\ \A f \in Fiber : WF_vars(FiberNext(f))
    /\ SF_vars(Pause)

FairSpec == Spec /\ Fairness

-----------------------------------------------------------------------------

\* The types of the timers, the fibers and the loop.
TypeOK ==
    /\ clock \in 1 .. 2 * MaxClock
    /\ ph \in Heap
    /\ key \in [Timer -> 0 .. MaxClock]
    /\ status \in [Timer -> {"free", "inactive", "active", "orphan"}]
    /\ owner \in [Timer -> Fiber \cup {NoFiber}]
    /\ unexpired \in [Fiber -> Seq(Timer)]
    /\ expired \in [Fiber -> Seq(Timer)]
    /\ fiber \in [Fiber -> FiberState]
    /\ run \in Fiber \cup {Main}
    /\ at \in Place
    /\ now \in 0 .. 2 * MaxClock
    /\ cb_exec \in BOOLEAN
    /\ wait \in (0 .. MaxClock) \cup {Forever}
    /\ wake \in (0 .. 2 * MaxClock) \cup {Forever}

(* What __ph_sanity_check() demands, for the heap of the manager: whatever     *)
(* fibers do with their timers between two turns of its loop, the head is the  *)
(* timer that expires first.                                                   *)
HeapOrder == Ordered(ph, key)

(* Memory: a timer in the heap is allocated; an allocated timer is in exactly  *)
(* one of the two lists of a live fiber, its owner, or it is an orphan in the  *)
(* heap and in no list.  So neither the manager nor a fiber ever follows a     *)
(* pointer to a freed timer, or from a timer to a freed fiber.                 *)
TimerLinks ==
    /\ \A t \in Members(ph) : status[t] # "free"
    /\ \A f \in Fiber, t \in Timer :
          /\ t \in Nodes(unexpired[f]) \cup Nodes(expired[f]) <=>
                status[t] \in {"active", "inactive"} /\ owner[t] = f
          /\ t \notin Nodes(unexpired[f]) \cap Nodes(expired[f])
    /\ \A t \in Timer :
          /\ status[t] \in {"active", "inactive"} => owner[t] \in Live
          /\ status[t] = "orphan" => t \in Members(ph)

(* TT_ASSERT_FEV(tmr->node.lst == &dst->unexpired_tmr) of tt_fiber_send_timer: *)
(* a timer that is to be delivered has not been delivered already.             *)
SendTimerAssert ==
    HeadIs("active") => LET t == tt_ptrheap_head(ph) IN t \in Nodes(unexpired[owner[t]])

(* A fiber that sleeps in tt_fiber_recv_timer() has no expired timer that it   *)
(* could have received: the check of the list and the going to sleep are not   *)
(* torn apart by an expiry, whoever ran in between.                            *)
NoMissedTimer ==
    \A f \in Fiber : fiber[f] = "recv_timer" /\ run # f => expired[f] = <<>>

(* No timer is delivered before its time.                                      *)
NotEarly == \A f \in Fiber : \A t \in Nodes(expired[f]) : key[t] <= clock

(* "wais_ms is accurate", as __task_routine() puts it: while the task sleeps,  *)
(* wait_ms is no longer than the first running timer has left, counted from    *)
(* when the manager last looked at the clock.  So the sleep, which begins      *)
(* later, ends after that timer is due by no more than the time in between,    *)
(* unless wait_ms does not fit into the int of epoll_wait().                   *)
AccurateWait ==
    at = "poll" => \A t \in Members(ph) : status[t] = "active" =>
                       /\ wait # Forever /\ now + wait <= key[t]
                       /\ wait < MaxWait => wake # Forever /\ wake <= key[t] + (clock - now)

(* tt_task_wait() leaves no timer behind. *)
NoTimerLeak == at = "destroyed" => \A t \in Timer : status[t] = "free"

(* A timer that was started expires, unless the task ends before: it leaves    *)
(* the heap, or is stopped or destroyed.                                       *)
TimerExpires ==
    \A t \in Timer :
        status[t] = "active" /\ t \in Members(ph) ~>
            \/ status[t] # "active"
            \/ t \notin Members(ph)
            \/ at \in {"stopped", "destroyed"}

(* Timers and their memory, through expiry, stop, destruction and the end of   *)
(* fibers: the heap is in order, nothing leads to a freed timer or fiber, and  *)
(* the assertion of tt_fiber_send_timer() holds.                               *)
TimerInv == TypeOK /\ HeapOrder /\ TimerLinks /\ SendTimerAssert
=============================================================================
