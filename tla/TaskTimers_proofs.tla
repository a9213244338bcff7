------------------------ MODULE TaskTimers_proofs ---------------------------
(***************************************************************************)
(* The timers of a task (TaskTimers.tla), proved for any number of fibers   *)
(* and timers, any delays and any bound of the clock: the heap of the       *)
(* manager is in order and leads to no freed timer, no timer expires early, *)
(* no expiry is missed, and the time the task sleeps fits the first timer.  *)
(*                                                                          *)
(* The inductive invariant has two halves.  One is about the timers: the    *)
(* heap (what its operations do is in ContainerLemmas), the lists of the    *)
(* fibers and the timers themselves.  The other is about the loop of the    *)
(* main fiber: what it knows of the clock and the heap when it goes to      *)
(* sleep.                                                                   *)
(***************************************************************************)
EXTENDS TaskTimers, ContainerLemmas, TLAPS

-----------------------------------------------------------------------------
(* The inductive invariant.                                                 *)

TimerTypes ==
    /\ key \in [Timer -> 0 .. MaxClock]
    /\ status \in [Timer -> {"free", "inactive", "active", "orphan"}]
    /\ owner \in [Timer -> Fiber \cup {NoFiber}]
    /\ unexpired \in [Fiber -> Seq(Timer)]
    /\ expired \in [Fiber -> Seq(Timer)]
    /\ fiber \in [Fiber -> FiberState]

LoopTypes ==
    /\ clock \in 1 .. 2 * MaxClock
    /\ run \in Fiber \cup {Main}
    /\ at \in Place
    /\ now \in 0 .. 2 * MaxClock
    /\ cb_exec \in BOOLEAN
    /\ wait \in (0 .. MaxClock) \cup {Forever}
    /\ wake \in (0 .. 2 * MaxClock) \cup {Forever}

\* A timer that has expired is out of the heap.
ExpiredOut ==
    \A f \in Fiber : /\ Distinct(unexpired[f]) /\ Distinct(expired[f])
                     /\ \A t \in Nodes(expired[f]) : t \notin Members(ph)

TimerPart == TimerTypes /\ IsHeap(ph, key) /\ ExpiredOut /\ TimerLinks

\* From the return of tt_tmr_mgr_run() to the end of the sleep no fiber runs, and
\* what it returned stays true; what it returned is counted from now.
WaitInv ==
    /\ at \in {"check", "poll", "stopped", "destroyed"} => run = Main
    /\ at \in {"check", "poll"} =>
          /\ \A t \in Members(ph) :
                status[t] = "active" => wait # Forever /\ now + wait <= key[t]
          /\ wait # Forever => now # 0 /\ now + wait <= MaxClock

\* Beyond MaxClock the clock stands still except in a sleep, and a sleep that began
\* at some time ends wait later.
ClockInv ==
    /\ now <= clock
    /\ at \in {"run", "check"} /\ clock > MaxClock => now = 0 \/ now = clock
    /\ at = "poll" /\ wait # Forever /\ wait < MaxWait => wake # Forever /\ wake <= clock + wait

LoopPart == LoopTypes /\ WaitInv /\ ClockInv

IInv == TimerPart /\ LoopPart /\ NoMissedTimer /\ NotEarly /\ NoTimerLeak

LEMMA Constants ==
    /\ Main \notin Fiber /\ NoFiber \notin Fiber /\ MaxClock \in Nat \ {0} /\ MaxWait \in Nat
    /\ Forever \notin Int /\ POS_NULL \notin Nat /\ Delay \subseteq Nat
  BY TimerAssumption

(* TimerLinks, taken apart.                                                   *)
LEMMA LinkFacts ==
    ASSUME TimerTypes
    PROVE  TimerLinks <=>
               /\ \A t \in Members(ph) : status[t] # "free"
               /\ \A f \in Fiber, t \in Timer :
                     /\ t \in Nodes(unexpired[f]) \/ t \in Nodes(expired[f]) <=>
                           (status[t] = "active" \/ status[t] = "inactive") /\ owner[t] = f
                     /\ ~(t \in Nodes(unexpired[f]) /\ t \in Nodes(expired[f]))
               /\ \A t \in Timer :
                     /\ status[t] = "active" \/ status[t] = "inactive" =>
                           owner[t] \in Fiber /\ fiber[owner[t]] # "ended"
                     /\ status[t] = "orphan" => t \in Members(ph)
  BY DEF TimerLinks, Live

(* Heap and keys.                                                             *)
LEMMA HeapState ==
    ASSUME TimerPart
    PROVE  /\ Sound(ph) /\ ph \in Heap /\ key \in [Item -> Nat] /\ Members(ph) \subseteq Timer
           /\ \A t \in Timer : ph.pos[t] = POS_NULL <=> t \notin Members(ph)
           /\ ph.node = <<>> <=> Members(ph) = {}
<1>1. Sound(ph) /\ ph \in Heap
  BY DEF TimerPart, IsHeap, Sound
<1>2. key \in [Item -> Nat]
  BY Constants DEF TimerPart, TimerTypes, Timer
<1>3. \A t \in Members(ph) : ph.pos[t] # POS_NULL
  BY <1>1, PosFacts, Constants
<1>. QED BY <1>1, <1>2, <1>3, PosFacts DEF Timer

(* The nodes of a list are timers.                                            *)
LEMMA ListsOfTimers ==
    ASSUME TimerTypes, NEW f \in Fiber
    PROVE  Nodes(unexpired[f]) \subseteq Timer /\ Nodes(expired[f]) \subseteq Timer
<1>1. unexpired[f] \in Seq(Timer) /\ expired[f] \in Seq(Timer)
  BY DEF TimerTypes
<1>. QED BY <1>1 DEF Nodes

(* A step that does not touch the timers.                                     *)
LEMMA QuietTimers ==
    ASSUME TimerPart, UNCHANGED timerVars, fiber' \in [Fiber -> FiberState],
           \A f \in Fiber : fiber[f] # "ended" => fiber'[f] # "ended"
    PROVE  TimerPart'
<1>1. TimerTypes'
  BY DEF TimerPart, TimerTypes, timerVars
<1>2. IsHeap(ph, key)'
  BY DEF TimerPart, timerVars
<1>3. ExpiredOut'
  BY DEF TimerPart, ExpiredOut, timerVars
<1>4. TimerLinks'
  BY DEF TimerPart, TimerLinks, Live, timerVars
<1>. QED BY <1>1, <1>2, <1>3, <1>4 DEF TimerPart

(* A step of a fiber leaves the loop where it is.                             *)
LEMMA QuietLoop ==
    ASSUME LoopPart, NoTimerLeak, run \in Fiber, UNCHANGED <<clock, loopVars>>, run' \in Fiber \cup {Main}
    PROVE  LoopPart' /\ NoTimerLeak'
<1>1. at \notin {"check", "poll", "stopped", "destroyed"}
  BY Constants DEF LoopPart, WaitInv
<1>2. LoopTypes'
  BY DEF LoopPart, LoopTypes, loopVars
<1>3. WaitInv' /\ ClockInv' /\ NoTimerLeak'
  BY <1>1 DEF LoopPart, WaitInv, ClockInv, NoTimerLeak, loopVars
<1>. QED BY <1>2, <1>3 DEF LoopPart

(* Who is not expired was not expired early, and is not missed.               *)
LEMMA QuietExpired ==
    ASSUME NotEarly, UNCHANGED <<key, expired>>, clock \in Nat, clock' \in Nat, clock <= clock',
           TimerTypes
    PROVE  NotEarly'
<1>. SUFFICES ASSUME NEW f \in Fiber, NEW t \in Nodes(expired[f]) PROVE key[t] <= clock'
  BY DEF NotEarly
<1>1. key[t] <= clock
  BY DEF NotEarly
<1>2. key[t] \in Nat
  BY ListsOfTimers, Constants DEF TimerTypes
<1>. QED BY <1>1, <1>2

-----------------------------------------------------------------------------
(* The steps of a fiber that do not touch its timers.                       *)

LEMMA FiberQuietKeeps ==
    ASSUME IInv, NEW f \in Fiber, run = f,
           UNCHANGED <<clock, timerVars, loopVars>>, run' \in Fiber \cup {Main},
           fiber' \in [Fiber -> FiberState],
           \A g \in Fiber : fiber[g] # "ended" => fiber'[g] # "ended",
           \A g \in Fiber : fiber'[g] = "recv_timer" /\ run' # g =>
                               expired[g] = <<>> \/ (fiber[g] = "recv_timer" /\ run # g)
    PROVE  IInv'
<1>1. TimerPart'
  BY QuietTimers DEF IInv
<1>2. LoopPart' /\ NoTimerLeak'
  BY QuietLoop DEF IInv
<1>3. NotEarly'
  <2>1. clock \in Nat /\ clock' = clock
    BY Constants DEF IInv, LoopPart, LoopTypes
  <2>. QED BY <2>1, QuietExpired DEF IInv, TimerPart, timerVars
<1>4. NoMissedTimer'
  BY DEF IInv, NoMissedTimer, timerVars
<1>. QED BY <1>1, <1>2, <1>3, <1>4 DEF IInv

\* Those steps.
FiberQuiet(f) ==
    \/ Receive(f) \/ WaitTimer(f) \/ NoTimer(f)
    \/ \E state \in FiberState : Suspend(f, state)
    \/ RecvEvAgain(f)
    \/ tt_fiber_yield(f)
    \/ \E g \in Fiber : (\E wt \in BOOLEAN : tt_fiber_send_ev(f, g, wt)) \/ tt_fiber_finish(f, g)

LEMMA FiberQuietStep ==
    ASSUME IInv, NEW f \in Fiber, FiberQuiet(f)
    PROVE  IInv'
<1>1. fiber \in [Fiber -> FiberState] /\ run \in Fiber \cup {Main} /\ NoMissedTimer
  BY DEF IInv, TimerPart, TimerTypes, LoopPart, LoopTypes
<1>2. HandOver => run' \in Fiber \cup {Main}
  BY DEF HandOver, Ready
<1>3. CASE Receive(f)
  BY <1>1, <1>3, FiberQuietKeeps DEF Receive, Executes, FiberState
<1>4. CASE WaitTimer(f)
  BY <1>1, <1>2, <1>4, FiberQuietKeeps DEF WaitTimer
<1>5. CASE NoTimer(f)
  BY <1>1, <1>5, FiberQuietKeeps DEF NoTimer, FiberState
<1>6. ASSUME NEW state \in FiberState, Suspend(f, state) PROVE IInv'
  BY <1>1, <1>2, <1>6, FiberQuietKeeps DEF Suspend, Executes, FiberState
<1>7. CASE RecvEvAgain(f)
  BY <1>1, <1>2, <1>7, FiberQuietKeeps DEF RecvEvAgain
<1>8. CASE tt_fiber_yield(f)
  BY <1>1, <1>8, FiberQuietKeeps DEF tt_fiber_yield, Executes, Ready
<1>9. ASSUME NEW g \in Fiber, NEW wt \in BOOLEAN, tt_fiber_send_ev(f, g, wt) PROVE IInv'
  <2>1. PICK st \in Resumed(g) :
            fiber' = [fiber EXCEPT ![g] = st, ![f] = IF wt THEN "suspended" ELSE @]
    BY <1>9 DEF tt_fiber_send_ev
  <2>2. st \in {"ready", "recv_timer"} /\ fiber[f] = "ready" /\ run = f /\ run' = g
        /\ f # g /\ UNCHANGED <<clock, timerVars, loopVars>>
    BY <1>9, <2>1 DEF tt_fiber_send_ev, Executes, Recving, Resumed
  <2>3. /\ fiber' \in [Fiber -> FiberState] /\ fiber'[g] = st
        /\ fiber'[f] \in {"ready", "suspended"}
        /\ \A x \in Fiber : x # f /\ x # g => fiber'[x] = fiber[x]
    BY <1>1, <2>1, <2>2 DEF FiberState
  <2>. QED BY <1>1, <2>2, <2>3, FiberQuietKeeps
<1>10. ASSUME NEW g \in Fiber, tt_fiber_finish(f, g) PROVE IInv'
  BY <1>1, <1>10, FiberQuietKeeps DEF tt_fiber_finish, Executes, FiberState
<1>. QED BY <1>3, <1>4, <1>5, <1>6, <1>7, <1>8, <1>9, <1>10 DEF FiberQuiet

-----------------------------------------------------------------------------
(* The steps of a fiber with its timers.                                    *)

LEMMA FiberTimerKeeps ==
    ASSUME IInv, NEW f \in Fiber, run = f, UNCHANGED <<clock, loopVars>>,
           run' \in Fiber \cup {Main}, TimerPart',
           \A g \in Fiber : \A t \in Nodes(expired'[g]) :
               t \in Nodes(expired[g]) /\ key'[t] = key[t],
           fiber'[f] # "recv_timer",
           \A g \in Fiber : g # f => fiber'[g] = fiber[g] /\ expired'[g] = expired[g]
    PROVE  IInv'
<1>1. LoopPart' /\ NoTimerLeak'
  BY QuietLoop DEF IInv
<1>2. NotEarly'
  BY DEF IInv, NotEarly
<1>3. NoMissedTimer'
  BY DEF IInv, NoMissedTimer
<1>. QED BY <1>1, <1>2, <1>3 DEF IInv

(* The state a fiber finds.                                                   *)
LEMMA FiberView ==
    ASSUME IInv, NEW f \in Fiber
    PROVE  /\ TimerPart /\ TimerTypes /\ IsHeap(ph, key) /\ ExpiredOut /\ TimerLinks
           /\ unexpired[f] \in Seq(Timer) /\ expired[f] \in Seq(Timer)
           /\ Distinct(unexpired[f]) /\ Distinct(expired[f])
           /\ clock \in Nat /\ MaxClock \in Nat /\ run \in Fiber \cup {Main}
<1>1. TimerPart /\ LoopTypes
  BY DEF IInv, LoopPart
<1>2. TimerTypes /\ IsHeap(ph, key) /\ ExpiredOut /\ TimerLinks
  BY <1>1 DEF TimerPart
<1>3. clock \in Nat /\ MaxClock \in Nat /\ run \in Fiber \cup {Main}
  BY <1>1, Constants DEF LoopTypes
<1>. QED BY <1>1, <1>2, <1>3 DEF TimerTypes, ExpiredOut

(* The same after a step.                                                     *)
LEMMA LinksAfter ==
    ASSUME \A t \in Members(ph') : status'[t] # "free",
           \A f \in Fiber, t \in Timer :
               /\ t \in Nodes(unexpired'[f]) \/ t \in Nodes(expired'[f]) <=>
                     (status'[t] = "active" \/ status'[t] = "inactive") /\ owner'[t] = f
               /\ ~(t \in Nodes(unexpired'[f]) /\ t \in Nodes(expired'[f])),
           \A t \in Timer :
               /\ status'[t] = "active" \/ status'[t] = "inactive" =>
                     owner'[t] \in Fiber /\ fiber'[owner'[t]] # "ended"
               /\ status'[t] = "orphan" => t \in Members(ph')
    PROVE  TimerLinks'
  BY DEF TimerLinks, Live

LEMMA CreateKeeps ==
    ASSUME IInv, NEW f \in Fiber, NEW t \in Timer, tt_tmr_create(f, t)
    PROVE  IInv'
<1>1. /\ TimerPart /\ TimerTypes /\ IsHeap(ph, key) /\ ExpiredOut /\ TimerLinks
      /\ unexpired[f] \in Seq(Timer) /\ Distinct(unexpired[f]) /\ run \in Fiber \cup {Main}
  BY FiberView
<1>2. /\ run = f /\ fiber[f] = "ready" /\ status[t] = "free"
      /\ UNCHANGED <<clock, ph, expired, fiber, run, loopVars>>
      /\ status' = [status EXCEPT ![t] = "inactive"]
      /\ owner' = [owner EXCEPT ![t] = f]
      /\ key' = [key EXCEPT ![t] = 0]
      /\ unexpired' = [unexpired EXCEPT ![f] = tt_list_push_tail(unexpired[f], t)]
  BY DEF tt_tmr_create, Executes
<1>3. /\ \A u \in Members(ph) : status[u] # "free"
      /\ \A g \in Fiber, u \in Timer :
            /\ u \in Nodes(unexpired[g]) \/ u \in Nodes(expired[g]) <=>
                  (status[u] = "active" \/ status[u] = "inactive") /\ owner[u] = g
            /\ ~(u \in Nodes(unexpired[g]) /\ u \in Nodes(expired[g]))
      /\ \A u \in Timer :
            /\ status[u] = "active" \/ status[u] = "inactive" =>
                  owner[u] \in Fiber /\ fiber[owner[u]] # "ended"
            /\ status[u] = "orphan" => u \in Members(ph)
  BY <1>1, LinkFacts
<1>4. t \notin Members(ph) /\ \A g \in Fiber : t \notin Nodes(unexpired[g]) /\ t \notin Nodes(expired[g])
  BY <1>2, <1>3
<1>5. /\ tt_list_push_tail(unexpired[f], t) \in Seq(Timer)
      /\ Nodes(tt_list_push_tail(unexpired[f], t)) = Nodes(unexpired[f]) \cup {t}
      /\ Distinct(tt_list_push_tail(unexpired[f], t))
  BY <1>1, <1>4, PushTail
<1>6. /\ unexpired' \in [Fiber -> Seq(Timer)] /\ Nodes(unexpired'[f]) = Nodes(unexpired[f]) \cup {t}
      /\ Distinct(unexpired'[f])
      /\ \A g \in Fiber : g # f => unexpired'[g] = unexpired[g]
  BY <1>1, <1>2, <1>5 DEF TimerTypes
<1>7. TimerTypes'
  <2>1. key' \in [Timer -> 0 .. MaxClock]
    BY <1>1, <1>2, Constants DEF TimerTypes
  <2>2. status' \in [Timer -> {"free", "inactive", "active", "orphan"}]
        /\ owner' \in [Timer -> Fiber \cup {NoFiber}]
    BY <1>1, <1>2 DEF TimerTypes
  <2>. QED BY <1>1, <1>2, <1>6, <2>1, <2>2 DEF TimerTypes
<1>8. IsHeap(ph, key)'
  <2>1. \A u \in Members(ph) : key'[u] = key[u]
    BY <1>1, <1>2, <1>4, HeapState DEF TimerTypes
  <2>2. IsHeap(ph, key')
    BY <1>1, <2>1, OrderedFrame
  <2>. QED BY <1>2, <2>2
<1>9. ExpiredOut'
  BY <1>1, <1>2, <1>6 DEF ExpiredOut
<1>10. /\ status'[t] = "inactive" /\ owner'[t] = f
       /\ \A u \in Timer : u # t => status'[u] = status[u] /\ owner'[u] = owner[u]
  BY <1>1, <1>2 DEF TimerTypes
<1>11. Members(ph) \subseteq Timer
  BY <1>1, HeapState
<1>12. TimerLinks'
  <2>1. \A u \in Members(ph') : status'[u] # "free"
    BY <1>2, <1>3, <1>10, <1>11
  <2>2. ASSUME NEW g \in Fiber, NEW u \in Timer
        PROVE  /\ u \in Nodes(unexpired'[g]) \/ u \in Nodes(expired'[g]) <=>
                     (status'[u] = "active" \/ status'[u] = "inactive") /\ owner'[u] = g
               /\ ~(u \in Nodes(unexpired'[g]) /\ u \in Nodes(expired'[g]))
    BY <1>2, <1>3, <1>4, <1>6, <1>10
  <2>3. \A u \in Timer :
            /\ status'[u] = "active" \/ status'[u] = "inactive" =>
                  owner'[u] \in Fiber /\ fiber'[owner'[u]] # "ended"
            /\ status'[u] = "orphan" => u \in Members(ph')
    BY <1>2, <1>3, <1>10
  <2>. QED BY <1>7, <2>1, <2>2, <2>3, LinksAfter
<1>13. TimerPart'
  BY <1>7, <1>8, <1>9, <1>12 DEF TimerPart
<1>14. \A g \in Fiber : \A u \in Nodes(expired'[g]) : u \in Nodes(expired[g]) /\ key'[u] = key[u]
  BY <1>1, <1>2, <1>4, ListsOfTimers DEF TimerTypes
<1>. QED BY <1>1, <1>2, <1>13, <1>14, FiberTimerKeeps

(* A timer that its fiber may use is in one list, and no other fiber has it.  *)
LEMMA OwnTimer ==
    ASSUME TimerPart, NEW f \in Fiber, NEW t \in Nodes(unexpired[f]) \cup Nodes(expired[f])
    PROVE  /\ t \in Timer /\ owner[t] = f /\ status[t] \in {"active", "inactive"}
           /\ \A g \in Fiber : g # f => t \notin Nodes(unexpired[g]) /\ t \notin Nodes(expired[g])
           /\ t \in Nodes(unexpired[f]) => t \notin Nodes(expired[f])
<1>1. t \in Timer
  BY ListsOfTimers DEF TimerPart
<1>. QED BY <1>1 DEF TimerPart, TimerLinks

LEMMA StartKeeps ==
    ASSUME IInv, NEW f \in Fiber, NEW t \in Timer, NEW d \in Delay, tt_tmr_start(f, t, d)
    PROVE  IInv'
<1>1. /\ TimerPart /\ TimerTypes /\ IsHeap(ph, key) /\ ExpiredOut /\ TimerLinks
      /\ clock \in Nat /\ MaxClock \in Nat /\ run \in Fiber \cup {Main}
  BY FiberView
<1> DEFINE ref == clock + d
<1>2. /\ run = f /\ fiber[f] = "ready" /\ t \in Nodes(unexpired[f]) /\ ref <= MaxClock
      /\ UNCHANGED <<clock, owner, unexpired, expired, fiber, run, loopVars>>
      /\ status' = [status EXCEPT ![t] = "active"]
      /\ key' = [key EXCEPT ![t] = ref]
      /\ \/ ph.pos[t] = POS_NULL /\ ph' = tt_ptrheap_add(ph, key', t)
         \/ ph.pos[t] = POS_NULL /\ ph' = ph
         \/ ph.pos[t] # POS_NULL /\ ph' = tt_ptrheap_fix(ph, key', ph.pos[t])
  BY DEF tt_tmr_start, Enqueue, Executes
<1>3. ref \in 0 .. MaxClock
  BY <1>1, <1>2, Constants
<1>. HIDE DEF ref
<1>4. /\ key' \in [Timer -> 0 .. MaxClock] /\ \A u \in Timer : u # t => key'[u] = key[u]
      /\ status' \in [Timer -> {"free", "inactive", "active", "orphan"}]
      /\ status'[t] = "active" /\ \A u \in Timer : u # t => status'[u] = status[u]
  BY <1>1, <1>2, <1>3 DEF TimerTypes
<1>5. TimerTypes'
  BY <1>1, <1>2, <1>4 DEF TimerTypes
<1>6. /\ t \in Timer /\ owner[t] = f /\ status[t] \in {"active", "inactive"}
      /\ \A g \in Fiber : t \notin Nodes(expired[g])
  BY <1>1, <1>2, OwnTimer
<1>7. /\ Sound(ph) /\ key \in [Item -> Nat] /\ Members(ph) \subseteq Timer
      /\ (ph.pos[t] = POS_NULL <=> t \notin Members(ph))
  BY <1>1, HeapState
<1>8. key' \in [Item -> Nat] /\ t \in Item
  BY <1>1, <1>4 DEF Timer
<1>9. \A u \in Members(ph) : u # t => key'[u] = key[u]
  BY <1>4, <1>7
<1>10. /\ IsHeap(ph', key')
       /\ Members(ph') = Members(ph) \/ Members(ph') = Members(ph) \cup {t}
  <2>1. CASE ph.pos[t] = POS_NULL
    <3>1. t \notin Members(ph) /\ IsHeap(ph, key')
      BY <1>1, <1>7, <1>9, <2>1, OrderedFrame
    <3>2. /\ IsHeap(tt_ptrheap_add(ph, key', t), key')
          /\ Members(tt_ptrheap_add(ph, key', t)) = Members(ph) \cup {t}
      BY <1>8, <3>1, AddFacts
    <3>. QED BY <1>2, <2>1, <3>1, <3>2
  <2>2. CASE ph.pos[t] # POS_NULL
    <3>1. t \in Members(ph)
      BY <1>7, <2>2
    <3>2. /\ IsHeap(tt_ptrheap_fix(ph, key', ph.pos[t]), key')
          /\ Members(tt_ptrheap_fix(ph, key', ph.pos[t])) = Members(ph)
      BY <1>1, <1>7, <1>8, <1>9, <3>1, FixChangedKey
    <3>. QED BY <1>2, <2>2, <3>2
  <2>. QED BY <2>1, <2>2
<1>11. ExpiredOut'
  BY <1>1, <1>2, <1>6, <1>10 DEF ExpiredOut
<1>12. TimerLinks'
  <2>1. /\ \A u \in Members(ph) : status[u] # "free"
        /\ \A g \in Fiber, u \in Timer :
              /\ u \in Nodes(unexpired[g]) \/ u \in Nodes(expired[g]) <=>
                    (status[u] = "active" \/ status[u] = "inactive") /\ owner[u] = g
              /\ ~(u \in Nodes(unexpired[g]) /\ u \in Nodes(expired[g]))
        /\ \A u \in Timer :
              /\ status[u] = "active" \/ status[u] = "inactive" =>
                    owner[u] \in Fiber /\ fiber[owner[u]] # "ended"
              /\ status[u] = "orphan" => u \in Members(ph)
    BY <1>1, LinkFacts
  <2>2. \A u \in Members(ph') : status'[u] # "free"
    BY <1>4, <1>7, <1>10, <2>1
  <2>3. ASSUME NEW g \in Fiber, NEW u \in Timer
        PROVE  /\ u \in Nodes(unexpired'[g]) \/ u \in Nodes(expired'[g]) <=>
                     (status'[u] = "active" \/ status'[u] = "inactive") /\ owner'[u] = g
               /\ ~(u \in Nodes(unexpired'[g]) /\ u \in Nodes(expired'[g]))
    BY <1>2, <1>4, <1>6, <2>1
  <2>4. \A u \in Timer :
            /\ status'[u] = "active" \/ status'[u] = "inactive" =>
                  owner'[u] \in Fiber /\ fiber'[owner'[u]] # "ended"
            /\ status'[u] = "orphan" => u \in Members(ph')
    BY <1>2, <1>4, <1>6, <1>10, <2>1
  <2>. QED BY <2>2, <2>3, <2>4, LinksAfter
<1>13. TimerPart'
  BY <1>5, <1>10, <1>11, <1>12 DEF TimerPart
<1>14. \A g \in Fiber : \A u \in Nodes(expired'[g]) : u \in Nodes(expired[g]) /\ key'[u] = key[u]
  BY <1>1, <1>2, <1>4, <1>6, ListsOfTimers
<1>. QED BY <1>1, <1>2, <1>13, <1>14, FiberTimerKeeps

LEMMA StopKeeps ==
    ASSUME IInv, NEW f \in Fiber, NEW t \in Timer, tt_tmr_stop(f, t)
    PROVE  IInv'
<1>1. /\ TimerPart /\ TimerTypes /\ IsHeap(ph, key) /\ ExpiredOut /\ TimerLinks
      /\ run \in Fiber \cup {Main}
  BY FiberView
<1>2. /\ run = f /\ fiber[f] = "ready" /\ t \in Nodes(unexpired[f]) \cup Nodes(expired[f])
      /\ UNCHANGED <<clock, ph, key, owner, unexpired, expired, fiber, run, loopVars>>
      /\ status' = [status EXCEPT ![t] = "inactive"]
  BY DEF tt_tmr_stop, Executes
<1>3. /\ status' \in [Timer -> {"free", "inactive", "active", "orphan"}]
      /\ status'[t] = "inactive" /\ \A u \in Timer : u # t => status'[u] = status[u]
  BY <1>1, <1>2 DEF TimerTypes
<1>4. TimerTypes' /\ IsHeap(ph, key)' /\ ExpiredOut'
  BY <1>1, <1>2, <1>3 DEF TimerTypes, ExpiredOut
<1>5. t \in Timer /\ owner[t] = f /\ status[t] \in {"active", "inactive"}
  BY <1>1, <1>2, OwnTimer
<1>6. Members(ph) \subseteq Timer
  BY <1>1, HeapState
<1>7. TimerLinks'
  <2>1. /\ \A u \in Members(ph) : status[u] # "free"
        /\ \A g \in Fiber, u \in Timer :
              /\ u \in Nodes(unexpired[g]) \/ u \in Nodes(expired[g]) <=>
                    (status[u] = "active" \/ status[u] = "inactive") /\ owner[u] = g
              /\ ~(u \in Nodes(unexpired[g]) /\ u \in Nodes(expired[g]))
        /\ \A u \in Timer :
              /\ status[u] = "active" \/ status[u] = "inactive" =>
                    owner[u] \in Fiber /\ fiber[owner[u]] # "ended"
              /\ status[u] = "orphan" => u \in Members(ph)
    BY <1>1, LinkFacts
  <2>2. \A u \in Members(ph') : status'[u] # "free"
    BY <1>2, <1>3, <1>6, <2>1
  <2>3. ASSUME NEW g \in Fiber, NEW u \in Timer
        PROVE  /\ u \in Nodes(unexpired'[g]) \/ u \in Nodes(expired'[g]) <=>
                     (status'[u] = "active" \/ status'[u] = "inactive") /\ owner'[u] = g
               /\ ~(u \in Nodes(unexpired'[g]) /\ u \in Nodes(expired'[g]))
    BY <1>2, <1>3, <1>5, <2>1
  <2>4. \A u \in Timer :
            /\ status'[u] = "active" \/ status'[u] = "inactive" =>
                  owner'[u] \in Fiber /\ fiber'[owner'[u]] # "ended"
            /\ status'[u] = "orphan" => u \in Members(ph')
    BY <1>2, <1>3, <1>5, <2>1
  <2>. QED BY <2>2, <2>3, <2>4, LinksAfter
<1>8. TimerPart'
  BY <1>4, <1>7 DEF TimerPart
<1>. QED BY <1>1, <1>2, <1>8, FiberTimerKeeps

(* tt_tmr_destroy() of timers the fiber has unlinked.                         *)
LEMMA DestroyedFacts ==
    ASSUME TimerPart, NEW S, S \subseteq Timer, Destroyed(S)
    PROVE  /\ status' \in [Timer -> {"free", "inactive", "active", "orphan"}]
           /\ owner' \in [Timer -> Fiber \cup {NoFiber}]
           /\ \A u \in S : status'[u] = IF u \in Members(ph) THEN "orphan" ELSE "free"
           /\ \A u \in Timer \ S : status'[u] = status[u] /\ owner'[u] = owner[u]
<1>1. \A t \in Timer : ph.pos[t] = POS_NULL <=> t \notin Members(ph)
  BY HeapState
<1>. QED BY <1>1 DEF Destroyed, TimerPart, TimerTypes

\* Fiber f has let go of the timers S.
LEMMA LetGo ==
    ASSUME TimerPart, NEW f \in Fiber, NEW S, Destroyed(S),
           S \subseteq Nodes(unexpired[f]) \cup Nodes(expired[f]),
           UNCHANGED <<ph, key>>, fiber' \in [Fiber -> FiberState],
           \A g \in Fiber : fiber[g] # "ended" /\ g # f => fiber'[g] # "ended",
           fiber'[f] = "ended" => S = Nodes(unexpired[f]) \cup Nodes(expired[f]),
           fiber[f] # "ended",
           unexpired' \in [Fiber -> Seq(Timer)], expired' \in [Fiber -> Seq(Timer)],
           \A g \in Fiber : g # f => unexpired'[g] = unexpired[g] /\ expired'[g] = expired[g],
           Distinct(unexpired'[f]), Distinct(expired'[f]),
           Nodes(unexpired'[f]) = Nodes(unexpired[f]) \ S,
           Nodes(expired'[f]) = Nodes(expired[f]) \ S
    PROVE  TimerPart'
<1>1. TimerTypes /\ IsHeap(ph, key) /\ ExpiredOut /\ TimerLinks
  BY DEF TimerPart
<1>2. S \subseteq Timer
  BY <1>1, ListsOfTimers
<1>3. /\ status' \in [Timer -> {"free", "inactive", "active", "orphan"}]
      /\ owner' \in [Timer -> Fiber \cup {NoFiber}]
      /\ \A u \in S : status'[u] = IF u \in Members(ph) THEN "orphan" ELSE "free"
      /\ \A u \in Timer \ S : status'[u] = status[u] /\ owner'[u] = owner[u]
  BY <1>2, DestroyedFacts
<1>4. TimerTypes' /\ IsHeap(ph, key)' /\ ExpiredOut'
  BY <1>1, <1>3 DEF TimerTypes, ExpiredOut
<1>5. \A u \in S : /\ owner[u] = f
                   /\ \A g \in Fiber : g # f => u \notin Nodes(unexpired[g]) /\ u \notin Nodes(expired[g])
  BY OwnTimer
<1>6. Members(ph) \subseteq Timer
  BY HeapState
<1>7. TimerLinks'
  <2>1. /\ \A u \in Members(ph) : status[u] # "free"
        /\ \A g \in Fiber, u \in Timer :
              /\ u \in Nodes(unexpired[g]) \/ u \in Nodes(expired[g]) <=>
                    (status[u] = "active" \/ status[u] = "inactive") /\ owner[u] = g
              /\ ~(u \in Nodes(unexpired[g]) /\ u \in Nodes(expired[g]))
        /\ \A u \in Timer :
              /\ status[u] = "active" \/ status[u] = "inactive" =>
                    owner[u] \in Fiber /\ fiber[owner[u]] # "ended"
              /\ status[u] = "orphan" => u \in Members(ph)
    BY <1>1, LinkFacts
  <2>2. \A u \in Members(ph') : status'[u] # "free"
    BY <1>3, <1>6, <2>1
  <2>3. ASSUME NEW g \in Fiber, NEW u \in Timer
        PROVE  /\ u \in Nodes(unexpired'[g]) \/ u \in Nodes(expired'[g]) <=>
                     (status'[u] = "active" \/ status'[u] = "inactive") /\ owner'[u] = g
               /\ ~(u \in Nodes(unexpired'[g]) /\ u \in Nodes(expired'[g]))
    <3>1. CASE u \in S
      <4>1. status'[u] # "active" /\ status'[u] # "inactive"
        BY <1>3, <3>1
      <4>2. u \notin Nodes(unexpired'[g]) /\ u \notin Nodes(expired'[g])
        <5>1. CASE g = f
          BY <3>1, <5>1
        <5>2. CASE g # f
          BY <1>5, <3>1, <5>2
        <5>. QED BY <5>1, <5>2
      <4>. QED BY <4>1, <4>2
    <3>2. CASE u \notin S
      <4>1. /\ u \in Nodes(unexpired'[g]) <=> u \in Nodes(unexpired[g])
            /\ u \in Nodes(expired'[g]) <=> u \in Nodes(expired[g])
        <5>1. CASE g = f
          BY <3>2, <5>1
        <5>2. CASE g # f
          BY <5>2
        <5>. QED BY <5>1, <5>2
      <4>2. status'[u] = status[u] /\ owner'[u] = owner[u]
        BY <1>3, <3>2
      <4>. QED BY <2>1, <4>1, <4>2
    <3>. QED BY <3>1, <3>2
  <2>4. ASSUME NEW u \in Timer
        PROVE  /\ status'[u] = "active" \/ status'[u] = "inactive" =>
                     owner'[u] \in Fiber /\ fiber'[owner'[u]] # "ended"
               /\ status'[u] = "orphan" => u \in Members(ph')
    <3>1. CASE u \in S
      BY <1>3, <3>1
    <3>2. CASE u \notin S
      <4>1. status'[u] = status[u] /\ owner'[u] = owner[u]
        BY <1>3, <3>2
      <4>2. ASSUME status[u] = "active" \/ status[u] = "inactive"
            PROVE  owner[u] \in Fiber /\ fiber'[owner[u]] # "ended"
        BY <2>1, <3>2, <4>2
      <4>. QED BY <2>1, <4>1, <4>2
    <3>. QED BY <3>1, <3>2
  <2>. QED BY <2>2, <2>3, <2>4, LinksAfter
<1>. QED BY <1>4, <1>7 DEF TimerPart

LEMMA DestroyKeeps ==
    ASSUME IInv, NEW f \in Fiber, NEW t \in Timer, tt_tmr_destroy(f, t)
    PROVE  IInv'
<1>1. /\ TimerPart /\ TimerTypes /\ run \in Fiber \cup {Main}
      /\ unexpired[f] \in Seq(Timer) /\ expired[f] \in Seq(Timer)
      /\ Distinct(unexpired[f]) /\ Distinct(expired[f])
  BY FiberView
<1>2. /\ run = f /\ fiber[f] = "ready" /\ t \in Nodes(unexpired[f]) \cup Nodes(expired[f])
      /\ UNCHANGED <<clock, ph, key, fiber, run, loopVars>>
      /\ unexpired' = [unexpired EXCEPT ![f] = tt_list_remove(unexpired[f], t)]
      /\ expired' = [expired EXCEPT ![f] = tt_list_remove(expired[f], t)]
      /\ Destroyed({t})
  BY DEF tt_tmr_destroy, Executes
<1>3. /\ tt_list_remove(unexpired[f], t) \in Seq(Timer)
      /\ Nodes(tt_list_remove(unexpired[f], t)) = Nodes(unexpired[f]) \ {t}
      /\ Distinct(tt_list_remove(unexpired[f], t))
  BY <1>1, RemoveNode
<1>4. /\ tt_list_remove(expired[f], t) \in Seq(Timer)
      /\ Nodes(tt_list_remove(expired[f], t)) = Nodes(expired[f]) \ {t}
      /\ Distinct(tt_list_remove(expired[f], t))
  BY <1>1, RemoveNode
<1>5. /\ unexpired' \in [Fiber -> Seq(Timer)] /\ expired' \in [Fiber -> Seq(Timer)]
      /\ \A g \in Fiber : g # f => unexpired'[g] = unexpired[g] /\ expired'[g] = expired[g]
      /\ Distinct(unexpired'[f]) /\ Distinct(expired'[f])
      /\ Nodes(unexpired'[f]) = Nodes(unexpired[f]) \ {t}
      /\ Nodes(expired'[f]) = Nodes(expired[f]) \ {t}
  BY <1>1, <1>2, <1>3, <1>4 DEF TimerTypes
<1>6. fiber' \in [Fiber -> FiberState] /\ fiber' = fiber
  BY <1>1, <1>2 DEF TimerTypes
<1>7. TimerPart'
  BY <1>1, <1>2, <1>5, <1>6, LetGo
<1>8. \A g \in Fiber : \A u \in Nodes(expired'[g]) : u \in Nodes(expired[g]) /\ key'[u] = key[u]
  BY <1>2, <1>5
<1>. QED BY <1>1, <1>2, <1>5, <1>7, <1>8, FiberTimerKeeps

LEMMA EndKeeps ==
    ASSUME IInv, NEW f \in Fiber, FiberEnd(f)
    PROVE  IInv'
<1>1. /\ TimerPart /\ TimerTypes /\ run \in Fiber \cup {Main}
  BY FiberView
<1> DEFINE S == Nodes(unexpired[f]) \cup Nodes(expired[f])
<1>2. /\ run = f /\ fiber[f] = "ready" /\ UNCHANGED <<clock, ph, key, loopVars>> /\ run' = Main
      /\ fiber' = [fiber EXCEPT ![f] = "ended"]
      /\ unexpired' = [unexpired EXCEPT ![f] = <<>>]
      /\ expired' = [expired EXCEPT ![f] = <<>>]
      /\ Destroyed(S)
  BY DEF FiberEnd, Executes
<1>3. <<>> \in Seq(Timer) /\ Nodes(<<>>) = {} /\ Distinct(<<>>)
  BY DEF Nodes, Distinct
<1>4. /\ unexpired' \in [Fiber -> Seq(Timer)] /\ expired' \in [Fiber -> Seq(Timer)]
      /\ fiber' \in [Fiber -> FiberState] /\ fiber'[f] = "ended"
      /\ \A g \in Fiber : g # f => /\ unexpired'[g] = unexpired[g] /\ expired'[g] = expired[g]
                                   /\ fiber'[g] = fiber[g]
      /\ unexpired'[f] = <<>> /\ expired'[f] = <<>>
  BY <1>1, <1>2, <1>3 DEF TimerTypes, FiberState
<1>5. /\ Distinct(unexpired'[f]) /\ Distinct(expired'[f])
      /\ Nodes(unexpired'[f]) = Nodes(unexpired[f]) \ S
      /\ Nodes(expired'[f]) = Nodes(expired[f]) \ S
  BY <1>3, <1>4
<1>6. TimerPart'
  BY <1>1, <1>2, <1>4, <1>5, LetGo
<1>7. \A g \in Fiber : \A u \in Nodes(expired'[g]) : u \in Nodes(expired[g]) /\ key'[u] = key[u]
  BY <1>2, <1>4, <1>5
<1>. QED BY <1>1, <1>2, <1>4, <1>6, <1>7, FiberTimerKeeps

LEMMA TakeKeeps ==
    ASSUME IInv, NEW f \in Fiber, TakeTimer(f)
    PROVE  IInv'
<1>1. /\ TimerPart /\ TimerTypes /\ IsHeap(ph, key) /\ ExpiredOut /\ TimerLinks
      /\ unexpired[f] \in Seq(Timer) /\ expired[f] \in Seq(Timer)
      /\ Distinct(unexpired[f]) /\ Distinct(expired[f]) /\ run \in Fiber \cup {Main}
  BY FiberView
<1> DEFINE t == Head(expired[f])
           rest == Tail(expired[f])
           more == tt_list_push_tail(unexpired[f], t)
<1>2. /\ run = f /\ fiber[f] = "recv_timer" /\ expired[f] # <<>>
      /\ UNCHANGED <<clock, ph, key, status, owner, run, loopVars>>
      /\ expired' = [expired EXCEPT ![f] = rest]
      /\ unexpired' = [unexpired EXCEPT ![f] = more]
      /\ fiber' = [fiber EXCEPT ![f] = "ready"]
  BY DEF TakeTimer
<1>3. /\ t \in Timer /\ rest \in Seq(Timer) /\ Distinct(rest)
      /\ Nodes(rest) = Nodes(expired[f]) \ {t} /\ t \in Nodes(expired[f])
  BY <1>1, <1>2, TailTakesHead
<1>. HIDE DEF t, rest
<1>4. /\ owner[t] = f /\ status[t] \in {"active", "inactive"} /\ t \notin Nodes(unexpired[f])
  BY <1>1, <1>3, OwnTimer
<1>5. more \in Seq(Timer) /\ Nodes(more) = Nodes(unexpired[f]) \cup {t} /\ Distinct(more)
  <2>1. unexpired[f] \in Seq(Timer) /\ t \in Timer /\ Distinct(unexpired[f])
        /\ t \notin Nodes(unexpired[f])
    BY <1>1, <1>3, <1>4
  <2>. QED BY ONLY <2>1, PushTail
<1>. HIDE DEF more
<1>6. /\ unexpired' \in [Fiber -> Seq(Timer)] /\ expired' \in [Fiber -> Seq(Timer)]
      /\ fiber' \in [Fiber -> FiberState] /\ fiber'[f] = "ready"
      /\ \A g \in Fiber : g # f => /\ unexpired'[g] = unexpired[g] /\ expired'[g] = expired[g]
                                   /\ fiber'[g] = fiber[g]
      /\ unexpired'[f] = more /\ expired'[f] = rest
  BY <1>1, <1>2, <1>3, <1>5 DEF TimerTypes, FiberState
<1>7. TimerTypes' /\ IsHeap(ph, key)'
  BY <1>1, <1>2, <1>6 DEF TimerTypes
<1>8. ExpiredOut'
  BY <1>1, <1>2, <1>3, <1>5, <1>6 DEF ExpiredOut
<1>9. TimerLinks'
  <2>1. /\ \A u \in Members(ph) : status[u] # "free"
        /\ \A g \in Fiber, u \in Timer :
              /\ u \in Nodes(unexpired[g]) \/ u \in Nodes(expired[g]) <=>
                    (status[u] = "active" \/ status[u] = "inactive") /\ owner[u] = g
              /\ ~(u \in Nodes(unexpired[g]) /\ u \in Nodes(expired[g]))
        /\ \A u \in Timer :
              /\ status[u] = "active" \/ status[u] = "inactive" =>
                    owner[u] \in Fiber /\ fiber[owner[u]] # "ended"
              /\ status[u] = "orphan" => u \in Members(ph)
    BY <1>1, LinkFacts
  <2>2. \A u \in Members(ph') : status'[u] # "free"
    BY <1>2, <2>1
  <2>3. ASSUME NEW g \in Fiber, NEW u \in Timer
        PROVE  /\ u \in Nodes(unexpired'[g]) \/ u \in Nodes(expired'[g]) <=>
                     (status'[u] = "active" \/ status'[u] = "inactive") /\ owner'[u] = g
               /\ ~(u \in Nodes(unexpired'[g]) /\ u \in Nodes(expired'[g]))
    <3>1. CASE g # f
      BY <1>2, <1>6, <2>1, <3>1
    <3>2. CASE g = f
      <4>1. u \in Nodes(unexpired'[g]) <=> u \in Nodes(unexpired[f]) \/ u = t
        BY <1>5, <1>6, <3>2
      <4>2. u \in Nodes(expired'[g]) <=> u \in Nodes(expired[f]) /\ u # t
        BY <1>3, <1>6, <3>2
      <4>. QED BY <1>2, <1>3, <2>1, <3>2, <4>1, <4>2
    <3>. QED BY <3>1, <3>2
  <2>4. ASSUME NEW u \in Timer
        PROVE  /\ status'[u] = "active" \/ status'[u] = "inactive" =>
                     owner'[u] \in Fiber /\ fiber'[owner'[u]] # "ended"
               /\ status'[u] = "orphan" => u \in Members(ph')
    BY <1>2, <1>6, <2>1
  <2>. QED BY <2>2, <2>3, <2>4, LinksAfter
<1>10. TimerPart'
  BY <1>7, <1>8, <1>9 DEF TimerPart
<1>11. \A g \in Fiber : \A u \in Nodes(expired'[g]) : u \in Nodes(expired[g]) /\ key'[u] = key[u]
  BY <1>2, <1>3, <1>6
<1>. QED BY <1>1, <1>2, <1>6, <1>10, <1>11, FiberTimerKeeps

LEMMA FiberKeeps ==
    ASSUME IInv, NEW f \in Fiber, FiberNext(f)
    PROVE  IInv'
  BY FiberQuietStep, CreateKeeps, StartKeeps, StopKeeps, DestroyKeeps, TakeKeeps, EndKeeps
  DEF FiberNext, FiberQuiet

-----------------------------------------------------------------------------
(* The main fiber.                                                          *)

(* What the numbers of the loop are.                                          *)
LEMMA LoopView ==
    ASSUME LoopPart
    PROVE  /\ clock \in Nat /\ clock # 0 /\ clock <= 2 * MaxClock /\ now \in Nat /\ now <= clock
           /\ MaxClock \in Nat /\ MaxClock # 0 /\ MaxWait \in Nat
           /\ wait # Forever => wait \in Nat /\ wait <= MaxClock
           /\ wake # Forever => wake \in Nat /\ wake <= 2 * MaxClock
           /\ run \in Fiber \cup {Main} /\ Main \notin Fiber /\ Forever \notin Int
  BY Constants DEF LoopPart, LoopTypes, ClockInv

\* A step of the main fiber that does not touch the timers.
LEMMA MainQuietKeeps ==
    ASSUME IInv, UNCHANGED timerVars, fiber' \in [Fiber -> FiberState],
           clock' \in Nat, clock <= clock',
           \A f \in Fiber : fiber[f] # "ended" => fiber'[f] # "ended",
           \A f \in Fiber : fiber'[f] = "recv_timer" /\ run' # f =>
                               fiber[f] = "recv_timer" /\ run # f,
           LoopPart', at' = "destroyed" => at = "destroyed"
    PROVE  IInv'
<1>1. TimerPart'
  BY QuietTimers DEF IInv
<1>2. NotEarly'
  BY LoopView, QuietExpired DEF IInv, TimerPart, timerVars
<1>3. NoMissedTimer'
  BY DEF IInv, NoMissedTimer, timerVars
<1>4. NoTimerLeak'
  BY DEF IInv, NoTimerLeak, timerVars
<1>. QED BY <1>1, <1>2, <1>3, <1>4 DEF IInv

LEMMA TickKeeps ==
    ASSUME IInv, Tick
    PROVE  IInv'
<1>1. /\ UNCHANGED <<timerVars, fiber, run, loopVars>> /\ clock' = clock + 1
      /\ clock < MaxClock \/ (at = "poll" /\ wake # Forever /\ clock < wake)
  BY DEF Tick
<1>2. LoopPart /\ fiber \in [Fiber -> FiberState]
  BY DEF IInv, TimerPart, TimerTypes
<1>3. clock' \in 1 .. 2 * MaxClock /\ clock <= clock' /\ clock' \in Nat
  BY <1>1, <1>2, LoopView
<1>4. LoopTypes'
  BY <1>1, <1>2, <1>3 DEF LoopPart, LoopTypes, loopVars
<1>5. WaitInv'
  BY <1>1, <1>2 DEF LoopPart, WaitInv, loopVars, timerVars
<1>6. ClockInv'
  <2>1. now' = now /\ at' = at
    BY <1>1 DEF loopVars
  <2>2. at \in {"run", "check"} => clock' <= MaxClock
    BY <1>1, <1>2, LoopView
  <2>3. now <= clock'
    BY <1>1, <1>2, LoopView
  <2>4. MaxClock' = MaxClock /\ MaxClock \in Nat
    BY <1>2, LoopView
  <2>5. at' = "poll" /\ wait' # Forever /\ wait' < MaxWait => wake' # Forever /\ wake' <= clock' + wait'
    <3>1. UNCHANGED <<at, wait, wake>>
      BY <1>1 DEF loopVars
    <3>2. at = "poll" /\ wait # Forever /\ wait < MaxWait => wake # Forever /\ wake <= clock + wait
      BY <1>2 DEF LoopPart, ClockInv
    <3>. QED BY <1>1, <1>2, <3>1, <3>2, LoopView
  <2>. QED BY <1>3, <2>1, <2>2, <2>3, <2>4, <2>5 DEF ClockInv
<1>7. LoopPart'
  BY <1>4, <1>5, <1>6 DEF LoopPart
<1>8. at' = at
  BY <1>1 DEF loopVars
<1>. QED BY <1>1, <1>2, <1>3, <1>7, <1>8, MainQuietKeeps DEF IInv

\* A new turn of the loop begins, or the main fiber leaves a sleep.
LEMMA LoopMoves ==
    ASSUME LoopPart, run' \in Fiber \cup {Main}, clock' = clock,
           at' \in Place, at' \notin {"check", "poll"},
           at' \in {"stopped", "destroyed"} => run' = Main,
           cb_exec' \in BOOLEAN, wait' = wait \/ wait' = Forever, wake' = wake \/ wake' = Forever,
           now' = 0 \/ (now' = now /\ (at' # "run" \/ at = "run"))
    PROVE  LoopPart'
<1>1. LoopTypes'
  BY LoopView DEF LoopPart, LoopTypes
<1>2. WaitInv'
  BY DEF WaitInv
<1>3. ClockInv'
  BY LoopView DEF LoopPart, ClockInv
<1>. QED BY <1>1, <1>2, <1>3 DEF LoopPart

LEMMA ResumeKeeps ==
    ASSUME IInv, ResumeReady
    PROVE  IInv'
<1>1. /\ run = Main /\ at = "resume" /\ UNCHANGED <<clock, timerVars, fiber>>
      /\ \/ Ready # {} /\ run' \in Ready /\ UNCHANGED loopVars
         \/ ToRun /\ run' = run
  BY DEF ResumeReady
<1>2. LoopPart /\ fiber \in [Fiber -> FiberState] /\ clock \in Nat /\ cb_exec \in BOOLEAN
      /\ now \in Nat
  BY LoopView DEF IInv, TimerPart, TimerTypes, LoopPart, LoopTypes
<1>3. LoopPart'
  <2>1. run' \in Fiber \cup {Main}
    BY <1>1 DEF Ready
  <2>2. CASE UNCHANGED loopVars
    BY <1>1, <1>2, <2>1, <2>2, LoopMoves DEF loopVars, Place
  <2>3. CASE ToRun
    BY <1>1, <1>2, <2>1, <2>3, LoopMoves DEF ToRun, Place
  <2>. QED BY <1>1, <2>2, <2>3
<1>4. \A f \in Fiber : run # f
  BY <1>1, Constants
<1>5. at' # "destroyed"
  BY <1>1 DEF ToRun, loopVars
<1>. QED BY <1>1, <1>2, <1>3, <1>4, <1>5, MainQuietKeeps

LEMMA CheckKeeps ==
    ASSUME IInv, CheckReady
    PROVE  IInv'
<1>1. /\ run = Main /\ at = "check" /\ UNCHANGED <<clock, timerVars, fiber>>
      /\ \/ run' \in Ready /\ at' = "resume" /\ UNCHANGED <<now, cb_exec, wait, wake>>
         \/ at' = "stopped" /\ UNCHANGED <<run, now, cb_exec, wait, wake>>
         \/ Sleep
  BY DEF CheckReady
<1>2. /\ LoopPart /\ fiber \in [Fiber -> FiberState] /\ clock \in Nat /\ cb_exec \in BOOLEAN
      /\ now \in Nat
  BY LoopView DEF IInv, TimerPart, TimerTypes, LoopPart, LoopTypes
<1>3. LoopPart'
  <2>1. CASE run' \in Ready /\ at' = "resume" /\ UNCHANGED <<now, cb_exec, wait, wake>>
    BY <1>1, <1>2, <2>1, LoopMoves DEF Place, Ready
  <2>2. CASE at' = "stopped" /\ UNCHANGED <<run, now, cb_exec, wait, wake>>
    BY <1>1, <1>2, <2>2, LoopMoves DEF Place
  <2>3. CASE Sleep
    <3>1. /\ at' = "poll" /\ UNCHANGED <<run, now, cb_exec, wait>>
          /\ wake' = Forever \/ (wait # Forever /\ wake' = clock + wait)
      BY <2>3 DEF Sleep
    <3>2. wait # Forever => now # 0 /\ now + wait <= MaxClock
      BY <1>1, <1>2 DEF LoopPart, WaitInv
    <3>3. clock > MaxClock => now = 0 \/ now = clock
      BY <1>1, <1>2 DEF LoopPart, ClockInv
    <3>4. wait # Forever => clock <= MaxClock
      BY <1>2, <3>2, <3>3, LoopView
    <3>5. wake' \in (0 .. 2 * MaxClock) \cup {Forever}
      BY <1>2, <3>1, <3>4, LoopView
    <3>6. LoopTypes'
      BY <1>1, <1>2, <3>1, <3>5 DEF LoopPart, LoopTypes, Place
    <3>7. WaitInv'
      BY <1>1, <1>2, <3>1 DEF LoopPart, WaitInv, timerVars
    <3>8. ClockInv'
      <4>1. wait # Forever /\ wait < MaxWait => wake' = clock + wait
        BY <1>2, <2>3, LoopView DEF Sleep
      <4>. QED BY <1>1, <1>2, <3>1, <4>1, LoopView DEF LoopPart, ClockInv
    <3>. QED BY <3>6, <3>7, <3>8 DEF LoopPart
  <2>. QED BY <1>1, <2>1, <2>2, <2>3
<1>4. \A f \in Fiber : run # f
  BY <1>1, Constants
<1>5. at' # "destroyed"
  BY <1>1 DEF Sleep
<1>. QED BY <1>1, <1>2, <1>3, <1>4, <1>5, MainQuietKeeps

\* epoll_wait() returns.
Polled ==
    PollTimeout \/ PollInterrupted \/ (\E f \in Fiber : PollEvent(f)) \/ PollDone \/ PollExit

LEMMA PollKeeps ==
    ASSUME IInv, Polled
    PROVE  IInv'
<1>1. /\ LoopPart /\ fiber \in [Fiber -> FiberState] /\ clock \in Nat /\ cb_exec \in BOOLEAN
      /\ now \in Nat /\ Main \notin Fiber
  BY LoopView DEF IInv, TimerPart, TimerTypes, LoopPart, LoopTypes
<1>2. CASE PollTimeout \/ PollInterrupted \/ PollDone
  <2>1. run = Main /\ at' = "run" /\ UNCHANGED <<clock, timerVars, fiber, run>> /\ ToRun
    BY <1>2 DEF PollTimeout, PollInterrupted, PollDone, ToRun
  <2>2. LoopPart'
    BY <1>1, <2>1, LoopMoves DEF ToRun, Place
  <2>. QED BY <1>1, <2>1, <2>2, MainQuietKeeps
<1>3. CASE PollExit
  <2>1. /\ run = Main /\ at' = "stopped"
        /\ UNCHANGED <<clock, timerVars, fiber, run, now, cb_exec, wait, wake>>
    BY <1>3 DEF PollExit
  <2>2. LoopPart'
    BY <1>1, <2>1, LoopMoves DEF Place
  <2>. QED BY <1>1, <2>1, <2>2, MainQuietKeeps
<1>4. ASSUME NEW f \in Fiber, PollEvent(f) PROVE IInv'
  <2>1. /\ run = Main /\ run' = f /\ at' = "polled"
        /\ UNCHANGED <<clock, timerVars, now, cb_exec, wait, wake>>
        /\ \E st \in Resumed(f) : fiber' = [fiber EXCEPT ![f] = st]
    BY <1>4 DEF PollEvent
  <2>2. PICK st \in Resumed(f) : fiber' = [fiber EXCEPT ![f] = st]
    BY <2>1
  <2>3. st \in {"ready", "recv_timer"}
    BY <2>2 DEF Resumed
  <2>4. /\ fiber' \in [Fiber -> FiberState] /\ fiber'[f] = st
        /\ \A g \in Fiber : g # f => fiber'[g] = fiber[g]
    BY <1>1, <2>2, <2>3 DEF FiberState
  <2>5. LoopPart'
    BY <1>1, <2>1, LoopMoves DEF Place
  <2>. QED BY <1>1, <2>1, <2>3, <2>4, <2>5, MainQuietKeeps
<1>. QED BY <1>2, <1>3, <1>4 DEF Polled

-----------------------------------------------------------------------------
(* tt_tmr_mgr_run().                                                        *)

(* The head of the heap, and the heap without it.                             *)
LEMMA HeadView ==
    ASSUME IInv, ph.node # <<>>, NEW h, h = tt_ptrheap_head(ph), NEW p, p = tt_ptrheap_pop(ph, key)
    PROVE  /\ h \in Members(ph) /\ h \in Timer /\ key[h] \in Nat /\ key[h] <= MaxClock
           /\ \A t \in Members(ph) : t \in Timer /\ key[t] \in Nat /\ key[h] <= key[t]
           /\ IsHeap(p, key) /\ Members(p) = Members(ph) \ {h}
<1>1. /\ TimerPart /\ key \in [Timer -> 0 .. MaxClock] /\ MaxClock \in Nat
  BY Constants DEF IInv, TimerPart, TimerTypes
<1>2. /\ key \in [Item -> Nat] /\ Members(ph) # {} /\ Members(ph) \subseteq Timer /\ IsHeap(ph, key)
  BY <1>1, HeapState DEF TimerPart
<1>3. h \in Members(ph) /\ \A t \in Members(ph) : key[h] <= key[t]
  BY <1>2, HeadIsLeast
<1>4. IsHeap(p, key) /\ Members(p) = Members(ph) \ {h}
  BY <1>2, PopFacts
<1>. QED BY <1>1, <1>2, <1>3, <1>4

(* The manager goes on with its loop.                                         *)
LEMMA LoopStays ==
    ASSUME IInv, Running, run' \in Fiber \cup {Main}, UNCHANGED <<clock, at, wait, wake>>,
           cb_exec' \in BOOLEAN, now' = now \/ now' = Now \/ now' = clock
    PROVE  LoopPart' /\ NoTimerLeak'
<1>1. LoopPart /\ at = "run"
  BY DEF IInv, Running
<1>2. clock \in Nat /\ now \in Nat /\ now <= clock /\ clock <= 2 * MaxClock /\ MaxClock \in Nat
  BY <1>1, LoopView
<1>3. /\ now' \in 0 .. 2 * MaxClock /\ now' <= clock
      /\ clock > MaxClock => now' = 0 \/ now' = clock
  BY <1>1, <1>2 DEF LoopPart, ClockInv, Now
<1>4. LoopTypes'
  BY <1>1, <1>3 DEF LoopPart, LoopTypes
<1>5. WaitInv' /\ ClockInv' /\ NoTimerLeak'
  BY <1>1, <1>3 DEF WaitInv, ClockInv, NoTimerLeak
<1>. QED BY <1>4, <1>5 DEF LoopPart

LEMMA RefreshKeeps ==
    ASSUME IInv, RunRefresh
    PROVE  IInv'
<1>1. /\ Running /\ run = Main /\ now' = clock /\ cb_exec' = FALSE
      /\ UNCHANGED <<clock, timerVars, fiber, run, at, wait, wake>>
  BY DEF RunRefresh, Running
<1>2. LoopPart /\ fiber \in [Fiber -> FiberState] /\ clock \in Nat
  BY LoopView DEF IInv, TimerPart, TimerTypes
<1>3. LoopPart'
  BY <1>1, LoopStays
<1>4. at' # "destroyed"
  BY <1>1 DEF Running
<1>. QED BY <1>1, <1>2, <1>3, <1>4, MainQuietKeeps

LEMMA WaitKeeps ==
    ASSUME IInv, RunWait
    PROVE  IInv'
<1> DEFINE h == tt_ptrheap_head(ph)
<1>1. /\ run = Main /\ at = "run" /\ now' = Now /\ wait' = key[h] - Now /\ at' = "check"
      /\ UNCHANGED <<clock, timerVars, fiber, run, cb_exec, wake>>
      /\ ph.node # <<>> /\ ~(key[h] <= Now)
  BY DEF RunWait, Running, HeadIs, HeadDue
<1>2. LoopPart /\ fiber \in [Fiber -> FiberState]
  BY DEF IInv, TimerPart, TimerTypes
<1>3. /\ clock \in Nat /\ clock # 0 /\ clock <= 2 * MaxClock /\ now \in Nat /\ now <= clock
      /\ MaxClock \in Nat /\ Forever \notin Int /\ Main \notin Fiber
  BY <1>2, LoopView
<1>4. /\ key[h] \in Nat /\ key[h] <= MaxClock
      /\ \A t \in Members(ph) : key[t] \in Nat /\ key[h] <= key[t]
  BY <1>1, HeadView
<1>. HIDE DEF h
<1>5. /\ now' \in 0 .. 2 * MaxClock /\ now' # 0 /\ now' <= clock
      /\ clock > MaxClock => now' = clock
  BY <1>1, <1>2, <1>3 DEF LoopPart, ClockInv, Now
<1>6. /\ wait' \in 0 .. MaxClock /\ wait' # Forever /\ now' + wait' = key[h]
  BY <1>1, <1>3, <1>4, <1>5
<1>7. LoopTypes'
  BY <1>1, <1>2, <1>5, <1>6 DEF LoopPart, LoopTypes, Place
<1>8. WaitInv'
  <2>1. ph' = ph /\ key' = key /\ run' = Main
    BY <1>1 DEF timerVars
  <2>. QED BY <1>4, <1>5, <1>6, <2>1 DEF WaitInv
<1>9. ClockInv'
  BY <1>1, <1>5 DEF ClockInv
<1>10. LoopPart'
  BY <1>7, <1>8, <1>9 DEF LoopPart
<1>. QED BY <1>1, <1>2, <1>3, <1>10, MainQuietKeeps

LEMMA IdleKeeps ==
    ASSUME IInv, RunIdle
    PROVE  IInv'
<1>1. /\ run = Main /\ at = "run" /\ wait' = Forever /\ at' = "check" /\ ph.node = <<>>
      /\ UNCHANGED <<clock, timerVars, fiber, run, now, cb_exec, wake>>
  BY DEF RunIdle, Running
<1>2. LoopPart /\ fiber \in [Fiber -> FiberState] /\ TimerPart
  BY DEF IInv, TimerPart, TimerTypes
<1>3. clock \in Nat /\ Main \notin Fiber
  BY <1>2, LoopView
<1>4. Members(ph') = {}
  BY <1>1, <1>2, HeapState DEF timerVars
<1>5. LoopTypes' /\ WaitInv' /\ ClockInv'
  BY <1>1, <1>2, <1>4 DEF LoopPart, LoopTypes, WaitInv, ClockInv, Place
<1>6. LoopPart'
  BY <1>5 DEF LoopPart
<1>. QED BY <1>1, <1>2, <1>3, <1>6, MainQuietKeeps

LEMMA DropKeeps ==
    ASSUME IInv, RunDrop
    PROVE  IInv'
<1> DEFINE h == tt_ptrheap_head(ph)
<1>1. /\ Running /\ ph.node # <<>> /\ status[h] = "inactive" /\ ph' = tt_ptrheap_pop(ph, key)
      /\ UNCHANGED <<clock, key, status, owner, unexpired, expired, fiber, run, loopVars>>
  BY DEF RunDrop, HeadIs
<1>2. /\ h \in Members(ph) /\ IsHeap(ph', key) /\ Members(ph') = Members(ph) \ {h}
  BY <1>1, HeadView
<1>. HIDE DEF h
<1>3. TimerTypes /\ ExpiredOut /\ TimerLinks /\ LoopTypes /\ NotEarly /\ NoMissedTimer
  BY DEF IInv, TimerPart, LoopPart
<1>4. TimerTypes' /\ IsHeap(ph, key)' /\ ExpiredOut'
  BY <1>1, <1>2, <1>3 DEF TimerTypes, ExpiredOut
<1>5. TimerLinks'
  BY <1>1, <1>2, <1>3 DEF TimerLinks, Live
<1>6. LoopPart' /\ NoTimerLeak'
  BY <1>1, <1>3, LoopStays DEF loopVars, LoopTypes
<1>7. NotEarly' /\ NoMissedTimer'
  BY <1>1, <1>3 DEF NotEarly, NoMissedTimer
<1>. QED BY <1>4, <1>5, <1>6, <1>7 DEF IInv, TimerPart

LEMMA ReapKeeps ==
    ASSUME IInv, RunReap
    PROVE  IInv'
<1> DEFINE h == tt_ptrheap_head(ph)
<1>1. /\ Running /\ ph.node # <<>> /\ status[h] = "orphan" /\ ph' = tt_ptrheap_pop(ph, key)
      /\ status' = [status EXCEPT ![h] = "free"] /\ owner' = [owner EXCEPT ![h] = NoFiber]
      /\ UNCHANGED <<clock, key, unexpired, expired, fiber, run, loopVars>>
  BY DEF RunReap, HeadIs
<1>2. /\ h \in Members(ph) /\ h \in Timer /\ IsHeap(ph', key) /\ Members(ph') = Members(ph) \ {h}
      /\ \A t \in Members(ph) : t \in Timer
  BY <1>1, HeadView
<1>. HIDE DEF h
<1>3. TimerTypes /\ ExpiredOut /\ TimerLinks /\ LoopTypes /\ NotEarly /\ NoMissedTimer
  BY DEF IInv, TimerPart, LoopPart
<1>4. /\ status' \in [Timer -> {"free", "inactive", "active", "orphan"}] /\ status'[h] = "free"
      /\ owner' \in [Timer -> Fiber \cup {NoFiber}]
      /\ \A t \in Timer : t # h => status'[t] = status[t] /\ owner'[t] = owner[t]
  BY <1>1, <1>2, <1>3 DEF TimerTypes
<1>5. TimerTypes' /\ IsHeap(ph, key)' /\ ExpiredOut'
  BY <1>1, <1>2, <1>3, <1>4 DEF TimerTypes, ExpiredOut
<1>6. TimerLinks'
  BY <1>1, <1>2, <1>3, <1>4 DEF TimerLinks, Live
<1>7. LoopPart' /\ NoTimerLeak'
  BY <1>1, <1>3, LoopStays DEF loopVars, LoopTypes
<1>8. NotEarly' /\ NoMissedTimer'
  BY <1>1, <1>3 DEF NotEarly, NoMissedTimer
<1>. QED BY <1>5, <1>6, <1>7, <1>8 DEF IInv, TimerPart

LEMMA ExpireKeeps ==
    ASSUME IInv, RunExpire
    PROVE  IInv'
<1> DEFINE h == tt_ptrheap_head(ph)
           g == owner[h]
           more == tt_list_push_tail(tt_list_remove(expired[g], h), h)
           rest == tt_list_remove(unexpired[g], h)
<1>1. /\ Running /\ ph.node # <<>> /\ status[h] = "active" /\ ph' = tt_ptrheap_pop(ph, key)
      /\ key[h] <= Now /\ now' = Now /\ cb_exec' = TRUE
      /\ unexpired' = [unexpired EXCEPT ![g] = rest]
      /\ expired' = [expired EXCEPT ![g] = more]
      /\ run' = IF Recving(g) THEN g ELSE run
      /\ UNCHANGED <<clock, key, status, owner, fiber, at, wait, wake>>
  BY DEF RunExpire, HeadIs, HeadDue, tt_fiber_send_timer
<1>2. /\ h \in Members(ph) /\ h \in Timer /\ IsHeap(ph', key) /\ Members(ph') = Members(ph) \ {h}
      /\ key[h] \in Nat
  BY <1>1, HeadView
<1>3. /\ TimerPart /\ TimerTypes /\ ExpiredOut /\ TimerLinks /\ LoopPart
      /\ NotEarly /\ NoMissedTimer
  BY DEF IInv, TimerPart
<1>. HIDE DEF h
<1>4. g \in Fiber /\ h \notin Nodes(expired[g])
      /\ \A f \in Fiber : f # g => h \notin Nodes(unexpired[f]) /\ h \notin Nodes(expired[f])
  BY <1>1, <1>2, <1>3 DEF TimerLinks, ExpiredOut, Live
<1>5. /\ unexpired[g] \in Seq(Timer) /\ expired[g] \in Seq(Timer)
      /\ Distinct(unexpired[g]) /\ Distinct(expired[g])
  BY <1>3, <1>4 DEF TimerTypes, ExpiredOut
<1>. HIDE DEF g
<1>6. rest \in Seq(Timer) /\ Nodes(rest) = Nodes(unexpired[g]) \ {h} /\ Distinct(rest)
  BY <1>5, RemoveNode
<1>7. h \in Timer
  BY <1>2
<1>8. more \in Seq(Timer) /\ Nodes(more) = Nodes(expired[g]) \cup {h} /\ Distinct(more)
  BY <1>5, <1>7, Requeue
<1>. HIDE DEF more, rest
<1>9. /\ unexpired' \in [Fiber -> Seq(Timer)] /\ expired' \in [Fiber -> Seq(Timer)]
      /\ unexpired'[g] = rest /\ expired'[g] = more
      /\ \A f \in Fiber : f # g => unexpired'[f] = unexpired[f] /\ expired'[f] = expired[f]
  BY <1>1, <1>3, <1>4, <1>6, <1>8 DEF TimerTypes
<1>10. TimerTypes' /\ IsHeap(ph, key)'
  BY <1>1, <1>2, <1>3, <1>9 DEF TimerTypes
<1>11. ExpiredOut'
  BY <1>2, <1>3, <1>6, <1>8, <1>9 DEF ExpiredOut
<1>12. TimerLinks'
  BY <1>1, <1>2, <1>3, <1>4, <1>6, <1>8, <1>9 DEF TimerLinks, Live, g
<1>13. run' \in Fiber \cup {Main}
  BY <1>1, <1>4 DEF Running
<1>14. LoopPart' /\ NoTimerLeak'
  BY <1>1, <1>13, LoopStays
<1>15. NotEarly'
  <2>1. clock \in Nat /\ now \in Nat /\ now <= clock
    BY <1>3, LoopView
  <2>2. key[h] <= clock
    BY <1>1, <1>2, <2>1 DEF Now
  <2>. QED BY <1>1, <1>3, <1>8, <1>9, <2>2 DEF NotEarly
<1>16. NoMissedTimer'
  <2>1. \A f \in Fiber : run # f
    BY <1>1, Constants DEF Running
  <2>2. fiber[g] = "recv_timer" => run' = g
    BY <1>1 DEF Recving
  <2>. QED BY <1>1, <1>3, <1>9, <2>1, <2>2 DEF NoMissedTimer
<1>. QED BY <1>10, <1>11, <1>12, <1>14, <1>15, <1>16 DEF IInv, TimerPart

LEMMA TaskWaitKeeps ==
    ASSUME IInv, tt_task_wait
    PROVE  IInv'
<1> DEFINE gone == Members(ph) \cup UNION {Nodes(unexpired[f]) \cup Nodes(expired[f]) : f \in Fiber}
<1>1. /\ at = "stopped" /\ at' = "destroyed" /\ fiber' = [f \in Fiber |-> "ended"]
      /\ unexpired' = [f \in Fiber |-> <<>>] /\ expired' = [f \in Fiber |-> <<>>]
      /\ status' = [t \in Timer |-> IF t \in gone THEN "free" ELSE status[t]]
      /\ owner' = [t \in Timer |-> IF t \in gone THEN NoFiber ELSE owner[t]]
      /\ ph' = tt_ptrheap_clear(ph)
      /\ UNCHANGED <<clock, key, run, now, cb_exec, wait, wake>>
  BY DEF tt_task_wait
<1>2. /\ TimerPart /\ TimerTypes /\ TimerLinks /\ LoopPart /\ IsHeap(ph, key)
  BY DEF IInv, TimerPart
<1>3. ph' = EmptyHeap
  BY <1>1, <1>2, ClearFacts DEF IsHeap
<1>4. IsHeap(ph', key') /\ Members(ph') = {}
  BY <1>3, EmptyHeapFacts
<1>5. \A t \in Timer : t \notin gone => status[t] = "free"
  <2>. SUFFICES ASSUME NEW t \in Timer, t \notin gone PROVE status[t] = "free"
    OBVIOUS
  <2>1. t \notin Members(ph) /\ \A f \in Fiber : t \notin Nodes(unexpired[f]) \cup Nodes(expired[f])
    OBVIOUS
  <2>2. status[t] \in {"active", "inactive"} => owner[t] \in Fiber
    BY <1>2 DEF TimerLinks, Live
  <2>3. status[t] \notin {"active", "inactive"}
    BY <1>2, <2>1, <2>2 DEF TimerLinks
  <2>4. status[t] # "orphan"
    BY <1>2, <2>1 DEF TimerLinks
  <2>. QED BY <1>2, <2>3, <2>4 DEF TimerTypes
<1>. HIDE DEF gone
<1>6. \A t \in Timer : status'[t] = "free"
  BY <1>1, <1>5
<1>7. <<>> \in Seq(Timer) /\ Nodes(<<>>) = {} /\ Distinct(<<>>)
  BY DEF Nodes, Distinct
<1>8. TimerTypes'
  BY <1>1, <1>2, <1>6, <1>7 DEF TimerTypes, FiberState
<1>9. ExpiredOut'
  BY <1>1, <1>7 DEF ExpiredOut
<1>10. TimerLinks'
  BY <1>1, <1>4, <1>6, <1>7 DEF TimerLinks
<1>11. LoopPart'
  <2>1. run' = Main /\ LoopTypes'
    BY <1>1, <1>2 DEF LoopPart, LoopTypes, WaitInv, Place
  <2>. QED BY <1>1, <1>2, <2>1 DEF LoopPart, WaitInv, ClockInv
<1>12. NoTimerLeak' /\ NotEarly' /\ NoMissedTimer'
  BY <1>1, <1>6, <1>7 DEF NoTimerLeak, NotEarly, NoMissedTimer
<1>. QED BY <1>4, <1>8, <1>9, <1>10, <1>11, <1>12 DEF IInv, TimerPart

LEMMA MainKeeps ==
    ASSUME IInv, MainNext
    PROVE  IInv'
  BY ExpireKeeps, RefreshKeeps, WaitKeeps, IdleKeeps, DropKeeps, ReapKeeps, ResumeKeeps, CheckKeeps,
     PollKeeps, TaskWaitKeeps
  DEF MainNext, tt_tmr_mgr_run, Polled

LEMMA InitIInv == Init => IInv
<1>. SUFFICES ASSUME Init PROVE IInv
  OBVIOUS
<1>1. <<>> \in Seq(Timer) /\ Nodes(<<>>) = {} /\ Distinct(<<>>)
  BY DEF Nodes, Distinct
<1>2. IsHeap(ph, key) /\ Members(ph) = {}
  BY EmptyHeapFacts DEF Init
<1>3. TimerTypes
  BY <1>1, Constants DEF Init, TimerTypes, FiberState
<1>4. ExpiredOut /\ TimerLinks
  BY <1>1, <1>2, Constants DEF Init, ExpiredOut, TimerLinks
<1>5. LoopTypes
  <2>1. MaxClock \in Nat /\ MaxClock # 0
    BY Constants
  <2>2. 1 \in 1 .. 2 * MaxClock /\ 0 \in 0 .. 2 * MaxClock
    BY <2>1
  <2>. QED BY <2>2 DEF Init, LoopTypes, Place
<1>6. WaitInv /\ ClockInv
  BY Constants DEF Init, WaitInv, ClockInv
<1>7. NoMissedTimer /\ NotEarly /\ NoTimerLeak
  BY <1>1 DEF Init, NoMissedTimer, NotEarly, NoTimerLeak
<1>. QED BY <1>2, <1>3, <1>4, <1>5, <1>6, <1>7 DEF IInv, TimerPart, LoopPart

LEMMA StutterKeeps ==
    ASSUME IInv, UNCHANGED vars
    PROVE  IInv'
<1>1. UNCHANGED <<clock, timerVars, fiber, run, loopVars>>
  BY DEF vars
<1>2. TimerTypes' /\ IsHeap(ph, key)' /\ ExpiredOut'
  BY <1>1 DEF IInv, TimerPart, TimerTypes, ExpiredOut, timerVars
<1>3. TimerLinks'
  BY <1>1 DEF IInv, TimerPart, TimerLinks, Live, timerVars
<1>4. LoopPart'
  BY <1>1 DEF IInv, LoopPart, LoopTypes, WaitInv, ClockInv, loopVars, timerVars
<1>5. NoMissedTimer' /\ NotEarly' /\ NoTimerLeak'
  BY <1>1 DEF IInv, NoMissedTimer, NotEarly, NoTimerLeak, loopVars, timerVars
<1>. QED BY <1>2, <1>3, <1>4, <1>5 DEF IInv, TimerPart

LEMMA NextKeeps ==
    ASSUME IInv, [Next]_vars
    PROVE  IInv'
  BY TickKeeps, FiberKeeps, MainKeeps, StutterKeeps DEF Next

(* What the parts say together.                                               *)
LEMMA TimerInvHolds == ASSUME IInv PROVE TimerInv
<1>1. /\ TimerPart /\ TimerTypes /\ IsHeap(ph, key) /\ ExpiredOut /\ TimerLinks /\ LoopTypes
  BY DEF IInv, TimerPart, LoopPart
<1>2. TypeOK
  BY <1>1, HeapState DEF TypeOK, TimerTypes, LoopTypes
<1>3. HeapOrder
  BY <1>1 DEF HeapOrder, IsHeap
<1>4. SendTimerAssert
  <2> DEFINE h == tt_ptrheap_head(ph)
  <2>. SUFFICES ASSUME ph.node # <<>>, status[h] = "active" PROVE h \in Nodes(unexpired[owner[h]])
    BY DEF SendTimerAssert, HeadIs
  <2>1. h \in Members(ph) /\ h \in Timer
    BY HeadView
  <2>2. owner[h] \in Fiber /\ h \in Nodes(unexpired[owner[h]]) \cup Nodes(expired[owner[h]])
    BY <1>1, <2>1 DEF TimerLinks, Live
  <2>. QED BY <1>1, <2>1, <2>2 DEF ExpiredOut
<1>. QED BY <1>1, <1>2, <1>3, <1>4 DEF TimerInv

(* The inductive invariant holds in every state the task reaches.             *)
THEOREM IInvHolds == Spec => []IInv
<1>1. Init => IInv
  BY InitIInv
<1>2. IInv /\ [Next]_vars => IInv'
  BY NextKeeps
<1>. QED BY <1>1, <1>2, PTL DEF Spec

(* Timers and their memory: whatever the fibers of a task start, stop, destroy *)
(* or take, and whenever one of them ends, the heap of tt_tmr_mgr_run() is in   *)
(* order, nothing in it or in a list is a freed timer, and the assertion of     *)
(* tt_fiber_send_timer() holds.                                               *)
THEOREM TimerInvCorrect == Spec => []TimerInv
<1>1. IInv => TimerInv
  BY TimerInvHolds
<1>. QED BY <1>1, IInvHolds, PTL

(* A fiber that sleeps in tt_fiber_recv_timer() has no expired timer in its     *)
(* list: tt_fiber_send_timer() resumes the one that waits.                    *)
THEOREM NoMissedTimerCorrect == Spec => []NoMissedTimer
<1>1. IInv => NoMissedTimer
  BY DEF IInv
<1>. QED BY <1>1, IInvHolds, PTL

(* tt_tmr_mgr_run() gives no timer to its fiber before the clock has passed its *)
(* absolute_ref, although it compares with a time it may have read earlier.   *)
THEOREM NotEarlyCorrect == Spec => []NotEarly
<1>1. IInv => NotEarly
  BY DEF IInv
<1>. QED BY <1>1, IInvHolds, PTL

(* While __task_routine() is in epoll_wait(), wait_ms is no longer than what the *)
(* first running timer had left when tt_tmr_mgr_run() last looked at the clock. *)
(* The sleep begins later, so it may end after the timer is due, by the time   *)
(* that passed in between and no more; of a wait_ms of MaxWait or longer, which *)
(* becomes a sleep without end, nothing is said.                              *)
THEOREM AccurateWaitCorrect == Spec => []AccurateWait
<1>1. IInv => AccurateWait
  <2>. SUFFICES ASSUME IInv, at = "poll", NEW t \in Members(ph), status[t] = "active"
                PROVE  /\ wait # Forever /\ now + wait <= key[t]
                       /\ wait < MaxWait => wake # Forever /\ wake <= key[t] + (clock - now)
    BY DEF AccurateWait
  <2>1. LoopPart /\ TimerPart
    BY DEF IInv
  <2>2. wait # Forever /\ now + wait <= key[t]
    BY <2>1 DEF LoopPart, WaitInv
  <2>3. wait < MaxWait => wake # Forever /\ wake <= clock + wait
    BY <2>1, <2>2 DEF LoopPart, ClockInv
  <2>4. key[t] \in Nat
    <3>1. t \in Timer
      BY <2>1, HeapState DEF TimerPart, Members
    <3>. QED BY <2>1, <3>1, Constants DEF TimerPart, TimerTypes
  <2>. QED BY <2>1, <2>2, <2>3, <2>4, LoopView
<1>. QED BY <1>1, IInvHolds, PTL

(* After tt_task_wait() every timer of the task is freed, the orphans in the heap *)
(* too.                                                                       *)
THEOREM NoTimerLeakCorrect == Spec => []NoTimerLeak
<1>1. IInv => NoTimerLeak
  BY DEF IInv
<1>. QED BY <1>1, IInvHolds, PTL
=============================================================================
