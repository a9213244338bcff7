--------------------------- MODULE Runtime_proofs ---------------------------
(***************************************************************************)
(* What a task runs on, proved for any number of parties: the scheduler of  *)
(* its fibers (FiberSched), its io poller (IoPoller) and the workers that   *)
(* do its file operations (IoWorkerGroup).  The three share the lemmas on   *)
(* lists and nothing else.                                                  *)
(***************************************************************************)
EXTENDS FiberSched, IoPoller, IoWorkerGroup, ContainerLemmas,
        FiniteSetTheorems, TLAPS

-----------------------------------------------------------------------------
(* The fiber scheduler, for any number of fibers and names.                 *)

\* Two lists that hold the live fibers, each once.
GoodLists(act, pen) ==
    /\ act \in Seq(Fiber)
    /\ pen \in Seq(Fiber)
    /\ Distinct(act)
    /\ Distinct(pen)
    /\ Nodes(act) \cap Nodes(pen) = {}
    /\ Nodes(act) \cup Nodes(pen) = Live

(* The lists stay good when the running fiber is queued again, whichever list   *)
(* it goes to; nobody else moves.                                               *)
LEMMA LeftLists ==
    ASSUME SchedInv, NEW pend \in BOOLEAN
    PROVE  /\ GoodLists(ActiveLeft(pend), PendingLeft(pend))
           /\ current = Main => /\ Nodes(ActiveLeft(pend)) = Nodes(active)
                                /\ Nodes(PendingLeft(pend)) = Nodes(pending)
           /\ current # Main /\ pend =>
                  /\ Nodes(ActiveLeft(pend)) = Nodes(active) \ {current}
                  /\ Nodes(PendingLeft(pend)) = Nodes(pending) \cup {current}
           /\ current # Main /\ ~pend =>
                  /\ Nodes(ActiveLeft(pend)) = Nodes(active)
                  /\ Nodes(PendingLeft(pend)) = Nodes(pending)
<1> USE DEF SchedInv, SchedTypeOK, AnyFiber
<1>1. CASE current = Main
  BY <1>1 DEF ActiveLeft, PendingLeft, GoodLists, ListInv
<1>2. CASE current # Main
  <2>1. current \in Fiber /\ current \in Nodes(active) /\ current \notin Nodes(pending)
    <3>1. current \in Fiber /\ active # <<>> /\ Head(active) = current
      BY <1>2 DEF CurrentInv
    <3>2. current \in Nodes(active)
      BY <3>1, HeadIsNode
    <3>. QED BY <3>1, <3>2 DEF ListInv
  <2> DEFINE a == tt_list_remove(active, current)
             p == tt_list_remove(pending, current)
  <2>2. a \in Seq(Fiber) /\ Nodes(a) = Nodes(active) \ {current} /\ Distinct(a)
    BY RemoveNode DEF ListInv
  <2>3. p \in Seq(Fiber) /\ Nodes(p) = Nodes(pending) \ {current} /\ Distinct(p)
    BY RemoveNode DEF ListInv
  <2> HIDE DEF a, p
  <2>4. CASE pend
    <3> DEFINE q == tt_list_push_tail(p, current)
    <3>1. q \in Seq(Fiber) /\ Nodes(q) = Nodes(p) \cup {current} /\ Distinct(q)
      <4>1. p \in Seq(Fiber) /\ current \in Fiber /\ Distinct(p) /\ current \notin Nodes(p)
        BY <2>1, <2>3
      <4>2. /\ q \in Seq(Fiber)
            /\ Nodes(q) = Nodes(p) \cup {current}
            /\ Distinct(p) /\ current \notin Nodes(p) => Distinct(q)
        BY <4>1, PushTail
      <4>. QED BY <4>1, <4>2
    <3>2. ActiveLeft(pend) = a /\ PendingLeft(pend) = q
      BY <1>2, <2>4 DEF ActiveLeft, PendingLeft, a, p
    <3> HIDE DEF q
    <3>3. /\ Nodes(a) \cap Nodes(q) = {}
          /\ Nodes(a) \cup Nodes(q) = Nodes(active) \cup Nodes(pending)
      BY <2>1, <2>2, <2>3, <3>1 DEF ListInv
    <3>4. GoodLists(a, q)
      BY <2>2, <3>1, <3>3 DEF GoodLists, ListInv
    <3>5. Nodes(q) = Nodes(pending) \cup {current}
      BY <2>1, <2>3, <3>1
    <3>. QED BY <1>2, <2>2, <2>4, <3>2, <3>4, <3>5
  <2>5. CASE ~pend
    <3> DEFINE q == tt_list_push_tail(a, current)
    <3>1. q \in Seq(Fiber) /\ Nodes(q) = Nodes(a) \cup {current} /\ Distinct(q)
      <4>1. a \in Seq(Fiber) /\ current \in Fiber /\ Distinct(a) /\ current \notin Nodes(a)
        BY <2>1, <2>2
      <4>2. /\ q \in Seq(Fiber)
            /\ Nodes(q) = Nodes(a) \cup {current}
            /\ Distinct(a) /\ current \notin Nodes(a) => Distinct(q)
        BY <4>1, PushTail
      <4>. QED BY <4>1, <4>2
    <3>2. ActiveLeft(pend) = q /\ PendingLeft(pend) = p
      BY <1>2, <2>5 DEF ActiveLeft, PendingLeft, a, p
    <3> HIDE DEF q
    <3>3. /\ Nodes(q) = Nodes(active)
          /\ Nodes(p) = Nodes(pending)
      BY <2>1, <2>2, <2>3, <3>1
    <3>4. GoodLists(q, p)
      BY <2>3, <3>1, <3>3 DEF GoodLists, ListInv
    <3>. QED BY <1>2, <2>5, <3>2, <3>3, <3>4
  <2>. QED BY <2>4, <2>5
<1>. QED BY <1>1, <1>2

(* A switch to a fiber that is alive lands on that fiber's own stack and files  *)
(* the context of the fiber that jumped where it belongs.                       *)
LEMMA SwitchLands ==
    ASSUME SchedInv, NEW to \in Live \cup {Main}, to # current, NEW act, NEW pen,
           tt_fiber_switch_wrap(current, to, act, pen)
    PROVE  /\ run' = to
           /\ current' = to
           /\ active' = act
           /\ pending' = pen
           /\ from' = [from EXCEPT ![to] = current]
           /\ life' = [f \in Fiber |-> IF f = to THEN "started" ELSE life[f]]
           /\ fctx' \in [AnyFiber -> AnyFiber \cup {NULL, Wild}]
           /\ fctx'[run] = run
           /\ \A f \in AnyFiber \ {run, to} :
                 fctx'[f] = IF fctx[f] = to THEN Wild ELSE fctx[f]
           /\ name' = name
           /\ destroyed' = destroyed
<1> USE DEF SchedInv, SchedTypeOK, AnyFiber
<1> DEFINE ctx == [fctx EXCEPT ![to] = IF @ = NULL THEN to ELSE @]
<1>1. run = current /\ to \in AnyFiber /\ to # run
  BY DEF CurrentInv, Live
<1>2. ctx \in [AnyFiber -> AnyFiber \cup {NULL, Wild}]
  BY <1>1
<1>3. ctx[to] = to
  <2>1. CASE to = Main \/ life[to] = "started"
    <3>1. fctx[to] = to
      BY <1>1, <2>1 DEF ContextInv
    <3>. QED BY <1>1, <3>1
  <2>2. CASE to # Main /\ life[to] = "new"
    <3>1. fctx[to] = NULL
      BY <2>2, <1>1 DEF NewInv
    <3>. QED BY <1>1, <3>1
  <2>. QED BY <2>1, <2>2 DEF Live
<1>4. to # Wild
  BY <1>1, SchedAssumption
<1>5. \A f \in AnyFiber \ {to} : ctx[f] = fctx[f]
  BY <1>1
<1> HIDE DEF ctx
<1> DEFINE wfrom == [from EXCEPT ![to] = current]
<1>6. wfrom[to] = current
  BY <1>1
<1>7. /\ run' = to
      /\ fctx' = [Consume(ctx, to) EXCEPT ![current] = run]
      /\ current' = to
      /\ life' = [f \in Fiber |-> IF f = to THEN "started" ELSE life[f]]
  BY <1>3, <1>4, <1>6
  DEF tt_fiber_switch_wrap, JumpTarget, Prev, ctx
<1>8. /\ fctx' \in [AnyFiber -> AnyFiber \cup {NULL, Wild}]
      /\ fctx'[run] = run
      /\ \A f \in AnyFiber \ {run, to} :
            fctx'[f] = IF fctx[f] = to THEN Wild ELSE fctx[f]
  BY <1>1, <1>2, <1>5, <1>7 DEF Consume
<1>. QED BY <1>7, <1>8 DEF tt_fiber_switch_wrap

(* So a switch keeps the invariant when the caller has built good lists with    *)
(* the fiber it switches to at the head of the active one.                      *)
LEMMA SwitchKeeps ==
    ASSUME SchedInv, ~destroyed, NEW to \in Live \cup {Main}, to # current,
           NEW act, NEW pen, GoodLists(act, pen),
           to \in Fiber => act # <<>> /\ Head(act) = to,
           tt_fiber_switch_wrap(current, to, act, pen)
    PROVE  SchedInv'
<1> USE DEF SchedInv, SchedTypeOK, AnyFiber
<1>1. /\ run' = to
      /\ current' = to
      /\ active' = act
      /\ pending' = pen
      /\ from' = [from EXCEPT ![to] = current]
      /\ life' = [f \in Fiber |-> IF f = to THEN "started" ELSE life[f]]
      /\ fctx' \in [AnyFiber -> AnyFiber \cup {NULL, Wild}]
      /\ fctx'[run] = run
      /\ \A f \in AnyFiber \ {run, to} :
            fctx'[f] = IF fctx[f] = to THEN Wild ELSE fctx[f]
      /\ name' = name
      /\ destroyed' = destroyed
  BY SwitchLands
<1>2. Live' = Live
  <2>1. \A f \in Fiber : life'[f] # "none" <=> life[f] # "none"
    BY <1>1, SchedAssumption DEF Live
  <2>. QED BY <2>1 DEF Live
<1>3. to \in AnyFiber /\ run = current
  BY DEF Live, CurrentInv
<1>4. SchedTypeOK'
  BY <1>1, <1>3 DEF GoodLists
<1>5. ListInv'
  BY <1>1, <1>2 DEF ListInv, GoodLists
<1>6. CurrentInv'
  BY <1>1 DEF CurrentInv
<1>7. ContextInv'
  <2> SUFFICES ASSUME NEW f \in AnyFiber, f # to,
                      f = Main \/ life'[f] = "started"
               PROVE  fctx'[f] = f
    BY <1>1 DEF ContextInv
  <2>1. CASE f = run
    BY <1>1, <2>1
  <2>2. CASE f # run
    <3>1. f = Main \/ life[f] = "started"
      BY <1>1
    <3>2. fctx[f] = f
      BY <3>1, <2>2 DEF ContextInv
    <3>. QED BY <1>1, <2>2, <3>2
  <2>. QED BY <2>1, <2>2
<1>8. UniqueNames'
  BY <1>1, <1>2 DEF UniqueNames
<1>9. NoLeak'
  BY <1>1 DEF NoLeak
<1>10. NewInv'
  <2>1. ASSUME NEW f \in Fiber, life'[f] = "new" PROVE fctx'[f] = NULL
    <3>1. f # to /\ life[f] = "new"
      BY <1>1, <2>1
    <3>2. f # run
      BY <3>1 DEF NewInv
    <3>3. fctx[f] = NULL
      BY <3>1 DEF NewInv
    <3>4. NULL # to
      BY <1>3, SchedAssumption
    <3>. QED BY <1>1, <3>1, <3>2, <3>3, <3>4
  <2>. QED BY <1>1, <2>1 DEF NewInv
<1>. QED BY <1>4, <1>5, <1>6, <1>7, <1>8, <1>9, <1>10

(* tt_fiber_create(): the new fiber is live, linked once, and its name, if it   *)
(* has one, is nobody else's.                                                   *)
LEMMA CreateKeeps ==
    ASSUME SchedInv, ~destroyed, NEW f \in Fiber, NEW nm \in Name \cup {NULL},
           tt_fiber_create(f, nm)
    PROVE  SchedInv'
<1> USE DEF SchedInv, SchedTypeOK, AnyFiber
<1>1. Live' = Live \cup {f} /\ f \notin Live
  BY DEF Live, tt_fiber_create
<1>2. f \notin Nodes(active) /\ f \notin Nodes(pending)
  BY <1>1 DEF ListInv
<1>3. /\ pending' \in Seq(Fiber)
      /\ Nodes(pending') = Nodes(pending) \cup {f}
      /\ Distinct(pending')
  <2>1. /\ tt_list_push_tail(pending, f) \in Seq(Fiber)
        /\ Nodes(tt_list_push_tail(pending, f)) = Nodes(pending) \cup {f}
        /\ Distinct(pending) /\ f \notin Nodes(pending)
             => Distinct(tt_list_push_tail(pending, f))
    BY PushTail
  <2>. QED BY <1>2, <2>1 DEF tt_fiber_create, ListInv
<1>4. f # run
  BY <1>1 DEF NewInv, Live
<1>5. SchedTypeOK'
  BY <1>3 DEF tt_fiber_create
<1>6. ListInv'
  BY <1>1, <1>2, <1>3 DEF tt_fiber_create, ListInv
<1>7. CurrentInv'
  BY DEF tt_fiber_create, CurrentInv
<1>8. ContextInv'
  BY SchedAssumption DEF tt_fiber_create, ContextInv
<1>9. UniqueNames'
  <2>1. \A g \in Live : nm # NULL => name[g] # nm
    BY DEF tt_fiber_create, tt_fiber_sched_find, ListInv
  <2>2. \A g \in Live : g # f /\ name'[g] = name[g] /\ g \in Fiber
    BY <1>1 DEF tt_fiber_create, Live
  <2>3. name'[f] = nm
    BY DEF tt_fiber_create
  <2>. QED BY <1>1, <2>1, <2>2, <2>3 DEF UniqueNames
<1>10. NoLeak'
  BY DEF tt_fiber_create, NoLeak
<1>11. NewInv'
  BY <1>4 DEF tt_fiber_create, NewInv
<1>. QED BY <1>5, <1>6, <1>7, <1>8, <1>9, <1>10, <1>11

(* tt_fiber_resume()                                                            *)
LEMMA ResumeKeeps ==
    ASSUME SchedInv, ~destroyed, NEW fb \in AnyFiber, NEW suspend \in BOOLEAN,
           tt_fiber_resume(fb, suspend)
    PROVE  SchedInv'
<1> DEFINE act == ActiveLeft(suspend)
           pen == PendingLeft(suspend)
<1>1. GoodLists(act, pen)
  BY LeftLists
<1>2. fb \in Live \cup {Main} /\ fb # current
  BY DEF tt_fiber_resume
<1>3. CASE fb = Main
  <2>1. tt_fiber_switch_wrap(current, fb, act, pen)
    BY <1>3 DEF tt_fiber_resume
  <2>2. fb \notin Fiber
    BY <1>3, SchedAssumption
  <2> HIDE DEF act, pen
  <2>. QED BY <1>1, <1>2, <2>1, <2>2, SwitchKeeps
<1>4. CASE fb # Main
  <2> DEFINE act1 == tt_list_remove(act, fb)
             act2 == tt_list_push_head(act1, fb)
             pen2 == tt_list_remove(pen, fb)
  <2>1. tt_fiber_switch_wrap(current, fb, act2, pen2)
    BY <1>4 DEF tt_fiber_resume
  <2>2. fb \in Fiber /\ fb \in Live
    BY <1>2, <1>4 DEF Live
  <2> HIDE DEF act, pen
  <2>3. act1 \in Seq(Fiber) /\ Nodes(act1) = Nodes(act) \ {fb} /\ Distinct(act1)
    BY <1>1, RemoveNode DEF GoodLists
  <2>4. pen2 \in Seq(Fiber) /\ Nodes(pen2) = Nodes(pen) \ {fb} /\ Distinct(pen2)
    BY <1>1, RemoveNode DEF GoodLists
  <2> HIDE DEF act1, pen2
  <2>5. fb \notin Nodes(act1)
    BY <2>3
  <2>6. /\ act2 \in Seq(Fiber)
        /\ Nodes(act2) = Nodes(act1) \cup {fb}
        /\ Distinct(act1) /\ fb \notin Nodes(act1) => Distinct(act2)
        /\ act2 # <<>>
        /\ Head(act2) = fb
    <3>1. act1 \in Seq(Fiber) /\ fb \in Fiber
      BY <2>2, <2>3
    <3>. QED BY ONLY <3>1, PushHead
  <2> HIDE DEF act2
  <2>7. /\ Nodes(act2) \cap Nodes(pen2) = {}
        /\ Nodes(act2) \cup Nodes(pen2) = Live
    BY <1>1, <2>2, <2>3, <2>4, <2>6 DEF GoodLists
  <2>8. GoodLists(act2, pen2)
    BY <2>3, <2>4, <2>5, <2>6, <2>7 DEF GoodLists
  <2>. QED BY <1>2, <2>1, <2>6, <2>8, SwitchKeeps
<1>. QED BY <1>3, <1>4

(* tt_fiber_yield() and tt_fiber_suspend()                                      *)
LEMMA YieldKeeps ==
    ASSUME SchedInv, ~destroyed, NEW pend \in BOOLEAN, __fiber_yield(pend)
    PROVE  SchedInv'
<1> DEFINE act == ActiveLeft(pend)
           pen == PendingLeft(pend)
           next == tt_fiber_sched_next(act)
<1>1. GoodLists(act, pen)
  BY LeftLists
<1>2. CASE next # current
  <2>1. tt_fiber_switch_wrap(current, next, act, pen)
    BY <1>2 DEF __fiber_yield
  <2> HIDE DEF act, pen
  <2>2. next \in Live \cup {Main} /\ (next \in Fiber => act # <<>> /\ Head(act) = next)
    <3>1. CASE act = <<>>
      BY <3>1, SchedAssumption DEF tt_fiber_sched_next
    <3>2. CASE act # <<>>
      <4>1. next = Head(act)
        BY <3>2 DEF tt_fiber_sched_next
      <4>2. act \in Seq(Fiber)
        BY <1>1 DEF GoodLists
      <4>3. Head(act) \in Nodes(act)
        BY <3>2, <4>2, HeadIsNode
      <4>. QED BY <1>1, <3>2, <4>1, <4>3 DEF GoodLists
    <3>. QED BY <3>1, <3>2
  <2> HIDE DEF next
  <2>. QED BY <1>1, <1>2, <2>1, <2>2, SwitchKeeps
<1>3. CASE next = current
  <2>1. /\ active' = act
        /\ pending' = pen
        /\ UNCHANGED <<current, run, life, name, fctx, from, destroyed>>
    BY <1>3 DEF __fiber_yield
  <2> HIDE DEF act, pen
  <2>2. current \in Fiber => act # <<>> /\ Head(act) = current
    BY <1>3, SchedAssumption DEF tt_fiber_sched_next
  <2>3. SchedTypeOK' /\ Live' = Live
    BY <1>1, <2>1 DEF SchedInv, SchedTypeOK, GoodLists, Live
  <2>4. ListInv' /\ CurrentInv'
    BY <1>1, <2>1, <2>2, <2>3 DEF SchedInv, ListInv, CurrentInv, GoodLists
  <2>5. ContextInv' /\ UniqueNames' /\ NoLeak' /\ NewInv'
    BY <2>1, <2>3 DEF SchedInv, ContextInv, UniqueNames, NoLeak, NewInv
  <2>. QED BY <2>3, <2>4, <2>5 DEF SchedInv
<1>. QED BY <1>2, <1>3

(* The end of a routine: the main fiber is there to be jumped to, and it frees  *)
(* exactly the fiber that ended.                                                *)
LEMMA EndKeeps ==
    ASSUME SchedInv, ~destroyed, FiberEnd
    PROVE  SchedInv'
<1> USE DEF SchedInv, SchedTypeOK, AnyFiber
<1>1. run \in Fiber /\ run # Main /\ life[run] = "started"
  BY SchedAssumption DEF FiberEnd, NewInv
<1>2. fctx[Main] = Main /\ Main # Wild
  BY <1>1, SchedAssumption DEF ContextInv
<1>3. [from EXCEPT ![Main] = run][Main] = run
  OBVIOUS
<1>4. /\ run' = Main
      /\ current' = Main
      /\ from' = [from EXCEPT ![Main] = run]
      /\ fctx' = Consume(fctx, Main)
      /\ active' = tt_list_remove(active, run)
      /\ pending' = tt_list_remove(pending, run)
      /\ life' = [life EXCEPT ![run] = "none"]
      /\ name' = [name EXCEPT ![run] = NULL]
      /\ destroyed' = destroyed
  BY <1>2, <1>3 DEF FiberEnd, JumpTarget, Prev
<1>5. /\ active' \in Seq(Fiber)
      /\ Nodes(active') = Nodes(active) \ {run}
      /\ Distinct(active')
  BY <1>4, RemoveNode DEF ListInv
<1>6. /\ pending' \in Seq(Fiber)
      /\ Nodes(pending') = Nodes(pending) \ {run}
      /\ Distinct(pending')
  BY <1>4, RemoveNode DEF ListInv
<1>7. Live' = Live \ {run}
  BY <1>1, <1>4 DEF Live
<1>8. SchedTypeOK'
  BY <1>1, <1>4, <1>5, <1>6 DEF Consume
<1>9. ListInv'
  BY <1>5, <1>6, <1>7 DEF ListInv
<1>10. CurrentInv'
  BY <1>4, SchedAssumption DEF CurrentInv
<1>11. ContextInv'
  <2> SUFFICES ASSUME NEW f \in AnyFiber, f # Main, life'[f] = "started"
               PROVE  fctx'[f] = f
    BY <1>4 DEF ContextInv
  <2>1. f # run /\ life[f] = "started"
    BY <1>1, <1>4
  <2>2. fctx[f] = f
    BY <2>1 DEF ContextInv
  <2>. QED BY <1>4, <2>2 DEF Consume
<1>12. UniqueNames'
  BY <1>4, <1>7 DEF UniqueNames, Live
<1>13. NoLeak'
  BY <1>4 DEF NoLeak
<1>14. NewInv'
  <2>1. ASSUME NEW f \in Fiber, life'[f] = "new" PROVE fctx'[f] = NULL
    <3>1. life[f] = "new" /\ fctx[f] = NULL /\ NULL # Main
      BY <1>1, <1>4, <2>1, SchedAssumption DEF NewInv
    <3>. QED BY <1>4, <3>1 DEF Consume
  <2>. QED BY <1>4, <2>1, SchedAssumption DEF NewInv
<1>. QED BY <1>8, <1>9, <1>10, <1>11, <1>12, <1>13, <1>14

(* tt_fiber_sched_destroy(): the two lists hold all there is to free.           *)
LEMMA DestroyKeeps ==
    ASSUME SchedInv, tt_fiber_sched_destroy
    PROVE  SchedInv'
<1> USE DEF SchedInv, SchedTypeOK, AnyFiber
<1>1. \A f \in Fiber : life'[f] = "none"
  BY DEF tt_fiber_sched_destroy, ListInv, Live
<1>2. Live' = {}
  BY <1>1 DEF Live
<1>3. SchedTypeOK'
  BY DEF tt_fiber_sched_destroy
<1>4. ListInv'
  BY <1>2 DEF tt_fiber_sched_destroy, ListInv, Nodes, Distinct
<1>5. CurrentInv'
  BY SchedAssumption DEF tt_fiber_sched_destroy, CurrentInv
<1>6. ContextInv'
  BY <1>1 DEF tt_fiber_sched_destroy, ContextInv
<1>7. UniqueNames' /\ NoLeak'
  BY <1>2 DEF UniqueNames, NoLeak
<1>8. NewInv'
  BY <1>1, SchedAssumption DEF tt_fiber_sched_destroy, NewInv
<1>. QED BY <1>3, <1>4, <1>5, <1>6, <1>7, <1>8

-----------------------------------------------------------------------------
(* The scheduler's invariant holds for any number of fibers: every live fiber   *)
(* is queued exactly once, the running fiber heads the active list, the context *)
(* of every other fiber is its own, names are unique and nothing leaks.         *)
THEOREM SchedulerInvariant == SchedSpec => []SchedInv
<1>1. SchedInit => SchedInv
  <2> SUFFICES ASSUME SchedInit PROVE SchedInv
    OBVIOUS
  <2>1. Live = {}
    BY DEF SchedInit, Live
  <2>2. SchedTypeOK
    <3>1. life \in [Fiber -> {"none", "new", "started"}]
      BY DEF SchedInit
    <3>2. name \in [Fiber -> Name \cup {NULL}]
      BY DEF SchedInit
    <3>3. fctx \in [AnyFiber -> AnyFiber \cup {NULL, Wild}]
      BY DEF SchedInit
    <3>4. from \in [AnyFiber -> AnyFiber \cup {NULL}]
      BY DEF SchedInit
    <3>5. active \in Seq(Fiber) /\ pending \in Seq(Fiber)
      BY DEF SchedInit
    <3>. QED BY <3>1, <3>2, <3>3, <3>4, <3>5 DEF SchedInit, SchedTypeOK, AnyFiber
  <2>3. ListInv
    BY <2>1 DEF SchedInit, ListInv, Nodes, Distinct
  <2>4. CurrentInv /\ ContextInv /\ NewInv
    BY SchedAssumption DEF SchedInit, CurrentInv, ContextInv, NewInv, AnyFiber
  <2>5. UniqueNames /\ NoLeak
    BY <2>1 DEF UniqueNames, NoLeak
  <2>. QED BY <2>2, <2>3, <2>4, <2>5 DEF SchedInv
<1>2. SchedInv /\ [SchedNext]_schedVars => SchedInv'
  <2> SUFFICES ASSUME SchedInv, [SchedNext]_schedVars PROVE SchedInv'
    OBVIOUS
  <2>1. CASE SchedNext
    BY <2>1, CreateKeeps, ResumeKeeps, YieldKeeps, EndKeeps, DestroyKeeps DEF SchedNext
  <2>2. CASE UNCHANGED schedVars
    BY <2>2 DEF schedVars, SchedInv, SchedTypeOK, ListInv, CurrentInv, ContextInv,
                UniqueNames, NoLeak, NewInv, Live
  <2>. QED BY <2>1, <2>2
<1>. QED BY <1>1, <1>2, PTL DEF SchedSpec

-----------------------------------------------------------------------------
(* The lists tt_fiber_resume() and __fiber_yield() queue the caller into, read   *)
(* as the sets of the contract.                                                 *)
LEMMA LeftSets ==
    ASSUME SchedInv, NEW pend \in BOOLEAN
    PROVE  /\ Nodes(ActiveLeft(pend)) =
                IF pend THEN Nodes(active) \ ({run} \ {Main}) ELSE Nodes(active)
           /\ Nodes(PendingLeft(pend)) =
                IF pend THEN Nodes(pending) \cup ({run} \ {Main}) ELSE Nodes(pending)
<1>1. run = current
  BY DEF SchedInv, CurrentInv
<1>2. CASE current = Main
  BY <1>1, <1>2, LeftLists
<1>3. CASE current # Main
  BY <1>1, <1>3, LeftLists
<1>. QED BY <1>2, <1>3

(* A resume is a transfer of control to the fiber that is named.                *)
LEMMA ResumeTransfers ==
    ASSUME SchedInv, ~destroyed, NEW fb \in AnyFiber, NEW suspend \in BOOLEAN,
           tt_fiber_resume(fb, suspend)
    PROVE  Coop!Transfer(fb, suspend) /\ fb # run
<1> DEFINE act == ActiveLeft(suspend)
           pen == PendingLeft(suspend)
           rdy == IF suspend THEN Nodes(active) \ ({run} \ {Main}) ELSE Nodes(active)
           wtg == IF suspend THEN Nodes(pending) \cup ({run} \ {Main}) ELSE Nodes(pending)
<1>1. GoodLists(act, pen) /\ Nodes(act) = rdy /\ Nodes(pen) = wtg
  BY LeftLists, LeftSets
<1>2. fb \in Live \cup {Main} /\ fb # current /\ fb # run
  BY DEF tt_fiber_resume, SchedInv, CurrentInv
<1>3. fb \in Nodes(active) \cup Nodes(pending) \cup {Main}
  BY <1>2 DEF SchedInv, ListInv
<1>4. CASE fb = Main
  <2>1. tt_fiber_switch_wrap(current, fb, act, pen)
    BY <1>4 DEF tt_fiber_resume
  <2> HIDE DEF act, pen
  <2>2. run' = fb /\ active' = act /\ pending' = pen /\ destroyed' = destroyed
    BY <1>2, <2>1, SwitchLands
  <2>. QED BY <1>1, <1>2, <1>3, <1>4, <2>2 DEF Coop!Transfer
<1>5. CASE fb # Main
  <2> DEFINE act1 == tt_list_remove(act, fb)
             act2 == tt_list_push_head(act1, fb)
             pen2 == tt_list_remove(pen, fb)
  <2>1. tt_fiber_switch_wrap(current, fb, act2, pen2)
    BY <1>5 DEF tt_fiber_resume
  <2>2. fb \in Fiber /\ ({fb} \ {Main}) = {fb}
    BY <1>2, <1>5 DEF Live
  <2> HIDE DEF act, pen, rdy, wtg
  <2>3. act1 \in Seq(Fiber) /\ Nodes(act1) = Nodes(act) \ {fb}
    BY <1>1, RemoveNode DEF GoodLists
  <2>4. Nodes(pen2) = Nodes(pen) \ {fb}
    BY <1>1, RemoveNode DEF GoodLists
  <2> HIDE DEF act1, pen2
  <2>5. /\ act2 \in Seq(Fiber)
        /\ Nodes(act2) = Nodes(act1) \cup {fb}
        /\ Distinct(act1) /\ fb \notin Nodes(act1) => Distinct(act2)
        /\ act2 # <<>>
        /\ Head(act2) = fb
    <3>1. act1 \in Seq(Fiber) /\ fb \in Fiber
      BY <2>2, <2>3
    <3>. QED BY ONLY <3>1, PushHead
  <2> HIDE DEF act2
  <2>6. run' = fb /\ active' = act2 /\ pending' = pen2 /\ destroyed' = destroyed
    BY <1>2, <2>1, SwitchLands
  <2>7. Nodes(active)' = rdy \cup {fb} /\ Nodes(pending)' = wtg \ {fb}
    BY <1>1, <2>3, <2>4, <2>5, <2>6
  <2>. QED BY <1>2, <1>3, <2>2, <2>6, <2>7 DEF Coop!Transfer, rdy, wtg
<1>. QED BY <1>4, <1>5

(* A yield or a suspension gives control up as the contract says.               *)
LEMMA YieldGivesUp ==
    ASSUME SchedInv, ~destroyed, NEW pend \in BOOLEAN, __fiber_yield(pend)
    PROVE  Coop!GiveUp(pend)
<1> DEFINE act == ActiveLeft(pend)
           pen == PendingLeft(pend)
           next == tt_fiber_sched_next(act)
           rdy == IF pend THEN Nodes(active) \ ({run} \ {Main}) ELSE Nodes(active)
           wtg == IF pend THEN Nodes(pending) \cup ({run} \ {Main}) ELSE Nodes(pending)
<1>1. GoodLists(act, pen) /\ Nodes(act) = rdy /\ Nodes(pen) = wtg
  BY LeftLists, LeftSets
<1>2. run = current
  BY DEF SchedInv, CurrentInv
<1>3. next # current => tt_fiber_switch_wrap(current, next, act, pen)
  BY DEF __fiber_yield
<1>4. next = current => active' = act /\ pending' = pen /\ UNCHANGED <<run, destroyed>>
  BY DEF __fiber_yield
<1> HIDE DEF act, pen, rdy, wtg
<1>5. next \in (IF Nodes(act) = {} THEN {Main} ELSE Nodes(act))
  <2>1. CASE act = <<>>
    <3>1. Nodes(act) = {}
      BY <2>1 DEF Nodes
    <3>. QED BY <2>1, <3>1 DEF tt_fiber_sched_next
  <2>2. CASE act # <<>>
    <3>1. act \in Seq(Fiber)
      BY <1>1 DEF GoodLists
    <3>2. Head(act) \in Nodes(act)
      BY <2>2, <3>1, HeadIsNode
    <3>. QED BY <2>2, <3>2 DEF tt_fiber_sched_next
  <2>. QED BY <2>1, <2>2
<1>6. next \in Live \cup {Main}
  BY <1>1, <1>5 DEF GoodLists
<1> HIDE DEF next
<1>7. run' = next /\ active' = act /\ pending' = pen /\ destroyed' = destroyed
  BY <1>2, <1>3, <1>4, <1>6, SwitchLands
<1>. QED BY <1>1, <1>5, <1>7 DEF Coop!GiveUp, rdy, wtg

(* The end of a routine takes the running fiber, and only it, away.             *)
LEMMA EndEnds ==
    ASSUME SchedInv, ~destroyed, FiberEnd
    PROVE  Coop!End
<1> USE DEF SchedInv, SchedTypeOK, AnyFiber
<1>1. run \in Fiber /\ run # Main /\ run = current
  BY SchedAssumption DEF FiberEnd, CurrentInv
<1>2. fctx[Main] = Main /\ Main # Wild
  BY <1>1, SchedAssumption DEF ContextInv
<1>3. [from EXCEPT ![Main] = run][Main] = run
  OBVIOUS
<1>4. /\ run' = Main
      /\ active' = tt_list_remove(active, run)
      /\ pending' = tt_list_remove(pending, run)
      /\ destroyed' = destroyed
  BY <1>2, <1>3 DEF FiberEnd, JumpTarget, Prev
<1>5. Nodes(active') = Nodes(active) \ {run}
  BY <1>4, RemoveNode DEF ListInv
<1>6. Nodes(pending') = Nodes(pending) \ {run}
  BY <1>4, RemoveNode DEF ListInv
<1>7. run \in Nodes(active) /\ run \notin Nodes(pending)
  <2>1. active # <<>> /\ Head(active) = run
    BY <1>1 DEF CurrentInv
  <2>2. run \in Nodes(active)
    BY <2>1, HeadIsNode
  <2>. QED BY <2>2 DEF ListInv
<1>. QED BY <1>1, <1>4, <1>5, <1>6, <1>7 DEF Coop!End

(* The scheduler with its lists and contexts implements the cooperative         *)
(* contract, for any number of fibers: control leaves the running fiber only    *)
(* when it calls resume, yield or suspend or ends, and lands where the contract *)
(* allows.                                                                      *)
THEOREM SchedulerImplementsCoop == SchedSpec => CoopSpec
<1>1. SchedInit => Coop!Init
  BY DEF SchedInit, Coop!Init, Nodes
<1>2. SchedInv /\ [SchedNext]_schedVars => [Coop!Next]_(Coop!coopVars)
  <2> SUFFICES ASSUME SchedInv, [SchedNext]_schedVars PROVE [Coop!Next]_(Coop!coopVars)
    OBVIOUS
  <2>1. CASE UNCHANGED schedVars
    BY <2>1 DEF schedVars, Coop!coopVars
  <2>2. ASSUME ~destroyed, NEW f \in Fiber, NEW nm \in Name \cup {NULL},
               tt_fiber_create(f, nm)
        PROVE  Coop!Next
    <3>1. f \notin Nodes(active) \cup Nodes(pending)
      BY <2>2 DEF tt_fiber_create, SchedInv, ListInv, Live
    <3>2. Nodes(tt_list_push_tail(pending, f)) = Nodes(pending) \cup {f}
      BY PushTail DEF SchedInv, SchedTypeOK
    <3>3. Coop!Create(f)
      BY <2>2, <3>1, <3>2 DEF tt_fiber_create, Coop!Create
    <3>. QED BY <2>2, <3>3 DEF Coop!Next
  <2>3. ASSUME ~destroyed, NEW fb \in AnyFiber, NEW suspend \in BOOLEAN,
               tt_fiber_resume(fb, suspend)
        PROVE  Coop!Next
    BY <2>3, ResumeTransfers DEF Coop!Next, AnyFiber
  <2>4. ASSUME ~destroyed, NEW pend \in BOOLEAN, __fiber_yield(pend)
        PROVE  Coop!Next
    BY <2>4, YieldGivesUp DEF Coop!Next
  <2>5. ASSUME ~destroyed, FiberEnd PROVE Coop!Next
    BY <2>5, EndEnds DEF Coop!Next
  <2>6. ASSUME ~destroyed, tt_fiber_sched_destroy PROVE Coop!Next
    <3>1. Coop!Destroy
      BY <2>6 DEF tt_fiber_sched_destroy, Coop!Destroy, Nodes
    <3>. QED BY <2>6, <3>1 DEF Coop!Next
  <2>. QED BY <2>1, <2>2, <2>3, <2>4, <2>5, <2>6 DEF SchedNext
<1>. QED BY <1>1, <1>2, SchedulerInvariant, PTL DEF SchedSpec, CoopSpec, Coop!Spec

-----------------------------------------------------------------------------
(* The io poller, for any number of senders and events.                     *)

(* A push leaves its sender owing the signal, so it never hides an event.    *)
LEMMA PushKeeps ==
    ASSUME PollerInv, NEW s \in Sender, NEW e \in PollerEv, NEW c \in Channel,
           e \in (IF c = "worker" THEN WorkEv ELSE MsgEv \cup ExitEv),
           Push(s, c, e)
    PROVE  PollerInv'
<1> USE DEF PollerInv, PollerTypeOK
<1>1. /\ queue' = [queue EXCEPT ![c] = tt_list_push_tail(@, e)]
      /\ owes' = [owes EXCEPT ![s] = c]
      /\ UNCHANGED <<evfd, at, chan, dl, handled>>
      /\ e \notin Nodes(dl) /\ e \notin Nodes(queue[c])
  BY DEF Push, Free
<1> DEFINE q == tt_list_push_tail(queue[c], e)
<1>2. q \in Seq(PollerEv) /\ Nodes(q) = Nodes(queue[c]) \cup {e} /\ Distinct(q)
  <2>1. queue[c] \in Seq(PollerEv) /\ Distinct(queue[c]) /\ e \notin Nodes(queue[c])
    BY <1>1 DEF ListsInv
  <2>2. /\ q \in Seq(PollerEv)
        /\ Nodes(q) = Nodes(queue[c]) \cup {e}
        /\ Distinct(queue[c]) /\ e \notin Nodes(queue[c]) => Distinct(q)
    BY <2>1, PushTail
  <2>. QED BY <2>1, <2>2
<1> HIDE DEF q
<1>3. queue'[c] = q /\ \A d \in Channel \ {c} : queue'[d] = queue[d]
  BY <1>1 DEF q
<1>4. queue' \in [Channel -> Seq(PollerEv)]
  <2>1. queue' = [queue EXCEPT ![c] = q]
    BY <1>1 DEF q
  <2>. QED BY <1>2, <2>1
<1>5. PollerTypeOK'
  BY <1>1, <1>4
<1>6. ListsInv'
  <2>1. ASSUME NEW d \in Channel
        PROVE  /\ Distinct(queue'[d])
               /\ Nodes(queue'[d]) \cap Nodes(dl) = {}
               /\ Nodes(queue'[d]) \subseteq
                     (IF d = "worker" THEN WorkEv ELSE MsgEv \cup ExitEv)
    <3>1. CASE d = c
      BY <1>1, <1>2, <1>3, <3>1 DEF ListsInv
    <3>2. CASE d # c
      BY <1>3, <3>2 DEF ListsInv
    <3>. QED BY <3>1, <3>2
  <2>. QED BY <1>1, <2>1 DEF ListsInv
<1>7. NoLostSignal'
  <2> SUFFICES ASSUME NEW d \in Channel, queue'[d] # <<>>, at # "destroyed"
               PROVE  \/ evfd[d] > 0
                      \/ \E t \in Sender : owes'[t] = d
                      \/ at = "move" /\ chan = d
    BY <1>1 DEF NoLostSignal
  <2>1. CASE d = c
    BY <1>1, <2>1
  <2>2. CASE d # c
    <3>1. \/ evfd[d] > 0
          \/ \E t \in Sender : owes[t] = d
          \/ at = "move" /\ chan = d
      BY <1>3, <2>2 DEF NoLostSignal
    <3>2. ASSUME NEW t \in Sender, owes[t] = d PROVE owes'[t] = d
      <4>1. t # s
        BY <3>2, PollerAssumption DEF Push
      <4>. QED BY <1>1, <3>2, <4>1
    <3>. QED BY <3>1, <3>2
  <2>. QED BY <2>1, <2>2
<1>8. ReadFindsSignal'
  BY <1>1 DEF ReadFindsSignal
<1>. QED BY <1>5, <1>6, <1>7, <1>8

(* A write discharges the debt of its sender and makes the channel readable. *)
LEMMA WriteKeeps ==
    ASSUME PollerInv, NEW s \in Sender, WriteEvfd(s)
    PROVE  PollerInv'
<1> USE DEF PollerInv, PollerTypeOK
<1>1. /\ owes[s] \in Channel
      /\ owes' = [owes EXCEPT ![s] = None]
      /\ evfd' = IF at = "destroyed" THEN evfd
                 ELSE [evfd EXCEPT ![owes[s]] = @ + 1]
      /\ UNCHANGED <<queue, at, chan, dl, handled>>
  BY DEF WriteEvfd
<1>2. /\ evfd' \in [Channel -> Nat]
      /\ \A d \in Channel : evfd'[d] >= evfd[d]
      /\ at # "destroyed" => evfd'[owes[s]] > 0
  BY <1>1
<1>3. PollerTypeOK'
  BY <1>1, <1>2
<1>4. ListsInv'
  BY <1>1 DEF ListsInv
<1>5. NoLostSignal'
  <2> SUFFICES ASSUME NEW d \in Channel, queue[d] # <<>>, at # "destroyed"
               PROVE  \/ evfd'[d] > 0
                      \/ \E t \in Sender : owes'[t] = d
                      \/ at = "move" /\ chan = d
    BY <1>1 DEF NoLostSignal
  <2>1. \/ evfd[d] > 0
        \/ \E t \in Sender : owes[t] = d
        \/ at = "move" /\ chan = d
    BY DEF NoLostSignal
  <2>2. CASE evfd[d] > 0
    BY <1>2, <2>2
  <2>3. ASSUME NEW t \in Sender, owes[t] = d
        PROVE  evfd'[d] > 0 \/ owes'[t] = d
    BY <1>1, <1>2, <2>3
  <2>. QED BY <2>1, <2>2, <2>3
<1>6. ReadFindsSignal'
  <2>1. CASE at = "read"
    <3>1. chan \in Channel /\ evfd[chan] > 0 /\ evfd'[chan] >= evfd[chan]
      BY <1>2, <2>1 DEF ReadFindsSignal
    <3>2. evfd[chan] \in Nat /\ evfd'[chan] \in Nat
      BY <1>2, <3>1
    <3>. QED BY <1>1, <3>1, <3>2 DEF ReadFindsSignal
  <2>2. CASE at # "read"
    BY <1>1, <2>2 DEF ReadFindsSignal
  <2>. QED BY <2>1, <2>2
<1>. QED BY <1>3, <1>4, <1>5, <1>6

(* The task's thread clears a counter only on its way to the list.           *)
LEMMA TaskKeeps ==
    ASSUME PollerInv, TaskNext
    PROVE  PollerInv'
<1> USE DEF PollerInv, PollerTypeOK, Place
<1>1. ASSUME NEW c \in Channel, tt_io_poller_run_ntv(c) PROVE PollerInv'
  <2>1. at = "wait" /\ evfd[c] > 0 /\ at' = "read" /\ chan' = c
        /\ UNCHANGED <<queue, evfd, owes, dl, handled>>
    BY <1>1 DEF tt_io_poller_run_ntv
  <2>2. PollerTypeOK'
    BY <2>1
  <2>3. ListsInv'
    BY <2>1, PollerAssumption DEF ListsInv
  <2>4. NoLostSignal'
    BY <2>1 DEF NoLostSignal
  <2>5. ReadFindsSignal'
    BY <2>1 DEF ReadFindsSignal
  <2>. QED BY <2>2, <2>3, <2>4, <2>5
<1>2. ASSUME ReadEvfd PROVE PollerInv'
  <2>1. /\ at = "read" /\ at' = "move"
        /\ evfd' = [evfd EXCEPT ![chan] = 0]
        /\ UNCHANGED <<queue, owes, chan, dl, handled>>
    BY <1>2 DEF ReadEvfd
  <2>2. chan \in Channel
    BY <2>1 DEF ReadFindsSignal
  <2>3. PollerTypeOK'
    BY <2>1, <2>2
  <2>4. ListsInv'
    BY <2>1 DEF ListsInv
  <2>5. NoLostSignal'
    <3> SUFFICES ASSUME NEW d \in Channel, queue[d] # <<>>
                 PROVE  \/ evfd'[d] > 0
                        \/ \E t \in Sender : owes[t] = d
                        \/ chan = d
      BY <2>1 DEF NoLostSignal
    <3>1. CASE d = chan
      BY <3>1
    <3>2. CASE d # chan
      BY <2>1, <2>2, <3>2 DEF NoLostSignal
    <3>. QED BY <3>1, <3>2
  <2>6. ReadFindsSignal'
    BY <2>1 DEF ReadFindsSignal
  <2>. QED BY <2>3, <2>4, <2>5, <2>6
<1>3. ASSUME MoveList PROVE PollerInv'
  <2>1. /\ at = "move" /\ at' = "handle"
        /\ dl' = dl \o queue[chan]
        /\ queue' = [queue EXCEPT ![chan] = <<>>]
        /\ UNCHANGED <<evfd, owes, chan, handled>>
    BY <1>3 DEF MoveList
  <2>2. dl = <<>> /\ chan \in Channel
    BY <2>1 DEF ListsInv
  <2>3. dl' = queue[chan]
    BY <2>1, <2>2, MoveIntoEmpty
  <2>4. PollerTypeOK'
    <3>1. <<>> \in Seq(PollerEv)
      OBVIOUS
    <3>. QED BY <2>1, <2>2, <2>3, <3>1
  <2>5. queue'[chan] = <<>> /\ \A d \in Channel \ {chan} : queue'[d] = queue[d]
    BY <2>1, <2>2
  <2>6. ListsInv'
    <3>1. ASSUME NEW d \in Channel
          PROVE  /\ Distinct(queue'[d])
                 /\ Nodes(queue'[d]) \cap Nodes(dl') = {}
                 /\ Nodes(queue'[d]) \subseteq
                       (IF d = "worker" THEN WorkEv ELSE MsgEv \cup ExitEv)
      <4>1. CASE d = chan
        <5>1. Nodes(queue'[d]) = {} /\ Distinct(queue'[d])
          BY <2>5, <4>1 DEF Nodes, Distinct
        <5>. QED BY <5>1
      <4>2. CASE d # chan
        <5>1. /\ Nodes(queue[d]) \subseteq
                    (IF d = "worker" THEN WorkEv ELSE MsgEv \cup ExitEv)
              /\ Nodes(queue[chan]) \subseteq
                    (IF chan = "worker" THEN WorkEv ELSE MsgEv \cup ExitEv)
              /\ Distinct(queue[d])
          BY <2>2 DEF ListsInv
        <5>2. Nodes(queue[d]) \cap Nodes(queue[chan]) = {}
          BY <2>2, <4>2, <5>1, PollerAssumption DEF Channel
        <5>. QED BY <2>3, <2>5, <4>2, <5>1, <5>2
      <4>. QED BY <4>1, <4>2
    <3>2. Distinct(dl') /\ Nodes(dl') \subseteq
             (IF chan = "worker" THEN WorkEv ELSE MsgEv \cup ExitEv)
      BY <2>2, <2>3 DEF ListsInv
    <3>3. chan' # None
      BY <2>1, <2>2, PollerAssumption
    <3>. QED BY <2>1, <3>1, <3>2, <3>3 DEF ListsInv
  <2>7. NoLostSignal'
    BY <2>1, <2>2, <2>5 DEF NoLostSignal
  <2>8. ReadFindsSignal'
    BY <2>1 DEF ReadFindsSignal
  <2>. QED BY <2>4, <2>6, <2>7, <2>8
<1>4. ASSUME HandleEv \/ HandleExit PROVE PollerInv'
  <2>1. /\ at = "handle" /\ dl # <<>>
        /\ handled' = Head(dl)
        /\ UNCHANGED <<queue, evfd, owes>>
        /\ \/ dl' = Tail(dl) /\ UNCHANGED <<at, chan>>
           \/ dl' = <<>> /\ at' = "stopped" /\ chan' = None
    BY <1>4 DEF HandleEv, HandleExit
  <2>2. /\ Head(dl) \in PollerEv
        /\ Tail(dl) \in Seq(PollerEv)
        /\ Nodes(Tail(dl)) \subseteq Nodes(dl)
        /\ Distinct(Tail(dl))
    BY <2>1, TailNodes DEF ListsInv
  <2>3. <<>> \in Seq(PollerEv) /\ Nodes(<<>>) = {} /\ Distinct(<<>>)
    BY DEF Nodes, Distinct
  <2>4. dl' \in Seq(PollerEv) /\ Nodes(dl') \subseteq Nodes(dl) /\ Distinct(dl')
    BY <2>1, <2>2, <2>3
  <2>5. PollerTypeOK'
    BY <2>1, <2>2, <2>4
  <2>6. ListsInv'
    BY <2>1, <2>4 DEF ListsInv
  <2>7. NoLostSignal' /\ ReadFindsSignal'
    BY <2>1 DEF NoLostSignal, ReadFindsSignal
  <2>. QED BY <2>5, <2>6, <2>7
<1>5. ASSUME HandlerReturns \/ FibersEnded \/ tt_io_poller_destroy_ntv PROVE PollerInv'
  <2>1. /\ UNCHANGED <<queue, evfd, owes, dl, handled>>
        /\ dl = <<>>
        /\ at' \in {"wait", "stopped", "destroyed"}
        /\ chan' = None
        /\ at \in {"handle", "wait", "stopped"}
    BY <1>5 DEF HandlerReturns, FibersEnded, tt_io_poller_destroy_ntv, ListsInv
  <2>2. PollerTypeOK' /\ ListsInv'
    BY <2>1 DEF ListsInv
  <2>3. NoLostSignal' /\ ReadFindsSignal'
    BY <2>1 DEF NoLostSignal, ReadFindsSignal
  <2>. QED BY <2>2, <2>3
<1>. QED BY <1>1, <1>2, <1>3, <1>4, <1>5 DEF TaskNext

(* For any number of senders and events, at every time: no event waits in a   *)
(* list without a signal being there or on its way, the asserted read() finds *)
(* its 8 bytes, and no event is linked twice or in the wrong list.            *)
THEOREM PollerInvariant == PollerSpec => []PollerInv
<1>1. PollerInit => PollerInv
  <2> SUFFICES ASSUME PollerInit PROVE PollerInv
    OBVIOUS
  <2>1. <<>> \in Seq(PollerEv) /\ Nodes(<<>>) = {} /\ Distinct(<<>>)
    BY DEF Nodes, Distinct
  <2>2. PollerTypeOK
    BY <2>1 DEF PollerInit, PollerTypeOK, Place
  <2>3. ListsInv
    BY <2>1 DEF PollerInit, ListsInv
  <2>. QED BY <2>2, <2>3 DEF PollerInit, PollerInv, NoLostSignal, ReadFindsSignal
<1>2. PollerInv /\ [PollerNext]_pollerVars => PollerInv'
  <2> SUFFICES ASSUME PollerInv, [PollerNext]_pollerVars PROVE PollerInv'
    OBVIOUS
  <2>1. ASSUME NEW s \in Sender, SenderNext(s) PROVE PollerInv'
    <3>1. ASSUME NEW e \in PollerEv, tt_io_poller_send_ntv(s, e) PROVE PollerInv'
      BY <3>1, PushKeeps DEF tt_io_poller_send_ntv, Channel
    <3>2. ASSUME NEW e \in PollerEv, tt_io_poller_exit_ntv(s, e) PROVE PollerInv'
      BY <3>2, PushKeeps DEF tt_io_poller_exit_ntv, Channel
    <3>3. ASSUME NEW e \in PollerEv, tt_io_poller_finish_ntv(s, e) PROVE PollerInv'
      BY <3>3, PushKeeps DEF tt_io_poller_finish_ntv, Channel
    <3>. QED BY <2>1, <3>1, <3>2, <3>3, WriteKeeps DEF SenderNext
  <2>2. CASE UNCHANGED pollerVars
    BY <2>2 DEF pollerVars, PollerInv, PollerTypeOK, ListsInv, NoLostSignal, ReadFindsSignal
  <2>. QED BY <2>1, <2>2, TaskKeeps DEF PollerNext
<1>. QED BY <1>1, <1>2, PTL DEF PollerSpec

(* The wakeup protocol of the poller loses no signal.                         *)
THEOREM NoSignalIsLost == PollerSpec => []NoLostSignal
<1>1. PollerInv => NoLostSignal
  BY DEF PollerInv
<1>. QED BY <1>1, PollerInvariant, PTL

(* TT_ASSERT(n == sizeof(uint64_t)) never fails.                              *)
THEOREM ReadAssertHolds == PollerSpec => []ReadFindsSignal
<1>1. PollerInv => ReadFindsSignal
  BY DEF PollerInv
<1>. QED BY <1>1, PollerInvariant, PTL

-----------------------------------------------------------------------------
(* The boxes of the abstract mailbox are sequences of events.                 *)
LEMMA BoxType ==
    ASSUME PollerInv, NEW c \in Channel
    PROVE  /\ Box(c) \in Seq(PollerEv)
           /\ Nodes(Box(c)) = Nodes(queue[c]) \cup (IF c = chan THEN Nodes(dl) ELSE {})
<1>1. queue[c] \in Seq(PollerEv) /\ dl \in Seq(PollerEv)
  BY DEF PollerInv, PollerTypeOK
<1>2. CASE c = chan
  <2>1. CASE PollerEv = {}
    <3>1. dl = <<>> /\ queue[c] = <<>>
      BY <1>1, <2>1
    <3>2. dl \o queue[c] = <<>>
      BY <3>1, <1>1, MoveIntoEmpty
    <3>. QED BY <1>1, <1>2, <3>1, <3>2 DEF Box, Nodes
  <2>2. CASE PollerEv # {}
    <3>1. PICK x \in PollerEv : TRUE
      BY <2>2
    <3>2. dl \o queue[c] \in Seq(PollerEv) /\ Nodes(dl \o queue[c]) = Nodes(dl) \cup Nodes(queue[c])
      BY <1>1, <3>1, ConcatLists
    <3>. QED BY <1>2, <3>2 DEF Box
  <2>. QED BY <2>1, <2>2
<1>3. CASE c # chan
  BY <1>1, <1>3 DEF Box
<1>. QED BY <1>2, <1>3

(* A push appends to the box of its channel, handler at work or not.          *)
LEMMA PushPuts ==
    ASSUME PollerInv, NEW s \in Sender, NEW e \in PollerEv, NEW c \in Channel,
           Push(s, c, e)
    PROVE  Mail!Put(c, e)
<1>1. /\ queue' = [queue EXCEPT ![c] = tt_list_push_tail(@, e)]
      /\ UNCHANGED <<at, chan, dl, handled>>
      /\ e \notin Nodes(dl) /\ e \notin Nodes(queue[c])
  BY DEF Push, Free
<1>2. queue \in [Channel -> Seq(PollerEv)] /\ dl \in Seq(PollerEv)
  BY DEF PollerInv, PollerTypeOK
<1>3. queue'[c] = Append(queue[c], e) /\ \A d \in Channel \ {c} : queue'[d] = queue[d]
  BY <1>1, <1>2 DEF tt_list_push_tail
<1>4. Box(c)' = Append(Box(c), e)
  <2>1. CASE c = chan
    <3>1. dl \o Append(queue[c], e) = Append(dl \o queue[c], e)
      BY <1>2, ConcatLists
    <3>. QED BY <1>1, <1>3, <2>1, <3>1 DEF Box
  <2>2. CASE c # chan
    BY <1>1, <1>3, <2>2 DEF Box
  <2>. QED BY <2>1, <2>2
<1>5. \A d \in Channel \ {c} : Box(d)' = Box(d)
  BY <1>1, <1>3 DEF Box
<1>6. e \notin Nodes(Box(c))
  BY <1>1, BoxType
<1>7. \A i \in DOMAIN Box(c) : Box(c)[i] # e
  BY <1>6 DEF Nodes
<1> DEFINE bx == [d \in Channel |-> Box(d)]
<1>8. bx[c] = Box(c)
  OBVIOUS
<1>9. [d \in Channel |-> Box(d)'] = [bx EXCEPT ![c] = Append(bx[c], e)]
  BY <1>4, <1>5
<1>10. UNCHANGED <<handled, Stopped>>
  BY <1>1 DEF Stopped
<1>. QED BY <1>7, <1>8, <1>9, <1>10 DEF Mail!Put

(* The steps that only fetch events, or signal, do not change the boxes.      *)
LEMMA FetchStutters ==
    ASSUME PollerInv,
           \/ \E s \in Sender : WriteEvfd(s)
           \/ \E c \in Channel : tt_io_poller_run_ntv(c)
           \/ ReadEvfd
           \/ MoveList
           \/ HandlerReturns
           \/ tt_io_poller_destroy_ntv
    PROVE  UNCHANGED Mail!mailVars
<1> USE DEF PollerInv, PollerTypeOK
<1>1. /\ UNCHANGED handled
      /\ Stopped' = Stopped
      /\ \/ UNCHANGED <<queue, dl, chan>>
         \/ UNCHANGED <<queue, dl>> /\ dl = <<>>
         \/ MoveList
  BY DEF WriteEvfd, tt_io_poller_run_ntv, ReadEvfd, MoveList, HandlerReturns,
         tt_io_poller_destroy_ntv, Stopped, ListsInv
<1>2. ASSUME NEW c \in Channel PROVE Box(c)' = Box(c)
  <2>1. CASE UNCHANGED <<queue, dl, chan>>
    BY <2>1 DEF Box
  <2>2. CASE UNCHANGED <<queue, dl>> /\ dl = <<>>
    <3>1. dl \o queue[c] = queue[c]
      BY <2>2, MoveIntoEmpty
    <3>. QED BY <2>2, <3>1 DEF Box
  <2>3. CASE MoveList
    <3>1. dl = <<>> /\ chan \in Channel /\ chan' = chan
      BY <2>3 DEF MoveList, ListsInv
    <3>2. dl' = queue[chan] /\ queue' = [queue EXCEPT ![chan] = <<>>]
      BY <2>3, <3>1, MoveIntoEmpty DEF MoveList
    <3>3. queue[c] \o <<>> = queue[c] /\ <<>> \o queue[c] = queue[c]
      BY MoveIntoEmpty
    <3>4. CASE c = chan
      BY <3>1, <3>2, <3>3, <3>4 DEF Box
    <3>5. CASE c # chan
      BY <3>1, <3>2, <3>5 DEF Box
    <3>. QED BY <3>4, <3>5
  <2>. QED BY <1>1, <2>1, <2>2, <2>3
<1>3. [c \in Channel |-> Box(c)'] = [c \in Channel |-> Box(c)]
  BY <1>2
<1>. QED BY <1>1, <1>3 DEF Mail!mailVars

(* Handling an event takes the first one of the box; an exit request throws   *)
(* away exactly what the handler had fetched.                                 *)
LEMMA HandleTakes ==
    ASSUME PollerInv, HandleEv \/ HandleExit \/ FibersEnded
    PROVE  Mail!Next
<1> USE DEF PollerInv, PollerTypeOK
<1> DEFINE bx == [d \in Channel |-> Box(d)]
<1>1. CASE HandleEv
  <2>1. /\ at = "handle" /\ dl # <<>> /\ handled' = Head(dl) /\ dl' = Tail(dl)
        /\ UNCHANGED <<queue, at, chan>>
        /\ chan \in Channel
    BY <1>1 DEF HandleEv, ListsInv
  <2>2. Head(dl) \in PollerEv
    BY <2>1, TailNodes
  <2>3. /\ dl \o queue[chan] # <<>>
        /\ Head(dl \o queue[chan]) = Head(dl)
        /\ Tail(dl \o queue[chan]) = Tail(dl) \o queue[chan]
    <3>1. dl \in Seq(PollerEv) /\ queue[chan] \in Seq(PollerEv)
      BY <2>1
    <3>. QED BY ONLY <2>1, <3>1
  <2>4. Box(chan) = dl \o queue[chan] /\ Box(chan)' = Tail(dl) \o queue[chan]
    BY <2>1 DEF Box
  <2>5. \A d \in Channel \ {chan} : Box(d)' = Box(d)
    BY <2>1 DEF Box
  <2>6. bx[chan] = Box(chan)
    BY <2>1
  <2>7. [d \in Channel |-> Box(d)'] = [bx EXCEPT ![chan] = Tail(bx[chan])]
    BY <2>1, <2>3, <2>4, <2>5, <2>6
  <2>8. Mail!Take(chan)
    BY <2>1, <2>3, <2>4, <2>6, <2>7 DEF Mail!Take, Stopped
  <2>. QED BY <2>1, <2>8 DEF Mail!Next
<1>2. CASE HandleExit
  <2>1. /\ at = "handle" /\ dl # <<>> /\ handled' = Head(dl) /\ dl' = <<>>
        /\ at' = "stopped" /\ chan' = None
        /\ UNCHANGED queue
        /\ chan \in Channel
    BY <1>2 DEF HandleExit, ListsInv
  <2>2. Head(dl) \in PollerEv
    BY <2>1, TailNodes
  <2> DEFINE q == queue[chan]
  <2>3. /\ Head(dl \o q) = Head(dl)
        /\ Len(dl) \in 0 .. Len(dl \o q)
        /\ SubSeq(dl \o q, Len(dl) + 1, Len(dl \o q)) = q
    BY <2>1, <2>2, ConcatLists
  <2>4. Len(dl) > 0
    BY <2>1
  <2>5. Box(chan) = dl \o q /\ \A d \in Channel : Box(d)' = queue[d]
    BY <2>1, PollerAssumption DEF Box
  <2>6. \A d \in Channel \ {chan} : Box(d) = queue[d]
    BY <2>1 DEF Box
  <2>7. bx[chan] = Box(chan)
    BY <2>1
  <2>8. [d \in Channel |-> Box(d)'] =
           [bx EXCEPT ![chan] = SubSeq(bx[chan], Len(dl) + 1, Len(bx[chan]))]
    BY <2>1, <2>3, <2>5, <2>6, <2>7
  <2>9. Mail!Stop(chan, Len(dl))
    BY <2>1, <2>3, <2>4, <2>5, <2>7, <2>8 DEF Mail!Stop, Stopped
  <2>. QED BY <2>1, <2>3, <2>5, <2>7, <2>9 DEF Mail!Next
<1>3. CASE FibersEnded
  <2>1. /\ at = "wait" /\ at' = "stopped"
        /\ UNCHANGED <<queue, chan, dl, handled>>
    BY <1>3 DEF FibersEnded
  <2>2. \A d \in Channel : Box(d)' = Box(d)
    BY <2>1 DEF Box
  <2> DEFINE c == "poller"
  <2>3. c \in Channel /\ Box(c) \in Seq(PollerEv)
    BY BoxType DEF Channel
  <2>4. SubSeq(Box(c), 0 + 1, Len(Box(c))) = Box(c) /\ 0 \in 0 .. Len(Box(c))
    BY <2>3
  <2>5. bx[c] = Box(c)
    BY <2>3
  <2>6. [d \in Channel |-> Box(d)'] = [bx EXCEPT ![c] = SubSeq(bx[c], 0 + 1, Len(bx[c]))]
    BY <2>2, <2>3, <2>4, <2>5
  <2>7. Mail!Stop(c, 0)
    BY <2>1, <2>6 DEF Mail!Stop, Stopped
  <2>. QED BY <2>3, <2>4, <2>5, <2>7 DEF Mail!Next
<1>. QED BY <1>1, <1>2, <1>3

(* The poller implements the mailbox for any number of senders and events:    *)
(* every event is taken once, in the order of the pushes, until the task      *)
(* stops.                                                                     *)
THEOREM PollerImplementsMailbox == PollerSpec => MailboxSpec
<1>1. PollerInit => Mail!Init
  <2> SUFFICES ASSUME PollerInit PROVE Mail!Init
    OBVIOUS
  <2>1. \A c \in Channel : Box(c) = <<>>
    BY PollerAssumption DEF PollerInit, Box
  <2>2. ~Stopped /\ handled = None
    BY DEF PollerInit, Stopped
  <2>. QED BY <2>1, <2>2 DEF Mail!Init
<1>2. PollerInv /\ [PollerNext]_pollerVars => [Mail!Next]_(Mail!mailVars)
  <2> SUFFICES ASSUME PollerInv, [PollerNext]_pollerVars PROVE [Mail!Next]_(Mail!mailVars)
    OBVIOUS
  <2>1. ASSUME NEW s \in Sender, NEW e \in PollerEv,
               \/ tt_io_poller_send_ntv(s, e)
               \/ tt_io_poller_exit_ntv(s, e)
               \/ tt_io_poller_finish_ntv(s, e)
        PROVE  Mail!Next
    <3>1. PICK c \in Channel : Push(s, c, e)
      BY <2>1 DEF tt_io_poller_send_ntv, tt_io_poller_exit_ntv,
                  tt_io_poller_finish_ntv, Channel
    <3>2. Mail!Put(c, e)
      BY <3>1, PushPuts
    <3>. QED BY <3>2 DEF Mail!Next
  <2>2. CASE UNCHANGED pollerVars
    <3>1. \A c \in Channel : Box(c)' = Box(c)
      BY <2>2 DEF pollerVars, Box
    <3>2. [c \in Channel |-> Box(c)'] = [c \in Channel |-> Box(c)]
      BY <3>1
    <3>3. UNCHANGED <<handled, Stopped>>
      BY <2>2 DEF pollerVars, Stopped
    <3>. QED BY <3>2, <3>3 DEF Mail!mailVars
  <2>3. CASE \E s \in Sender : SenderNext(s)
    BY <2>1, <2>3, FetchStutters DEF SenderNext
  <2>4. CASE TaskNext
    BY <2>4, FetchStutters, HandleTakes DEF TaskNext
  <2>. QED BY <2>2, <2>3, <2>4 DEF PollerNext
<1>. QED BY <1>1, <1>2, PollerInvariant, PTL DEF PollerSpec, MailboxSpec, Mail!Spec

-----------------------------------------------------------------------------
(* The io workers, for any number of callers, events and workers (as many   *)
(* as fit in a tt_bool_t).                                                  *)

(* The sets that SemCounts counts are finite.                                *)
LEMMA FiniteParties ==
    /\ IsFiniteSet(Releasing) /\ IsFiniteSet(Popping)
    /\ Cardinality(Releasing) \in Nat /\ Cardinality(Popping) \in Nat
<1>1. IsFiniteSet(Actor)
  BY GroupAssumption, FS_AddElement DEF Actor
<1>2. IsFiniteSet(Slot)
  BY GroupAssumption, FS_Interval DEF Slot
<1>3. Releasing \subseteq Actor /\ Popping \subseteq Slot
  BY DEF Releasing, Popping
<1>4. IsFiniteSet(Releasing) /\ IsFiniteSet(Popping)
  BY <1>1, <1>2, <1>3, FS_Subset
<1>. QED BY <1>4, FS_CardinalityType

(* What tt_iowg_push_ev() stores in its index is what it means to store.      *)
LEMMA IndexFits == \A n \in 0 .. MaxNum : ToBool(n) = n
<1> SUFFICES ASSUME NEW n \in 0 .. MaxNum PROVE n % BoolSpan = n
  BY DEF ToBool
<1>1. n \in Nat /\ BoolSpan \in Nat /\ n < BoolSpan /\ BoolSpan > 0
  BY GroupAssumption
<1>. QED BY <1>1

(* A push under the lock: one event and one debt to the semaphore more, and    *)
(* the worker that is reserved was nobody's.                                   *)
LEMMA PushEvKeeps ==
    ASSUME PushInv, NEW a \in Actor, NEW e \in Event \cup {Exit},
           boss # "create", boss' = boss, k' \in 0 .. MaxNum,
           tt_iowg_push_ev(a, e), UNCHANGED <<sem, worker, hold>>
    PROVE  PushInv'
<1> USE DEF PushInv, GroupTypeOK
<1> DEFINE n == Len(ev_list) + 1
<1>1. /\ call[a] = "idle"
      /\ ev_list' = tt_list_push_tail(ev_list, e)
      /\ worker_num' = IF Grow(n) THEN worker_num + 1 ELSE worker_num
      /\ idx' = [idx EXCEPT ![a] = ToBool(IF Grow(n) THEN worker_num ELSE MaxNum)]
      /\ call' = [call EXCEPT ![a] = "release"]
  BY DEF tt_iowg_push_ev
<1>2. Grow(n) <=> worker_num < MaxNum /\ n > worker_num
  BY DEF Grow
<1>3. ToBool(IF Grow(n) THEN worker_num ELSE MaxNum) = IF Grow(n) THEN worker_num ELSE MaxNum
  BY GroupAssumption, IndexFits
<1>4. ev_list' \in Seq(Event \cup {Exit}) /\ Len(ev_list') = n /\ n \in Nat
  BY <1>1 DEF tt_list_push_tail
<1> HIDE DEF n
<1>5. GroupTypeOK'
  BY <1>1, <1>2, <1>3, <1>4, GroupAssumption
<1>6. SemCounts'
  <2>1. Popping' = Popping
    BY DEF Popping
  <2>2. Releasing' = Releasing \cup {a} /\ a \notin Releasing
    BY <1>1 DEF Releasing
  <2>3. Cardinality(Releasing') = Cardinality(Releasing) + 1
    BY <2>2, FiniteParties, FS_AddElement
  <2>4. Len(ev_list) = sem + Cardinality(Popping) + Cardinality(Releasing)
    BY DEF SemCounts
  <2>. QED BY <1>4, <2>1, <2>3, <2>4, FiniteParties DEF SemCounts, n
<1>7. CreatedOnce'
  <2>1. ASSUME NEW b \in Actor, call'[b] # "idle", idx'[b] < MaxNum
        PROVE  /\ worker[idx'[b]] = "none"
               /\ idx'[b] < worker_num'
               /\ \A c \in Actor \ {b} : call'[c] # "idle" => idx'[c] # idx'[b]
    <3>1. CASE b = a
      <4>1. idx'[b] = worker_num /\ worker_num < MaxNum /\ worker_num' = worker_num + 1
        BY <1>1, <1>2, <1>3, <2>1, <3>1, GroupAssumption
      <4>2. worker[worker_num] = "none"
        BY <4>1, GroupAssumption DEF CreatedOnce, Slot
      <4>3. ASSUME NEW c \in Actor \ {b}, call'[c] # "idle" PROVE idx'[c] # idx'[b]
        <5>1. call[c] # "idle" /\ idx'[c] = idx[c]
          BY <1>1, <3>1, <4>3
        <5>2. idx[c] < worker_num \/ idx[c] = MaxNum
          BY <5>1, GroupAssumption DEF CreatedOnce
        <5>. QED BY <4>1, <5>1, <5>2
      <4>. QED BY <4>1, <4>2, <4>3
    <3>2. CASE b # a
      <4>1. call[b] # "idle" /\ idx'[b] = idx[b] /\ idx[b] < MaxNum
        BY <1>1, <2>1, <3>2
      <4>2. worker[idx[b]] = "none" /\ idx[b] < worker_num
        BY <4>1 DEF CreatedOnce
      <4>3. ASSUME NEW c \in Actor \ {b}, call'[c] # "idle" PROVE idx'[c] # idx'[b]
        <5>1. CASE c = a
          BY <1>1, <1>2, <1>3, <4>1, <4>2, <5>1
        <5>2. CASE c # a
          BY <1>1, <4>1, <4>3, <5>2 DEF CreatedOnce
        <5>. QED BY <5>1, <5>2
      <4>. QED BY <1>1, <4>1, <4>2, <4>3
    <3>. QED BY <3>1, <3>2
  <2>2. \A i \in Slot : i >= worker_num' => worker[i] = "none"
    BY <1>1 DEF CreatedOnce, Slot
  <2>. QED BY <2>1, <2>2 DEF CreatedOnce
<1>8. EnoughWorkers'
  BY <1>1, <1>2, <1>4, GroupAssumption DEF EnoughWorkers, n
<1>9. CallInv'
  BY <1>1 DEF CallInv
<1>. QED BY <1>5, <1>6, <1>7, <1>8, <1>9

(* A release turns a debt into a unit of the semaphore.                        *)
LEMMA ReleaseKeeps ==
    ASSUME PushInv, NEW a \in Actor, tt_sem_release(a)
    PROVE  PushInv'
<1> USE DEF PushInv, GroupTypeOK
<1>1. /\ call[a] = "release"
      /\ sem' = sem + 1
      /\ call' = [call EXCEPT ![a] = IF idx[a] < MaxNum THEN "create" ELSE "idle"]
      /\ UNCHANGED <<ev_list, worker_num, worker, hold, idx, boss, k>>
  BY DEF tt_sem_release
<1>2. GroupTypeOK'
  BY <1>1
<1>3. SemCounts'
  <2>1. Popping' = Popping
    BY <1>1 DEF Popping
  <2>2. Releasing' = Releasing \ {a} /\ a \in Releasing
    BY <1>1 DEF Releasing
  <2>3. Cardinality(Releasing') = Cardinality(Releasing) - 1
    BY <2>2, FiniteParties, FS_RemoveElement
  <2>. QED BY <1>1, <2>1, <2>3, FiniteParties DEF SemCounts
<1>4. CreatedOnce'
  BY <1>1 DEF CreatedOnce
<1>5. EnoughWorkers'
  BY <1>1 DEF EnoughWorkers
<1>6. CallInv'
  BY <1>1 DEF CallInv
<1>. QED BY <1>2, <1>3, <1>4, <1>5, <1>6

(* Creating a worker, or failing to, touches the reserved slot only.           *)
LEMMA CreateWorkerKeeps ==
    ASSUME PushInv, NEW a \in Actor, tt_io_worker_create(a)
    PROVE  PushInv'
<1> USE DEF PushInv, GroupTypeOK
<1>1. /\ call[a] = "create"
      /\ call' = [call EXCEPT ![a] = "idle"]
      /\ UNCHANGED <<ev_list, sem, worker_num, hold, idx, boss, k>>
  BY DEF tt_io_worker_create
<1>2. idx[a] \in Slot /\ idx[a] < worker_num /\ worker[idx[a]] = "none"
  <2>1. idx[a] < MaxNum
    BY <1>1 DEF CallInv
  <2>. QED BY <1>1, <2>1, GroupAssumption DEF CreatedOnce, Slot
<1>3. PICK v \in {"sem", "none"} : worker' = [worker EXCEPT ![idx[a]] = v]
  BY DEF tt_io_worker_create
<1>4. GroupTypeOK'
  BY <1>1, <1>2, <1>3
<1>5. SemCounts'
  <2>1. Popping' = Popping
    BY <1>2, <1>3 DEF Popping
  <2>2. Releasing' = Releasing
    BY <1>1 DEF Releasing
  <2>. QED BY <1>1, <2>1, <2>2 DEF SemCounts
<1>6. CreatedOnce'
  <2>1. ASSUME NEW b \in Actor, call'[b] # "idle", idx[b] < MaxNum
        PROVE  /\ worker'[idx[b]] = "none"
               /\ idx[b] < worker_num
               /\ \A c \in Actor \ {b} : call'[c] # "idle" => idx[c] # idx[b]
    <3>1. b # a /\ call[b] # "idle"
      BY <1>1, <2>1
    <3>2. /\ worker[idx[b]] = "none"
          /\ idx[b] < worker_num
          /\ \A c \in Actor \ {b} : call[c] # "idle" => idx[c] # idx[b]
      BY <2>1, <3>1 DEF CreatedOnce
    <3>3. idx[b] # idx[a]
      BY <1>1, <3>1, <3>2
    <3>4. idx[b] \in Slot
      BY <2>1, GroupAssumption DEF Slot
    <3>. QED BY <1>1, <1>3, <3>2, <3>3, <3>4
  <2>2. \A i \in Slot : i >= worker_num => worker'[i] = "none"
    BY <1>2, <1>3 DEF CreatedOnce, Slot
  <2>. QED BY <1>1, <2>1, <2>2 DEF CreatedOnce
<1>7. EnoughWorkers' /\ CallInv'
  BY <1>1 DEF EnoughWorkers, CallInv
<1>. QED BY <1>4, <1>5, <1>6, <1>7

(* A worker's step: units of the semaphore, pops and events stay in balance.   *)
LEMMA WorkerKeeps ==
    ASSUME PushInv, NEW i \in Slot, WorkerNext(i)
    PROVE  PushInv'
<1> USE DEF PushInv, GroupTypeOK
<1>1. /\ UNCHANGED <<worker_num, call, idx, boss, k>>
      /\ worker[i] \in {"sem", "pop", "busy"}
  BY DEF WorkerNext, tt_sem_acquire, tt_iowg_pop_ev, HandleEvent, HandleWorkerExit
<1>2. PICK v \in {"sem", "pop", "busy", "gone"} : worker' = [worker EXCEPT ![i] = v]
  BY DEF WorkerNext, tt_sem_acquire, tt_iowg_pop_ev, HandleEvent, HandleWorkerExit
<1>3. Releasing' = Releasing
  BY <1>1 DEF Releasing
<1>4. GroupTypeOK' /\ SemCounts' /\ Len(ev_list') <= Len(ev_list)
  <2>1. CASE tt_sem_acquire(i)
    <3>1. /\ worker[i] = "sem" /\ sem > 0 /\ sem' = sem - 1
          /\ worker' = [worker EXCEPT ![i] = "pop"]
          /\ UNCHANGED <<ev_list, hold>>
      BY <2>1 DEF tt_sem_acquire
    <3>2. Popping' = Popping \cup {i} /\ i \notin Popping
      BY <3>1 DEF Popping
    <3>3. Cardinality(Popping') = Cardinality(Popping) + 1
      BY <3>2, FiniteParties, FS_AddElement
    <3>4. GroupTypeOK'
      BY <1>1, <3>1
    <3>. QED BY <1>3, <3>1, <3>3, <3>4, FiniteParties DEF SemCounts
  <2>2. CASE tt_iowg_pop_ev(i)
    <3>1. /\ worker[i] = "pop"
          /\ worker' = [worker EXCEPT ![i] = "busy"]
          /\ hold' = [hold EXCEPT ![i] = IF ev_list = <<>> THEN NoEvent ELSE Head(ev_list)]
          /\ ev_list' = IF ev_list = <<>> THEN ev_list ELSE Tail(ev_list)
          /\ UNCHANGED sem
      BY <2>2 DEF tt_iowg_pop_ev
    <3>2. Popping' = Popping \ {i} /\ i \in Popping
      BY <3>1 DEF Popping
    <3>3. Cardinality(Popping') = Cardinality(Popping) - 1
      BY <3>2, FiniteParties, FS_RemoveElement
    <3>4. Cardinality(Popping) # 0
      BY <3>2, FiniteParties, FS_EmptySet
    <3>5. ev_list # <<>>
      BY <3>4, FiniteParties DEF SemCounts
    <3>6. /\ Head(ev_list) \in Event \cup {Exit}
          /\ ev_list' \in Seq(Event \cup {Exit})
          /\ Len(ev_list') = Len(ev_list) - 1
      BY <3>1, <3>5
    <3>7. GroupTypeOK'
      BY <1>1, <3>1, <3>5, <3>6
    <3>. QED BY <1>3, <3>1, <3>3, <3>6, <3>7, FiniteParties DEF SemCounts
  <2>3. CASE HandleEvent(i) \/ HandleWorkerExit(i)
    <3>1. /\ worker[i] = "busy"
          /\ hold' = [hold EXCEPT ![i] = NoEvent]
          /\ UNCHANGED <<ev_list, sem>>
          /\ worker'[i] # "pop"
      BY <2>3 DEF HandleEvent, HandleWorkerExit
    <3>2. Popping' = Popping
      BY <1>2, <3>1 DEF Popping
    <3>3. GroupTypeOK'
      BY <1>1, <1>2, <3>1
    <3>. QED BY <1>3, <3>1, <3>2, <3>3 DEF SemCounts
  <2>. QED BY <2>1, <2>2, <2>3 DEF WorkerNext
<1>5. CreatedOnce'
  <2>1. ASSUME NEW b \in Actor, call[b] # "idle", idx[b] < MaxNum
        PROVE  worker'[idx[b]] = "none"
    <3>1. worker[idx[b]] = "none" /\ idx[b] \in Slot
      BY <2>1, GroupAssumption DEF CreatedOnce, Slot
    <3>. QED BY <1>1, <1>2, <3>1
  <2>2. \A j \in Slot : j >= worker_num => worker'[j] = "none"
    BY <1>1, <1>2 DEF CreatedOnce
  <2>. QED BY <1>1, <2>1, <2>2 DEF CreatedOnce
<1>6. EnoughWorkers'
  BY <1>1, <1>4 DEF EnoughWorkers
<1>7. CallInv'
  BY <1>1, <1>2 DEF CallInv
<1>. QED BY <1>4, <1>5, <1>6, <1>7

(* The boss creates workers before anybody else may, and then only pushes.     *)
LEMMA BossKeeps ==
    ASSUME PushInv, BossNext
    PROVE  PushInv'
<1> USE DEF PushInv, GroupTypeOK
<1>1. CASE CreateFirst
  <2>1. boss = "create" /\ UNCHANGED <<ev_list, sem, worker_num, hold, call, idx>>
    BY <1>1 DEF CreateFirst
  <2>2. /\ \A a \in Actor : call[a] = "idle"
        /\ worker_num = MinNum
        /\ \A i \in Slot : i >= k => worker[i] = "none"
    BY <2>1 DEF CallInv
  <2>3. CASE /\ k < MinNum /\ k' = k + 1 /\ boss' = boss
             /\ worker' = [worker EXCEPT ![k] = "sem"]
    <3>1. k \in Slot /\ worker[k] = "none"
      BY <2>2, <2>3, GroupAssumption DEF Slot
    <3>2. GroupTypeOK'
      BY <2>1, <2>3, <3>1, GroupAssumption DEF Slot
    <3>3. Releasing' = Releasing /\ Popping' = Popping
      BY <2>1, <2>3, <3>1 DEF Releasing, Popping
    <3>4. SemCounts' /\ EnoughWorkers'
      BY <2>1, <3>3 DEF SemCounts, EnoughWorkers
    <3>5. CreatedOnce'
      BY <2>1, <2>2, <2>3, <3>1, GroupAssumption DEF CreatedOnce, Slot
    <3>6. CallInv'
      BY <2>1, <2>2, <2>3, <3>1, GroupAssumption DEF CallInv, Slot
    <3>. QED BY <3>2, <3>4, <3>5, <3>6
  <2>4. CASE worker' = worker /\ k' = 0 /\ boss' \in {"open", "exit"}
    <3>1. GroupTypeOK'
      BY <2>1, <2>4, GroupAssumption
    <3>2. Releasing' = Releasing /\ Popping' = Popping
      BY <2>1, <2>4 DEF Releasing, Popping
    <3>3. SemCounts' /\ EnoughWorkers' /\ CreatedOnce' /\ CallInv'
      BY <2>1, <2>2, <2>4, <3>2 DEF SemCounts, EnoughWorkers, CreatedOnce, CallInv
    <3>. QED BY <3>1, <3>3
  <2>. QED BY <1>1, <2>3, <2>4 DEF CreateFirst
<1>2. CASE PushExits /\ MoreWorkers
  <2>1. /\ boss = "exit" /\ boss' = boss /\ k' = k + 1
        /\ tt_iowg_push_ev(Boss, Exit)
        /\ UNCHANGED <<sem, worker, hold>>
    BY <1>2 DEF PushExits
  <2>2. k' \in 0 .. MaxNum
    BY <1>2, <2>1, GroupAssumption DEF MoreWorkers
  <2>3. Boss \in Actor /\ Exit \in Event \cup {Exit} /\ boss # "create"
    BY <2>1 DEF Actor
  <2>. QED BY <2>1, <2>2, <2>3, PushEvKeeps
<1>3. CASE tt_iowg_destroy \/ (PushExits /\ ~MoreWorkers) \/ JoinWorkers
  <2>1. /\ UNCHANGED <<ev_list, sem, worker_num, worker, hold, call, idx>>
        /\ boss' \in {"exit", "join", "closed"}
    BY <1>3 DEF tt_iowg_destroy, PushExits, JoinWorkers
  <2>2. k' \in 0 .. MaxNum
    BY <1>3, GroupAssumption DEF tt_iowg_destroy, PushExits, JoinWorkers, MoreWorkers
  <2>3. GroupTypeOK'
    BY <2>1, <2>2
  <2>4. Releasing' = Releasing /\ Popping' = Popping
    BY <2>1 DEF Releasing, Popping
  <2>5. SemCounts' /\ EnoughWorkers' /\ CreatedOnce' /\ CallInv'
    BY <2>1, <2>4 DEF SemCounts, EnoughWorkers, CreatedOnce, CallInv
  <2>. QED BY <2>3, <2>5
<1>. QED BY <1>1, <1>2, <1>3 DEF BossNext

-----------------------------------------------------------------------------
(* The exit events.                                                            *)

(* The sets that Exits counts are finite.                                      *)
LEMMA FiniteExits ==
    ASSUME GroupTypeOK
    PROVE  /\ IsFiniteSet(ExitsIn) /\ Cardinality(ExitsIn) \in Nat
           /\ IsFiniteSet(Leaving) /\ Cardinality(Leaving) \in Nat
           /\ IsFiniteSet(Left) /\ Cardinality(Left) \in Nat
           /\ IsFiniteSet(Started) /\ Cardinality(Started) \in Nat
           /\ Exits \in Nat
<1>1. IsFiniteSet(Slot)
  BY GroupAssumption, FS_Interval DEF Slot
<1>2. IsFiniteSet(1 .. Len(ev_list)) /\ ExitsIn \subseteq 1 .. Len(ev_list)
  <2>1. Len(ev_list) \in Nat /\ DOMAIN ev_list = 1 .. Len(ev_list)
    BY DEF GroupTypeOK
  <2>2. IsFiniteSet(1 .. Len(ev_list))
    BY <2>1, FS_Interval
  <2>. QED BY <2>1, <2>2 DEF ExitsIn
<1>3. Leaving \subseteq Slot /\ Left \subseteq Slot /\ Started \subseteq Slot
  BY DEF Leaving, Left, Started
<1>4. IsFiniteSet(ExitsIn) /\ IsFiniteSet(Leaving) /\ IsFiniteSet(Left) /\ IsFiniteSet(Started)
  BY <1>1, <1>2, <1>3, FS_Subset
<1>5. /\ Cardinality(ExitsIn) \in Nat /\ Cardinality(Leaving) \in Nat
      /\ Cardinality(Left) \in Nat /\ Cardinality(Started) \in Nat
  BY <1>4, FS_CardinalityType
<1>. QED BY <1>4, <1>5 DEF Exits

(* A push adds one exit event to the list, or none.                            *)
LEMMA PushedExits ==
    ASSUME GroupTypeOK, NEW e \in Event \cup {Exit}, ev_list' = tt_list_push_tail(ev_list, e)
    PROVE  /\ Cardinality(ExitsIn') = Cardinality(ExitsIn) + (IF e = Exit THEN 1 ELSE 0)
           /\ ev_list' # <<>> /\ ev_list'[Len(ev_list')] = e
<1> DEFINE n == Len(ev_list)
<1>1. /\ n \in Nat /\ DOMAIN ev_list = 1 .. n
      /\ ev_list' # <<>> /\ Len(ev_list') = n + 1 /\ DOMAIN ev_list' = 1 .. n + 1
      /\ ev_list'[n + 1] = e /\ \A i \in 1 .. n : ev_list'[i] = ev_list[i]
  <2>1. ASSUME NEW S, NEW lst \in Seq(S), NEW x \in S
        PROVE  /\ Len(lst) \in Nat /\ DOMAIN lst = 1 .. Len(lst)
               /\ Append(lst, x) # <<>> /\ Len(Append(lst, x)) = Len(lst) + 1
               /\ DOMAIN Append(lst, x) = 1 .. Len(lst) + 1
               /\ Append(lst, x)[Len(lst) + 1] = x
               /\ \A i \in 1 .. Len(lst) : Append(lst, x)[i] = lst[i]
    OBVIOUS
  <2>2. ev_list \in Seq(Event \cup {Exit}) /\ ev_list' = Append(ev_list, e)
    BY DEF GroupTypeOK, tt_list_push_tail
  <2>. QED BY <2>1, <2>2
<1> HIDE DEF n
<1>2. ExitsIn' = IF e = Exit THEN ExitsIn \cup {n + 1} ELSE ExitsIn
  BY <1>1 DEF ExitsIn
<1>3. n + 1 \notin ExitsIn
  BY <1>1 DEF ExitsIn
<1>4. Cardinality(ExitsIn \cup {n + 1}) = Cardinality(ExitsIn) + 1
  BY <1>3, FiniteExits, FS_AddElement
<1>. QED BY <1>1, <1>2, <1>4, FiniteExits

(* A pop takes one exit event from the list, or none; the last event stays.    *)
LEMMA PoppedExits ==
    ASSUME GroupTypeOK, ev_list # <<>>, ev_list' = Tail(ev_list)
    PROVE  /\ Cardinality(ExitsIn) =
                  Cardinality(ExitsIn') + (IF Head(ev_list) = Exit THEN 1 ELSE 0)
           /\ ev_list' # <<>> => ev_list'[Len(ev_list')] = ev_list[Len(ev_list)]
<1> DEFINE n == Len(ev_list)
           D == ExitsIn \ {1}
           f == [i \in D |-> i - 1]
<1>1. /\ n \in Nat /\ n > 0 /\ DOMAIN ev_list = 1 .. n /\ Head(ev_list) = ev_list[1]
      /\ Len(ev_list') = n - 1 /\ DOMAIN ev_list' = 1 .. n - 1
      /\ \A i \in 1 .. n - 1 : ev_list'[i] = ev_list[i + 1]
      /\ ev_list' # <<>> => n - 1 > 0
  BY DEF GroupTypeOK
<1> HIDE DEF n
<1>2. D = {i \in 2 .. n : ev_list[i] = Exit}
  BY <1>1 DEF ExitsIn
<1>3. ExitsIn' = {i \in 1 .. n - 1 : ev_list[i + 1] = Exit}
  BY <1>1 DEF ExitsIn
<1>4. f \in Bijection(D, ExitsIn')
  <2>1. f \in [D -> ExitsIn'] /\ \A i \in D : f[i] = i - 1 /\ i \in 2 .. n
    BY <1>1, <1>2, <1>3
  <2>2. \A i, j \in D : f[i] = f[j] => i = j
    BY <1>1, <2>1
  <2>3. ASSUME NEW j \in ExitsIn' PROVE \E i \in D : f[i] = j
    <3>1. j + 1 \in D /\ f[j + 1] = j
      BY <1>1, <1>2, <1>3
    <3>. QED BY <3>1
  <2> HIDE DEF f
  <2>. QED BY <2>1, <2>2, <2>3 DEF Bijection, Injection, Surjection, IsInjective
<1>5. ExistsBijection(D, ExitsIn')
  BY <1>4 DEF ExistsBijection
<1>6. IsFiniteSet(D) /\ Cardinality(D) =
          (IF 1 \in ExitsIn THEN Cardinality(ExitsIn) - 1 ELSE Cardinality(ExitsIn))
  BY FiniteExits, FS_RemoveElement
<1>7. Cardinality(ExitsIn') = Cardinality(D)
  BY <1>5, <1>6, FS_Bijection
<1>8. 1 \in ExitsIn <=> Head(ev_list) = Exit
  BY <1>1 DEF ExitsIn
<1>9. ev_list' # <<>> => ev_list'[Len(ev_list')] = ev_list[Len(ev_list)]
  BY <1>1 DEF n
<1>. QED BY <1>6, <1>7, <1>8, <1>9, FiniteExits

(* Callers: a push before the end adds no exit event, and nobody is left in    *)
(* tt_iowg_push_ev() but the boss when the first exit event is pushed.         *)
LEMMA ActorExits ==
    ASSUME PushInv, ExitInv, NEW a \in Actor, ActorNext(a)
    PROVE  ExitInv'
<1> USE DEF PushInv, GroupTypeOK
<1>1. Leaving' = Leaving /\ boss' = boss /\ k' = k /\ hold' = hold
  BY DEF ActorNext, PushEvent, tt_sem_release, tt_io_worker_create, Leaving
<1>2. ASSUME NEW e \in Event, PushEvent(a, e) PROVE ExitInv'
  <2>1. /\ boss = "open" /\ ev_list' = tt_list_push_tail(ev_list, e)
        /\ worker' = worker /\ e # Exit
    BY <1>2, GroupAssumption DEF PushEvent, tt_iowg_push_ev
  <2>2. Cardinality(ExitsIn') = Cardinality(ExitsIn) + 0
    BY <2>1, PushedExits
  <2>3. Left' = Left
    BY <2>1 DEF Left
  <2>4. Exits' = 0
    BY <1>1, <2>1, <2>2, <2>3, FiniteExits DEF Exits, ExitInv
  <2>. QED BY <1>1, <2>1, <2>4 DEF ExitInv
<1>3. CASE tt_sem_release(a)
  <2>1. /\ call[a] = "release" /\ UNCHANGED <<ev_list, worker_num, worker>>
        /\ call' = [call EXCEPT ![a] = IF idx[a] < MaxNum THEN "create" ELSE "idle"]
    BY <1>3 DEF tt_sem_release
  <2>2. ExitsIn' = ExitsIn /\ Left' = Left
    BY <2>1 DEF ExitsIn, Left
  <2>3. Exits' = Exits
    BY <1>1, <2>2 DEF Exits
  <2>4. boss = "exit" => \A b \in Pusher : call'[b] = "idle"
    BY <2>1 DEF ExitInv, Actor
  <2>5. boss \notin {"join", "closed"}
    BY <2>1 DEF ExitInv
  <2>. QED BY <1>1, <2>1, <2>3, <2>4, <2>5 DEF ExitInv
<1>4. CASE tt_io_worker_create(a)
  <2>1. /\ call[a] = "create" /\ UNCHANGED <<ev_list, worker_num>>
        /\ call' = [call EXCEPT ![a] = "idle"]
    BY <1>4 DEF tt_io_worker_create
  <2>2. idx[a] \in Slot /\ worker[idx[a]] = "none"
    <3>1. idx[a] < MaxNum
      BY <2>1 DEF CallInv
    <3>. QED BY <2>1, <3>1, GroupAssumption DEF CreatedOnce, Slot
  <2>3. PICK v \in {"sem", "none"} : worker' = [worker EXCEPT ![idx[a]] = v]
    BY <1>4 DEF tt_io_worker_create
  <2>4. ExitsIn' = ExitsIn /\ Left' = Left
    BY <2>1, <2>2, <2>3 DEF ExitsIn, Left
  <2>5. Exits' = Exits
    BY <1>1, <2>4 DEF Exits
  <2>6. \A i \in Slot : worker'[i] # "busy" => hold'[i] = NoEvent
    BY <1>1, <2>2, <2>3 DEF ExitInv
  <2>7. boss = "exit" => /\ \A b \in Pusher : call'[b] = "idle"
                         /\ \A i \in Slot : i < k => worker'[i] # "none"
    BY <2>1, <2>2, <2>3 DEF ExitInv, Actor
  <2>8. boss \notin {"join", "closed"}
    BY <2>1 DEF ExitInv
  <2>. QED BY <1>1, <2>1, <2>5, <2>6, <2>7, <2>8 DEF ExitInv
<1>. QED BY <1>2, <1>3, <1>4 DEF ActorNext

(* Workers: an exit event moves from the list to a worker and ends it.         *)
LEMMA WorkerExits ==
    ASSUME PushInv, ExitInv, NEW i \in Slot, WorkerNext(i)
    PROVE  ExitInv'
<1> USE DEF PushInv, GroupTypeOK
<1>1. /\ UNCHANGED <<worker_num, call, boss, k>>
      /\ worker[i] \in {"sem", "pop", "busy"}
  BY DEF WorkerNext, tt_sem_acquire, tt_iowg_pop_ev, HandleEvent, HandleWorkerExit
<1>2. PICK v \in {"sem", "pop", "busy", "gone"} : worker' = [worker EXCEPT ![i] = v]
  BY DEF WorkerNext, tt_sem_acquire, tt_iowg_pop_ev, HandleEvent, HandleWorkerExit
<1>3. \A j \in Slot : worker'[j] = "none" <=> worker[j] = "none"
  BY <1>1, <1>2
<1>4. Started' = Started /\ (Gap' <=> Gap)
  BY <1>3 DEF Started, Gap
<1>5. \A j \in Slot : worker[j] = "gone" => worker'[j] = "gone"
  BY <1>1, <1>2
<1>6. i \in Started /\ i \notin Left
  BY <1>1 DEF Started, Left
<1>7. /\ Exits' = Exits
      /\ \A j \in Slot : worker'[j] # "busy" => hold'[j] = NoEvent
      /\ Exits > 0 /\ ev_list' # <<>> => ev_list'[Len(ev_list')] = Exit
  <2>1. CASE tt_sem_acquire(i)
    <3>1. /\ worker[i] = "sem" /\ worker' = [worker EXCEPT ![i] = "pop"]
          /\ UNCHANGED <<ev_list, hold>>
      BY <2>1 DEF tt_sem_acquire
    <3>2. Left' = Left /\ Leaving' = Leaving /\ ExitsIn' = ExitsIn
      BY <3>1 DEF Left, Leaving, ExitsIn
    <3>. QED BY <3>1, <3>2 DEF Exits, ExitInv
  <2>2. CASE tt_iowg_pop_ev(i)
    <3>1. /\ worker[i] = "pop" /\ worker' = [worker EXCEPT ![i] = "busy"]
          /\ hold' = [hold EXCEPT ![i] = IF ev_list = <<>> THEN NoEvent ELSE Head(ev_list)]
          /\ ev_list' = IF ev_list = <<>> THEN ev_list ELSE Tail(ev_list)
      BY <2>2 DEF tt_iowg_pop_ev
    <3>2. ev_list # <<>>
      <4>1. i \in Popping
        BY <3>1 DEF Popping
      <4>2. Cardinality(Popping) # 0
        BY <4>1, FiniteParties, FS_EmptySet
      <4>. QED BY <4>2, FiniteParties DEF SemCounts
    <3>3. hold' = [hold EXCEPT ![i] = Head(ev_list)] /\ ev_list' = Tail(ev_list)
      BY <3>1, <3>2
    <3>4. /\ Cardinality(ExitsIn) =
                 Cardinality(ExitsIn') + (IF Head(ev_list) = Exit THEN 1 ELSE 0)
          /\ ev_list' # <<>> => ev_list'[Len(ev_list')] = ev_list[Len(ev_list)]
      BY <3>2, <3>3, PoppedExits
    <3>5. hold[i] = NoEvent /\ i \notin Leaving
      BY <3>1, GroupAssumption DEF ExitInv, Leaving
    <3>6. Leaving' = IF Head(ev_list) = Exit THEN Leaving \cup {i} ELSE Leaving
      BY <3>3, <3>5 DEF Leaving
    <3>7. Cardinality(Leaving') = Cardinality(Leaving) + (IF Head(ev_list) = Exit THEN 1 ELSE 0)
      <4>1. Cardinality(Leaving \cup {i}) = Cardinality(Leaving) + 1
        BY <3>5, FiniteExits, FS_AddElement
      <4>. QED BY <3>6, <4>1, FiniteExits
    <3>8. Left' = Left
      BY <3>1 DEF Left
    <3>9. Cardinality(ExitsIn') \in Nat
      <4>1. GroupTypeOK'
        BY WorkerKeeps
      <4>2. IsFiniteSet(1 .. Len(ev_list')) /\ ExitsIn' \subseteq 1 .. Len(ev_list')
        <5>1. Len(ev_list') \in Nat /\ DOMAIN ev_list' = 1 .. Len(ev_list')
          BY <4>1
        <5>2. IsFiniteSet(1 .. Len(ev_list'))
          BY <5>1, FS_Interval
        <5>. QED BY <5>1, <5>2 DEF ExitsIn
      <4>. QED BY <4>2, FS_Subset, FS_CardinalityType
    <3>10. Exits' = Exits
      BY <3>4, <3>7, <3>8, <3>9, FiniteExits DEF Exits
    <3>11. \A j \in Slot : worker'[j] # "busy" => hold'[j] = NoEvent
      BY <3>1, <3>3 DEF ExitInv
    <3>. QED BY <3>2, <3>4, <3>10, <3>11 DEF ExitInv
  <2>3. CASE HandleEvent(i)
    <3>1. /\ worker[i] = "busy" /\ hold[i] # Exit
          /\ worker' = [worker EXCEPT ![i] = "sem"]
          /\ hold' = [hold EXCEPT ![i] = NoEvent]
          /\ ev_list' = ev_list
      BY <2>3 DEF HandleEvent
    <3>2. Left' = Left /\ Leaving' = Leaving /\ ExitsIn' = ExitsIn
      BY <3>1, GroupAssumption DEF Left, Leaving, ExitsIn
    <3>. QED BY <3>1, <3>2 DEF Exits, ExitInv
  <2>4. CASE HandleWorkerExit(i)
    <3>1. /\ worker[i] = "busy" /\ hold[i] = Exit
          /\ worker' = [worker EXCEPT ![i] = "gone"]
          /\ hold' = [hold EXCEPT ![i] = NoEvent]
          /\ ev_list' = ev_list
      BY <2>4 DEF HandleWorkerExit
    <3>2. /\ ExitsIn' = ExitsIn
          /\ Left' = Left \cup {i} /\ i \notin Left
          /\ Leaving' = Leaving \ {i} /\ i \in Leaving
      BY <3>1, GroupAssumption DEF Left, Leaving, ExitsIn
    <3>3. /\ Cardinality(Left') = Cardinality(Left) + 1
          /\ Cardinality(Leaving') = Cardinality(Leaving) - 1
      BY <3>2, FiniteExits, FS_AddElement, FS_RemoveElement
    <3>4. Exits' = Exits
      BY <3>2, <3>3, FiniteExits DEF Exits
    <3>. QED BY <3>1, <3>4 DEF ExitInv
  <2>. QED BY <2>1, <2>2, <2>3, <2>4 DEF WorkerNext
<1>8. boss = "closed" => Gap
  BY <1>6 DEF ExitInv
<1>9. boss = "exit" => \A j \in Slot : j < k => worker'[j] # "none"
  BY <1>3 DEF ExitInv
<1>10. boss = "join" => \A j \in Slot : j < k => worker'[j] = "gone"
  BY <1>5 DEF ExitInv
<1>. QED BY <1>1, <1>4, <1>7, <1>8, <1>9, <1>10 DEF ExitInv

(* The boss: it counts an exit event for every worker it passes.               *)
LEMMA BossExits ==
    ASSUME PushInv, ExitInv, BossNext
    PROVE  ExitInv'
<1> USE DEF PushInv, GroupTypeOK
<1>1. hold' = hold /\ Leaving' = Leaving
  BY DEF BossNext, CreateFirst, tt_iowg_destroy, PushExits, JoinWorkers, tt_iowg_push_ev, Leaving
<1>2. CASE CreateFirst
  <2>1. boss = "create" /\ UNCHANGED <<ev_list, worker_num, call>>
    BY <1>2 DEF CreateFirst
  <2>2. /\ \A a \in Actor : call[a] = "idle"
        /\ \A i \in Slot : i >= k => worker[i] = "none"
        /\ Exits = 0 /\ worker_num = MinNum
    BY <2>1 DEF CallInv, ExitInv
  <2>3. CASE /\ k < MinNum /\ boss' = boss /\ worker' = [worker EXCEPT ![k] = "sem"]
    <3>1. k \in Slot /\ worker[k] = "none"
      BY <2>2, <2>3, GroupAssumption DEF Slot
    <3>2. Left' = Left /\ ExitsIn' = ExitsIn
      BY <2>1, <2>3, <3>1 DEF Left, ExitsIn
    <3>3. Exits' = Exits
      BY <1>1, <3>2 DEF Exits
    <3>. QED BY <1>1, <2>1, <2>2, <2>3, <3>1, <3>3 DEF ExitInv
  <2>4. CASE worker' = worker /\ k' = 0 /\ boss' \in {"open", "exit"}
    <3>1. Left' = Left /\ ExitsIn' = ExitsIn
      BY <2>1, <2>4 DEF Left, ExitsIn
    <3>2. Exits' = Exits
      BY <1>1, <3>1 DEF Exits
    <3>3. \A i \in Slot : ~(i < 0)
      BY GroupAssumption DEF Slot
    <3>. QED BY <1>1, <2>1, <2>2, <2>4, <3>2, <3>3 DEF ExitInv, Actor
  <2>. QED BY <1>2, <2>3, <2>4 DEF CreateFirst
<1>3. CASE tt_iowg_destroy
  <2>1. /\ boss = "open" /\ boss' = "exit" /\ k' = 0 /\ \A a \in Actor : call[a] = "idle"
        /\ UNCHANGED <<ev_list, worker_num, worker, call>>
    BY <1>3 DEF tt_iowg_destroy
  <2>2. Left' = Left /\ ExitsIn' = ExitsIn
    BY <2>1 DEF Left, ExitsIn
  <2>3. Exits' = Exits /\ Exits = 0
    BY <1>1, <2>1, <2>2 DEF Exits, ExitInv
  <2>4. \A i \in Slot : ~(i < 0)
    BY GroupAssumption DEF Slot
  <2>. QED BY <1>1, <2>1, <2>3, <2>4 DEF ExitInv, Actor
<1>4. CASE PushExits /\ MoreWorkers
  <2>1. /\ boss = "exit" /\ boss' = boss /\ k' = k + 1 /\ k < worker_num /\ worker[k] # "none"
        /\ ev_list' = tt_list_push_tail(ev_list, Exit) /\ worker' = worker
        /\ worker_num' \in {worker_num, worker_num + 1}
        /\ call' = [call EXCEPT ![Boss] = "release"]
    BY <1>4 DEF PushExits, MoreWorkers, tt_iowg_push_ev
  <2>2. /\ Cardinality(ExitsIn') = Cardinality(ExitsIn) + 1
        /\ ev_list'[Len(ev_list')] = Exit
    BY <2>1, PushedExits
  <2>3. Left' = Left
    BY <2>1 DEF Left
  <2>4. Exits' = k + 1
    BY <1>1, <2>1, <2>2, <2>3, FiniteExits DEF Exits, ExitInv
  <2>5. \A i \in Slot : i < k + 1 => worker[i] # "none"
    BY <2>1 DEF ExitInv, Slot
  <2>6. k + 1 <= worker_num'
    BY <2>1, GroupAssumption
  <2>7. \A a \in Pusher : call'[a] = "idle"
    BY <2>1, GroupAssumption DEF ExitInv, Actor
  <2>. QED BY <1>1, <2>1, <2>2, <2>4, <2>5, <2>6, <2>7 DEF ExitInv
<1>5. CASE PushExits /\ ~MoreWorkers
  <2>1. /\ boss = "exit" /\ boss' = "join" /\ k' = 0 /\ call[Boss] = "idle"
        /\ UNCHANGED <<ev_list, worker_num, worker, call>>
    BY <1>5 DEF PushExits
  <2>2. Left' = Left /\ ExitsIn' = ExitsIn /\ Started' = Started /\ (Gap' <=> Gap)
    BY <2>1 DEF Left, ExitsIn, Started, Gap
  <2>3. Exits' = Exits /\ Exits = k
    BY <1>1, <2>1, <2>2 DEF Exits, ExitInv
  <2>4. \A a \in Actor : call[a] = "idle"
    BY <2>1 DEF ExitInv, Actor
  <2>5. ASSUME ~Gap PROVE Cardinality(Started) = k
    <3>1. \A i \in Slot : i < k => worker[i] # "none"
      BY <2>1 DEF ExitInv
    <3>2. ASSUME NEW i \in Slot, i >= k PROVE worker[i] = "none"
      <4>1. CASE k = worker_num
        BY <3>2, <4>1 DEF CreatedOnce
      <4>2. CASE k < worker_num /\ worker[k] = "none"
        <5>1. k \in Slot
          BY <4>2, GroupAssumption DEF Slot
        <5>2. i = k \/ k < i
          BY <3>2 DEF Slot
        <5>. QED BY <2>5, <4>2, <5>1, <5>2 DEF Gap
      <4>. QED BY <1>5, <2>1, <4>1, <4>2 DEF MoreWorkers, ExitInv
    <3>3. k <= MaxNum /\ k \in Nat
      BY GroupAssumption
    <3>4. Started = 0 .. k - 1
      BY <3>1, <3>2, <3>3, GroupAssumption DEF Started, Slot
    <3>. QED BY <3>3, <3>4, FS_Interval
  <2>6. \A i \in Slot : ~(i < 0)
    BY GroupAssumption DEF Slot
  <2>. QED BY <1>1, <2>1, <2>2, <2>3, <2>4, <2>5, <2>6 DEF ExitInv
<1>6. CASE JoinWorkers
  <2>1. boss = "join" /\ UNCHANGED <<ev_list, worker_num, worker, call>>
    BY <1>6 DEF JoinWorkers
  <2>2. Left' = Left /\ ExitsIn' = ExitsIn /\ Started' = Started /\ (Gap' <=> Gap)
    BY <2>1 DEF Left, ExitsIn, Started, Gap
  <2>3. Exits' = Exits
    BY <1>1, <2>2 DEF Exits
  <2>4. CASE MoreWorkers
    <3>1. worker[k] = "gone" /\ k' = k + 1 /\ boss' = boss
      BY <1>6, <2>4 DEF JoinWorkers
    <3>2. \A i \in Slot : i < k + 1 => worker[i] = "gone"
      BY <2>1, <3>1 DEF ExitInv, Slot
    <3>. QED BY <1>1, <2>1, <2>2, <2>3, <3>1, <3>2 DEF ExitInv
  <2>5. CASE ~MoreWorkers
    <3>1. boss' = "closed" /\ k' = k
      BY <1>6, <2>5 DEF JoinWorkers
    <3>2. ASSUME ~Gap PROVE Started = Left
      <4>1. ASSUME NEW i \in Slot, worker[i] # "none" PROVE worker[i] = "gone"
        <5>1. CASE i < k
          BY <2>1, <5>1 DEF ExitInv
        <5>2. CASE k >= worker_num
          <6>1. i < worker_num
            BY <4>1 DEF CreatedOnce, Slot
          <6>2. i < k
            BY <5>2, <6>1, GroupAssumption DEF Slot
          <6>. QED BY <2>1, <6>2 DEF ExitInv
        <5>3. CASE k < worker_num /\ worker[k] = "none" /\ ~(i < k)
          <6>1. k \in Slot
            BY <5>3, GroupAssumption DEF Slot
          <6>2. i = k \/ k < i
            BY <5>3 DEF Slot
          <6>. QED BY <3>2, <4>1, <5>3, <6>1, <6>2 DEF Gap
        <5>4. k >= worker_num \/ k < worker_num
          BY GroupAssumption
        <5>. QED BY <2>5, <5>1, <5>2, <5>3, <5>4 DEF MoreWorkers
      <4>. QED BY <4>1 DEF Started, Left
    <3>. QED BY <1>1, <2>1, <2>2, <2>3, <3>1, <3>2 DEF ExitInv
  <2>. QED BY <2>4, <2>5
<1>. QED BY <1>2, <1>3, <1>4, <1>5, <1>6 DEF BossNext

(* The invariant of the group, for any number of callers, events and workers:  *)
(* the semaphore counts the list, workers are created once, the group grows    *)
(* with its load, and the loops of __iowg_destroy_worker() count their exit    *)
(* events, whether or not threads can be created.                              *)
THEOREM GroupInvariant == GroupSpec => []GroupInv
<1>1. GroupInit => GroupInv
  <2> SUFFICES ASSUME GroupInit PROVE GroupInv
    OBVIOUS
  <2>1. GroupTypeOK
    BY GroupAssumption DEF GroupInit, GroupTypeOK
  <2>2. SemCounts
    <3>1. Popping = {} /\ Releasing = {}
      BY DEF GroupInit, Popping, Releasing
    <3>2. Cardinality({}) = 0
      BY FS_EmptySet
    <3>. QED BY <3>1, <3>2 DEF GroupInit, SemCounts
  <2>3. CreatedOnce /\ CallInv /\ EnoughWorkers
    BY GroupAssumption DEF GroupInit, CreatedOnce, CallInv, EnoughWorkers, Slot
  <2>4. ExitInv
    <3>1. ExitsIn = {} /\ Leaving = {} /\ Left = {}
      BY GroupAssumption DEF GroupInit, ExitsIn, Leaving, Left
    <3>2. Cardinality({}) = 0
      BY FS_EmptySet
    <3>3. Exits = 0
      BY <3>1, <3>2 DEF Exits
    <3>. QED BY <3>3 DEF GroupInit, ExitInv
  <2>. QED BY <2>1, <2>2, <2>3, <2>4 DEF GroupInv, PushInv
<1>2. GroupInv /\ [GroupNext]_groupVars => GroupInv'
  <2> SUFFICES ASSUME PushInv, ExitInv, [GroupNext]_groupVars PROVE PushInv' /\ ExitInv'
    BY DEF GroupInv
  <2>1. ASSUME NEW a \in Actor, ActorNext(a) PROVE PushInv'
    <3>1. ASSUME NEW e \in Event, PushEvent(a, e) PROVE PushInv'
      <4>1. /\ boss = "open" /\ boss' = boss /\ k' = k
            /\ tt_iowg_push_ev(a, e)
            /\ UNCHANGED <<sem, worker, hold>>
        BY <3>1 DEF PushEvent
      <4>2. k' \in 0 .. MaxNum
        BY <4>1 DEF PushInv, GroupTypeOK
      <4>. QED BY <4>1, <4>2, PushEvKeeps
    <3>. QED BY <2>1, <3>1, ReleaseKeeps, CreateWorkerKeeps DEF ActorNext
  <2>2. CASE UNCHANGED groupVars
    <3>1. PushInv'
      BY <2>2 DEF groupVars, PushInv, GroupTypeOK, SemCounts, CreatedOnce, EnoughWorkers, CallInv,
                  Popping, Releasing
    <3>2. Exits' = Exits /\ Started' = Started /\ Left' = Left /\ (Gap' <=> Gap)
      BY <2>2 DEF groupVars, Exits, ExitsIn, Leaving, Left, Started, Gap
    <3>3. ExitInv'
      BY <2>2, <3>2 DEF groupVars, ExitInv
    <3>. QED BY <3>1, <3>3
  <2>. QED BY <2>1, <2>2, WorkerKeeps, BossKeeps, ActorExits, WorkerExits, BossExits DEF GroupNext
<1>. QED BY <1>1, <1>2, PTL DEF GroupSpec

(* TT_ASSERT(io_ev != NULL) holds in every worker.                             *)
THEOREM WorkersFindEvents == GroupSpec => []PopFindsEvent
<1>1. GroupInv => PopFindsEvent
  <2> SUFFICES ASSUME GroupInv, NEW i \in Slot, worker[i] = "pop"
               PROVE  ev_list # <<>>
    BY DEF PopFindsEvent
  <2>1. i \in Popping
    BY DEF Popping
  <2>2. Cardinality(Popping) # 0
    BY <2>1, FiniteParties, FS_EmptySet
  <2>. QED BY <2>2, FiniteParties DEF GroupInv, PushInv, GroupTypeOK, SemCounts
<1>. QED BY <1>1, GroupInvariant, PTL

(* No worker thread is created twice and none is forgotten.                    *)
THEOREM WorkersCreatedOnce == GroupSpec => []CreatedOnce
<1>1. GroupInv => CreatedOnce
  BY DEF GroupInv, PushInv
<1>. QED BY <1>1, GroupInvariant, PTL

(* tt_iowg_destroy() returns when all threads have ended and all exit events   *)
(* are used up, workers that were created while it pushed them included, unless *)
(* a thread that could not be created left a gap in the array.                 *)
THEOREM GroupJoinsAll == GroupSpec => []AllJoined
<1>1. GroupInv => AllJoined
  <2> SUFFICES ASSUME PushInv, ExitInv, boss = "closed", ~Gap
               PROVE  /\ \A i \in Slot : worker[i] \in {"none", "gone"}
                      /\ NoThread \/ (ev_list = <<>> /\ sem = 0)
    BY DEF GroupInv, AllJoined
  <2> USE DEF PushInv
  <2>1. Started = Left /\ Exits = Cardinality(Left) /\ \A a \in Actor : call[a] = "idle"
    BY DEF ExitInv
  <2>2. \A i \in Slot : worker[i] \in {"none", "gone"}
    BY <2>1 DEF Started, Left
  <2>3. ExitsIn = {}
    <3>1. Cardinality(ExitsIn) = 0
      BY <2>1, FiniteExits DEF Exits
    <3>. QED BY <3>1, FiniteExits, FS_EmptySet
  <2>4. ASSUME ev_list = <<>> PROVE sem = 0
    BY <2>4, FiniteParties DEF SemCounts, GroupTypeOK
  <2>5. CASE Left # {}
    <3>1. Exits > 0
      BY <2>1, <2>5, FiniteExits, FS_EmptySet
    <3>2. ASSUME ev_list # <<>> PROVE FALSE
      <4>1. ev_list[Len(ev_list)] = Exit
        BY <3>1, <3>2 DEF ExitInv
      <4>2. Len(ev_list) \in DOMAIN ev_list
        BY <3>2 DEF GroupTypeOK
      <4>. QED BY <2>3, <4>1, <4>2 DEF ExitsIn
    <3>. QED BY <2>2, <2>4, <3>2
  <2>6. CASE Left = {}
    <3>1. \A i \in Slot : worker[i] = "none"
      BY <2>1, <2>6 DEF Started
    <3>2. CASE worker_num > 0
      BY <2>1, <2>2, <3>1, <3>2 DEF NoThread
    <3>3. CASE ~(worker_num > 0)
      <4>1. worker_num = 0 /\ MaxNum # 0
        BY <3>3, GroupAssumption DEF GroupTypeOK
      <4>2. Len(ev_list) = 0
        BY <4>1 DEF EnoughWorkers, GroupTypeOK
      <4>3. ev_list = <<>>
        BY <4>2 DEF GroupTypeOK
      <4>. QED BY <2>2, <2>4, <4>3
    <3>. QED BY <3>2, <3>3
  <2>. QED BY <2>5, <2>6
<1>. QED BY <1>1, GroupInvariant, PTL

=============================================================================
