----------------------------- MODULE FiberSched -----------------------------
(***************************************************************************)
(* The cooperative fiber scheduler of one thread: tt_fiber_sched_t and      *)
(* tt_fiber_t (source/os/tt_fiber.c) together with the context switch of    *)
(* library/fcontext/source/tt_fiber_wrapper.c.                              *)
(*                                                                          *)
(* Fibers of a thread run one at a time, and only tt_fiber_switch_wrap()    *)
(* and the end of a routine pass control.  One action is therefore the code *)
(* from the call made by the executing fiber, through the jump, to the      *)
(* point where the fiber that was jumped to is back in its own code (it     *)
(* files the context of the fiber that jumped, frees it if it ended, and    *)
(* writes cfs->current).                                                    *)
(*                                                                          *)
(* What a routine does is not known to the scheduler: the executing fiber   *)
(* may make any call of the API, in any order.                              *)
(***************************************************************************)
EXTENDS TTList

CONSTANTS Fiber,  \* the fibers tt_fiber_create() may allocate
          Main,   \* the main fiber of the scheduler, fs->__main
          Name,   \* fiber names
          NULL,   \* the NULL pointer
          Wild    \* a context whose stack has moved on or is gone

ASSUME SchedAssumption ==
    /\ Main \notin Fiber
    /\ NULL \notin Fiber \cup {Main}
    /\ Wild \notin Fiber \cup {Main, NULL}
    /\ NULL \notin Name

VARIABLES
    active,     \* fs->active
    pending,    \* fs->pending
    current,    \* fs->current, the fiber the scheduler takes to be running
    run,        \* whose stack the thread is really executing
    life,       \* "none": not allocated, "new": never run, "started"
    name,       \* fb->name
    fctx,       \* wrap_fb.fctx: the fiber whose suspended stack it resumes
    from,       \* wrap_fb.from: who jumped to this fiber last
    destroyed   \* tt_fiber_sched_destroy() has been called

schedVars == <<active, pending, current, run, life, name, fctx, from, destroyed>>

AnyFiber == Fiber \cup {Main}

Live == {f \in Fiber : life[f] # "none"}

\* tt_fiber_sched_create(): both lists empty, the main fiber (zeroed wrapper)
\* current and executing.
SchedInit ==
    /\ active = <<>>
    /\ pending = <<>>
    /\ current = Main
    /\ run = Main
    /\ life = [f \in Fiber |-> "none"]
    /\ name = [f \in Fiber |-> NULL]
    /\ fctx = [f \in AnyFiber |-> NULL]
    /\ from = [f \in AnyFiber |-> NULL]
    /\ destroyed = FALSE

-----------------------------------------------------------------------------

\* tt_fiber_sched_find(): the first fiber of the active, then of the pending
\* list with that name; here, whether there is one.
tt_fiber_sched_find(nm) ==
    \E f \in Nodes(active) \cup Nodes(pending) : name[f] = nm

\* Wrong variant: the fiber is queued as if it had been resumed.
tt_fiber_create_ready(f, nm) ==
    /\ life[f] = "none"
    /\ nm # NULL => ~tt_fiber_sched_find(nm)
    /\ life' = [life EXCEPT ![f] = "new"]
    /\ name' = [name EXCEPT ![f] = nm]
    /\ fctx' = [fctx EXCEPT ![f] = NULL]
    /\ from' = [from EXCEPT ![f] = NULL]
    /\ active' = tt_list_push_tail(active, f)
    /\ UNCHANGED <<pending, current, run, destroyed>>

\* tt_fiber_create(): a named fiber is refused when the name is taken; a new
\* fiber waits in the pending list until somebody resumes it.  (When memory is
\* short the call returns NULL and changes nothing.)
tt_fiber_create(f, nm) ==
    /\ life[f] = "none"
    /\ nm # NULL => ~tt_fiber_sched_find(nm)
    /\ life' = [life EXCEPT ![f] = "new"]
    /\ name' = [name EXCEPT ![f] = nm]
    /\ fctx' = [fctx EXCEPT ![f] = NULL]
    /\ from' = [from EXCEPT ![f] = NULL]
    /\ pending' = tt_list_push_tail(pending, f)
    /\ UNCHANGED <<active, current, run, destroyed>>

\* tt_fiber_sched_next()
tt_fiber_sched_next(act) == IF act # <<>> THEN Head(act) ELSE Main

\* tt_jump_fcontext(): where control goes when the context filed under "to" is
\* resumed.  Resuming a stack makes every saved copy of its context stale.
JumpTarget(ctx, to) == ctx[to]

Consume(ctx, r) == [f \in AnyFiber |-> IF ctx[f] = r THEN Wild ELSE ctx[f]]

\* Wrong variant: the arriving fiber asks the main fiber who jumped.
Prev_main(wfrom, r) == wfrom[Main]

\* The fiber that is told apart as "prev" by the code that runs on stack r after
\* a jump: a routine that starts (__fiber_routine_wrapper) and a fiber that
\* returns from tt_jump_fcontext() both read their own wrap_fb.from.
Prev(wfrom, r) == wfrom[r]

\* tt_fiber_switch_wrap(fs, frm, to) and what runs on arrival, with the lists
\* act and pen that the caller has just built.  A fiber that never ran gets a
\* fresh context (tt_make_fcontext) first.
tt_fiber_switch_wrap(frm, to, act, pen) ==
    LET ctx   == [fctx EXCEPT ![to] = IF @ = NULL THEN to ELSE @]
        r     == JumpTarget(ctx, to)
        wfrom == [from EXCEPT ![to] = frm]
    IN  /\ from' = wfrom
        /\ active' = act
        /\ pending' = pen
        /\ run' = r
        /\ IF r = Wild
           THEN UNCHANGED <<current, life, fctx>>
           ELSE /\ fctx' = [Consume(ctx, r) EXCEPT ![Prev(wfrom, r)] = run]
                /\ current' = r
                /\ life' = [f \in Fiber |-> IF f = r THEN "started" ELSE life[f]]
        /\ UNCHANGED <<name, destroyed>>

\* The two lists once the current fiber has been unlinked and queued again, at
\* the tail of the pending list (pend) or of the active list.  The main fiber
\* is in neither.
ActiveLeft(pend) ==
    IF current = Main THEN active
    ELSE IF pend THEN tt_list_remove(active, current)
    ELSE tt_list_push_tail(tt_list_remove(active, current), current)

PendingLeft(pend) ==
    IF current = Main THEN pending
    ELSE IF pend THEN tt_list_push_tail(tt_list_remove(pending, current), current)
    ELSE tt_list_remove(pending, current)

\* tt_fiber_resume(fb, suspend), fb a fiber of this scheduler that is alive.
tt_fiber_resume(fb, suspend) ==
    LET act == ActiveLeft(suspend)
        pen == PendingLeft(suspend)
    IN  /\ fb \in Live \cup {Main}
        /\ fb # current
        /\ IF fb = Main
           THEN tt_fiber_switch_wrap(current, fb, act, pen)
           ELSE tt_fiber_switch_wrap(current, fb,
                    tt_list_push_head(tt_list_remove(act, fb), fb),
                    tt_list_remove(pen, fb))

\* __fiber_yield(pend): tt_fiber_suspend() is pend = TRUE, tt_fiber_yield() is
\* pend = FALSE.  can_yield is TRUE for every fiber.  A fiber that is alone in
\* the active list, or the main fiber when the list is empty, keeps running.
__fiber_yield(pend) ==
    LET act  == ActiveLeft(pend)
        pen  == PendingLeft(pend)
        next == tt_fiber_sched_next(act)
    IN  IF next # current
        THEN tt_fiber_switch_wrap(current, next, act, pen)
        ELSE /\ active' = act
             /\ pending' = pen
             /\ UNCHANGED <<current, run, life, name, fctx, from, destroyed>>

\* The end of __fiber_routine_wrapper(): the routine of the executing fiber
\* returned.  It jumps to the main fiber, which unlinks and frees it
\* (tt_fiber_destroy).
FiberEnd ==
    LET r     == JumpTarget(fctx, Main)
        wfrom == [from EXCEPT ![Main] = run]
        prev  == Prev(wfrom, r)
    IN  /\ run \in Fiber
        /\ from' = wfrom
        /\ run' = r
        /\ IF r = Wild
           THEN UNCHANGED <<active, pending, current, life, name, fctx>>
           ELSE /\ fctx' = Consume(fctx, r)
                /\ active' = tt_list_remove(active, prev)
                /\ pending' = tt_list_remove(pending, prev)
                /\ life' = [life EXCEPT ![prev] = "none"]
                /\ name' = [name EXCEPT ![prev] = NULL]
                /\ current' = r
        /\ UNCHANGED destroyed

\* tt_fiber_sched_destroy(), from __thread_on_exit() on the main fiber: the
\* fibers of the two lists are destroyed, wherever they were suspended.
tt_fiber_sched_destroy ==
    /\ run = Main
    /\ destroyed' = TRUE
    /\ life' = [f \in Fiber |-> IF f \in Nodes(active) \cup Nodes(pending)
                                THEN "none" ELSE life[f]]
    /\ active' = <<>>
    /\ pending' = <<>>
    /\ UNCHANGED <<current, run, name, fctx, from>>

SchedNext ==
    /\ ~destroyed
    /\ \/ \E f \in Fiber, nm \in Name \cup {NULL} : tt_fiber_create(f, nm)
       \/ \E f \in AnyFiber, suspend \in BOOLEAN : tt_fiber_resume(f, suspend)
       \/ \E pend \in BOOLEAN : __fiber_yield(pend)
       \/ FiberEnd
       \/ tt_fiber_sched_destroy

SchedSpec == SchedInit /\ [][SchedNext]_schedVars

-----------------------------------------------------------------------------

(* The types of the scheduler's fields. *)
SchedTypeOK ==
    /\ active \in Seq(Fiber)
    /\ pending \in Seq(Fiber)
    /\ current \in AnyFiber
    /\ run \in AnyFiber
    /\ life \in [Fiber -> {"none", "new", "started"}]
    /\ name \in [Fiber -> Name \cup {NULL}]
    /\ fctx \in [AnyFiber -> AnyFiber \cup {NULL, Wild}]
    /\ from \in [AnyFiber -> AnyFiber \cup {NULL}]
    /\ destroyed \in BOOLEAN

(* Every live fiber is linked into exactly one of the two lists, once, and    *)
(* nothing else is: a fiber is never lost to the scheduler nor queued twice    *)
(* by tt_fiber_create, tt_fiber_resume, __fiber_yield or the end of a routine. *)
ListInv ==
    /\ Distinct(active)
    /\ Distinct(pending)
    /\ Nodes(active) \cap Nodes(pending) = {}
    /\ Nodes(active) \cup Nodes(pending) = Live

(* The fiber whose stack executes is the one cfs->current names (the code      *)
(* restores it after every switch), and it heads the active list: that is what *)
(* lets tt_fiber_resume() unlink "the caller" without being told who called.   *)
CurrentInv ==
    /\ run = current
    /\ current \in Fiber => active # <<>> /\ Head(active) = current

(* The context filed for a fiber that ran and is not running is that fiber's   *)
(* own, latest context, whoever jumped to whom in the meantime: no switch ever *)
(* resumes a stale or foreign stack, and the main fiber can always be resumed  *)
(* by a routine that ends.                                                     *)
ContextInv ==
    \A f \in AnyFiber :
        f # run /\ (f = Main \/ life[f] = "started") => fctx[f] = f

(* tt_fiber_sched_find() is unambiguous: live fibers that have a name have     *)
(* different names, since tt_fiber_create() looks through both lists.          *)
UniqueNames ==
    \A f, g \in Live : name[f] = name[g] /\ name[f] # NULL => f = g

(* Destroying the scheduler frees every fiber that was ever created.           *)
NoLeak == destroyed => Live = {}

(* A fiber that never ran has no context yet, and the executing fiber is not   *)
(* one of those.                                                               *)
NewInv ==
    /\ \A f \in Fiber : life[f] = "new" => fctx[f] = NULL
    /\ run \in Fiber => life[run] = "started"

(* The inductive invariant: with these parts every step of the scheduler can   *)
(* be followed from the state it starts in.                                    *)
SchedInv == /\ SchedTypeOK
            /\ ListInv
            /\ CurrentInv
            /\ ContextInv
            /\ UniqueNames
            /\ NoLeak
            /\ NewInv

(* The scheduler implements the cooperative contract FiberCoop: its two lists  *)
(* read as sets, the executing stack as the running fiber.                     *)
Coop == INSTANCE FiberCoop
        WITH ready <- Nodes(active), waiting <- Nodes(pending),
             running <- run, over <- destroyed

CoopSpec == Coop!Spec
=============================================================================
