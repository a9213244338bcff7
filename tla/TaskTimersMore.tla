---------------------------- MODULE TaskTimersMore --------------------------
(***************************************************************************)
(* TaskTimers with fibers that start a timer again although they have not   *)
(* yet received its last expiry.                                            *)
(***************************************************************************)
EXTENDS TaskTimers

Restart(f, t, delay) ==
    /\ Executes(f)
    /\ t \in Nodes(expired[f])
    /\ clock + delay <= MaxClock
    /\ Enqueue(t, clock + delay)
    /\ UNCHANGED <<clock, owner, unexpired, expired, fiber, run, loopVars>>

RestartSpec ==
    Init /\ [][Next \/ \E f \in Fiber, t \in Timer, d \in Delay : Restart(f, t, d)]_vars

=============================================================================
