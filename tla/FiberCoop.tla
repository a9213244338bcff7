----------------------------- MODULE FiberCoop ------------------------------
(***************************************************************************)
(* What the fiber scheduler of a thread promises its users: at any time     *)
(* exactly one fiber runs; control moves only because the running fiber     *)
(* gives it up; a suspended fiber becomes ready only by being resumed by    *)
(* name, and then runs at once; giving up control to nobody in particular   *)
(* passes it to a ready fiber, and to the main fiber when there is none.    *)
(***************************************************************************)
CONSTANTS Fiber, Main

VARIABLES ready,    \* the fibers that may run, the running one included
          waiting,  \* the fibers that wait to be resumed
          running,  \* the fiber that has control
          over      \* the scheduler is gone

coopVars == <<ready, waiting, running, over>>

Init ==
    /\ ready = {}
    /\ waiting = {}
    /\ running = Main
    /\ over = FALSE

Create(f) ==
    /\ f \notin ready \cup waiting
    /\ waiting' = waiting \cup {f}
    /\ UNCHANGED <<ready, running, over>>

\* The running fiber hands control to "to" and stays ready or goes waiting.
Transfer(to, park) ==
    LET me == {running} \ {Main}
        it == {to} \ {Main}
    IN  /\ to \in ready \cup waiting \cup {Main}
        /\ ready' = (IF park THEN ready \ me ELSE ready) \cup it
        /\ waiting' = (IF park THEN waiting \cup me ELSE waiting) \ it
        /\ running' = to
        /\ UNCHANGED over

\* Giving up control to nobody in particular: another ready fiber if there is
\* one, else the caller itself if it stays ready, else the main fiber.
GiveUp(park) ==
    LET me == {running} \ {Main}
    IN  /\ ready' = IF park THEN ready \ me ELSE ready
        /\ waiting' = IF park THEN waiting \cup me ELSE waiting
        /\ running' \in (IF ready' = {} THEN {Main} ELSE ready')
        /\ UNCHANGED over

\* The routine of the running fiber returns.
End ==
    /\ running # Main
    /\ ready' = ready \ {running}
    /\ running' = Main
    /\ UNCHANGED <<waiting, over>>

Destroy ==
    /\ running = Main
    /\ ready' = {}
    /\ waiting' = {}
    /\ over' = TRUE
    /\ UNCHANGED running

Next ==
    /\ ~over
    /\ \/ \E f \in Fiber : Create(f)
       \/ \E to \in Fiber \cup {Main}, park \in BOOLEAN :
              to # running /\ Transfer(to, park)
       \/ \E park \in BOOLEAN : GiveUp(park)
       \/ End
       \/ Destroy

Spec == Init /\ [][Next]_coopVars
=============================================================================
