--------------------------- MODULE IoWorkerGroup ----------------------------
(***************************************************************************)
(* The group of io worker threads that run blocking file operations for the *)
(* fibers: tt_iowg_t (source/io/tt_io_worker_group.c) and its workers       *)
(* (source/io/tt_io_worker.c).                                              *)
(*                                                                          *)
(* A caller pushes an event under the lock and, still under the lock, may   *)
(* reserve one more worker; after the unlock it releases the semaphore and  *)
(* then creates the thread of the worker it reserved.  A worker acquires    *)
(* the semaphore, pops one event under the lock and handles it.  The boss   *)
(* is the thread that creates the group and that destroys it: it pushes one *)
(* exit event per worker and joins the workers.                             *)
(***************************************************************************)
EXTENDS TTList, FiniteSets

CONSTANTS Pusher,    \* the threads of tasks that push events
          Boss,      \* the thread that creates and destroys the group
          Event,     \* file operations
          Exit,      \* an event TT_IO_WORKER_EXIT
          NoEvent,   \* no event
          MinNum,    \* workers created with the group
          MaxNum,    \* wg->max_num
          BoolSpan,  \* the values of tt_bool_t, the type of i in tt_iowg_push_ev()
          MayFail    \* whether the system may refuse to create a thread

\* The index i of tt_iowg_push_ev() is a tt_bool_t, 8 bits wide: the group is
\* right only if every index and max_num itself fit.  max_num is the number of
\* processors.
ASSUME GroupAssumption ==
    /\ IsFiniteSet(Pusher)
    /\ Boss \notin Pusher
    /\ Exit \notin Event
    /\ NoEvent \notin Event \cup {Exit}
    /\ MinNum \in Nat /\ MaxNum \in Nat /\ BoolSpan \in Nat
    /\ MinNum <= MaxNum
    /\ 0 < MaxNum /\ MaxNum < BoolSpan
    /\ MayFail \in BOOLEAN

Actor == Pusher \cup {Boss}

Slot == 0 .. MaxNum - 1

VARIABLES
    ev_list,     \* wg->ev_list
    sem,         \* the count of wg->sem
    worker_num,  \* wg->worker_num
    worker,      \* worker[i]: "none" while wg->worker[i].thread is NULL, else
                 \* where thread i is: before the semaphore, before the pop, in
                 \* the handler, or gone
    hold,        \* hold[i]: the event worker i handles
    call,        \* call[a]: where a is in tt_iowg_push_ev()
    idx,         \* idx[a]: its i
    boss,        \* what the boss does
    k            \* the loop counter of the boss

groupVars == <<ev_list, sem, worker_num, worker, hold, call, idx, boss, k>>

\* tt_iowg_create() up to the creation of the first workers.
GroupInit ==
    /\ ev_list = <<>>
    /\ sem = 0
    /\ worker_num = MinNum
    /\ worker = [i \in Slot |-> "none"]
    /\ hold = [i \in Slot |-> NoEvent]
    /\ call = [a \in Actor |-> "idle"]
    /\ idx = [a \in Actor |-> MaxNum]
    /\ boss = "create"
    /\ k = 0

-----------------------------------------------------------------------------

\* Values of i: a tt_u32_t stored in a tt_bool_t.
ToBool(n) == n % BoolSpan

\* Whether tt_iowg_push_ev() reserves a worker, n being the length of the list
\* with the new event.
Grow(n) == worker_num < MaxNum /\ n > worker_num

\* tt_iowg_push_ev(), the part under the lock.
tt_iowg_push_ev(a, e) ==
    LET n == Len(ev_list) + 1
    IN  /\ call[a] = "idle"
        /\ ev_list' = tt_list_push_tail(ev_list, e)
        /\ worker_num' = IF Grow(n) THEN worker_num + 1 ELSE worker_num
        /\ idx' = [idx EXCEPT ![a] = ToBool(IF Grow(n) THEN worker_num ELSE MaxNum)]
        /\ call' = [call EXCEPT ![a] = "release"]

\* A fiber asks for a file operation.  Its event is a local of the fiber, which
\* is suspended until the operation is done: no event is pushed twice.
PushEvent(a, e) ==
    /\ boss = "open"
    /\ e \notin Nodes(ev_list) /\ \A i \in Slot : hold[i] # e
    /\ tt_iowg_push_ev(a, e)
    /\ UNCHANGED <<sem, worker, hold, boss, k>>

\* Wrong variant: the semaphore is released by the worker that is created.
tt_sem_release_once(a) ==
    /\ call[a] = "release"
    /\ sem' = IF idx[a] < MaxNum THEN sem ELSE sem + 1
    /\ call' = [call EXCEPT ![a] = IF idx[a] < MaxNum THEN "create" ELSE "idle"]
    /\ UNCHANGED <<ev_list, worker_num, worker, hold, idx, boss, k>>

\* ... tt_sem_release(), after the unlock ...
tt_sem_release(a) ==
    /\ call[a] = "release"
    /\ sem' = sem + 1
    /\ call' = [call EXCEPT ![a] = IF idx[a] < MaxNum THEN "create" ELSE "idle"]
    /\ UNCHANGED <<ev_list, worker_num, worker, hold, idx, boss, k>>

\* ... and tt_io_worker_create() for the worker that was reserved.  If there is
\* no thread to be had the worker is gone for good.
tt_io_worker_create(a) ==
    /\ call[a] = "create"
    /\ call' = [call EXCEPT ![a] = "idle"]
    /\ \/ worker' = [worker EXCEPT ![idx[a]] = "sem"]
       \/ MayFail /\ worker' = [worker EXCEPT ![idx[a]] = "none"]
    /\ UNCHANGED <<ev_list, sem, worker_num, hold, idx, boss, k>>

-----------------------------------------------------------------------------

\* __io_worker_routine(): tt_sem_acquire(), tt_iowg_pop_ev() and the handler.
tt_sem_acquire(i) ==
    /\ worker[i] = "sem"
    /\ sem > 0
    /\ sem' = sem - 1
    /\ worker' = [worker EXCEPT ![i] = "pop"]
    /\ UNCHANGED <<ev_list, worker_num, hold, call, idx, boss, k>>

tt_iowg_pop_ev(i) ==
    /\ worker[i] = "pop"
    /\ worker' = [worker EXCEPT ![i] = "busy"]
    /\ hold' = [hold EXCEPT ![i] = IF ev_list = <<>> THEN NoEvent ELSE Head(ev_list)]
    /\ ev_list' = IF ev_list = <<>> THEN ev_list ELSE Tail(ev_list)
    /\ UNCHANGED <<sem, worker_num, call, idx, boss, k>>

\* The operation is done and its result sent to the task that asked for it.
HandleEvent(i) ==
    /\ worker[i] = "busy"
    /\ hold[i] # Exit
    /\ worker' = [worker EXCEPT ![i] = "sem"]
    /\ hold' = [hold EXCEPT ![i] = NoEvent]
    /\ UNCHANGED <<ev_list, sem, worker_num, call, idx, boss, k>>

\* __worker_io(): the thread ends.
HandleWorkerExit(i) ==
    /\ worker[i] = "busy"
    /\ hold[i] = Exit
    /\ worker' = [worker EXCEPT ![i] = "gone"]
    /\ hold' = [hold EXCEPT ![i] = NoEvent]
    /\ UNCHANGED <<ev_list, sem, worker_num, call, idx, boss, k>>

-----------------------------------------------------------------------------

\* tt_iowg_create(): the first workers; when one fails all are taken down.
CreateFirst ==
    /\ boss = "create"
    /\ IF k < MinNum
       THEN \/ /\ worker' = [worker EXCEPT ![k] = "sem"]
               /\ k' = k + 1
               /\ UNCHANGED boss
            \/ /\ MayFail
               /\ boss' = "exit"
               /\ k' = 0
               /\ UNCHANGED worker
       ELSE /\ boss' = "open"
            /\ k' = 0
            /\ UNCHANGED worker
    /\ UNCHANGED <<ev_list, sem, worker_num, hold, call, idx>>

\* tt_iowg_destroy(), at a time when nobody is in tt_iowg_push_ev().  A list that
\* is not empty is reported (TT_FATAL logs) and nothing else.
tt_iowg_destroy ==
    /\ boss = "open"
    /\ \A a \in Actor : call[a] = "idle"
    /\ boss' = "exit"
    /\ k' = 0
    /\ UNCHANGED <<ev_list, sem, worker_num, worker, hold, call, idx>>

\* The condition of both loops of __iowg_destroy_worker(): they stop at the
\* first worker that has no thread.
MoreWorkers == k < worker_num /\ worker[k] # "none"

\* Wrong variant: one exit event fewer than workers.
PushExits_oneShort ==
    /\ boss = "exit"
    /\ call[Boss] = "idle"
    /\ IF MoreWorkers /\ k + 1 < worker_num
       THEN /\ tt_iowg_push_ev(Boss, Exit)
            /\ k' = k + 1
            /\ UNCHANGED boss
       ELSE /\ boss' = "join"
            /\ k' = 0
            /\ UNCHANGED <<ev_list, worker_num, call, idx>>
    /\ UNCHANGED <<sem, worker, hold>>

\* Its first loop: an exit event for every worker ...
PushExits ==
    /\ boss = "exit"
    /\ call[Boss] = "idle"
    /\ IF MoreWorkers
       THEN /\ tt_iowg_push_ev(Boss, Exit)
            /\ k' = k + 1
            /\ UNCHANGED boss
       ELSE /\ boss' = "join"
            /\ k' = 0
            /\ UNCHANGED <<ev_list, worker_num, call, idx>>
    /\ UNCHANGED <<sem, worker, hold>>

\* Wrong variant: nobody waits for the workers.
JoinWorkers_detach ==
    /\ boss = "join"
    /\ boss' = "closed"
    /\ UNCHANGED <<ev_list, sem, worker_num, worker, hold, call, idx, k>>

\* ... its second loop: tt_thread_wait() for each of them.  After that the
\* semaphore, the lock and the array of workers are gone.
JoinWorkers ==
    /\ boss = "join"
    /\ IF MoreWorkers
       THEN /\ worker[k] = "gone"
            /\ k' = k + 1
            /\ UNCHANGED boss
       ELSE /\ boss' = "closed"
            /\ UNCHANGED k
    /\ UNCHANGED <<ev_list, sem, worker_num, worker, hold, call, idx>>

ActorNext(a) ==
    \/ \E e \in Event : a \in Pusher /\ PushEvent(a, e)
    \/ tt_sem_release(a)
    \/ tt_io_worker_create(a)

WorkerNext(i) ==
    tt_sem_acquire(i) \/ tt_iowg_pop_ev(i) \/ HandleEvent(i) \/ HandleWorkerExit(i)

BossNext == CreateFirst \/ tt_iowg_destroy \/ PushExits \/ JoinWorkers

GroupNext ==
    \/ \E a \in Actor : ActorNext(a)
    \/ \E i \in Slot : WorkerNext(i)
    \/ BossNext

GroupSpec == GroupInit /\ [][GroupNext]_groupVars

\* Threads are scheduled and file operations come to an end (WF for each thread).
\* Of the workers that wait for the semaphore any one may get it: nothing is
\* assumed about who does.
GroupFairness ==
    /\ \A a \in Actor : WF_groupVars(tt_sem_release(a)) /\ WF_groupVars(tt_io_worker_create(a))
    /\ \A i \in Slot : WF_groupVars(WorkerNext(i))
    /\ WF_groupVars(CreateFirst)
    /\ WF_groupVars(PushExits)
    /\ WF_groupVars(JoinWorkers)

GroupFairSpec == GroupSpec /\ GroupFairness

-----------------------------------------------------------------------------

(* The types of the group's fields. *)
GroupTypeOK ==
    /\ ev_list \in Seq(Event \cup {Exit})
    /\ sem \in Nat
    /\ worker_num \in 0 .. MaxNum
    /\ worker \in [Slot -> {"none", "sem", "pop", "busy", "gone"}]
    /\ hold \in [Slot -> Event \cup {Exit, NoEvent}]
    /\ call \in [Actor -> {"idle", "release", "create"}]
    /\ idx \in [Actor -> 0 .. MaxNum]
    /\ boss \in {"create", "open", "exit", "join", "closed"}
    /\ k \in 0 .. MaxNum

Releasing == {a \in Actor : call[a] = "release"}

Popping == {i \in Slot : worker[i] = "pop"}

(* The semaphore counts the list: every event in it is paid for by a unit of   *)
(* the semaphore, by a worker that took a unit and has not popped yet, or by a *)
(* caller that is about to release one.                                        *)
SemCounts == Len(ev_list) = sem + Cardinality(Popping) + Cardinality(Releasing)

(* TT_ASSERT(io_ev != NULL) of __io_worker_routine(): a worker that got the    *)
(* semaphore finds an event, whoever popped in between.                        *)
PopFindsEvent == \A i \in Slot : worker[i] = "pop" => ev_list # <<>>

(* Every reserved worker is created by the caller that reserved it and by      *)
(* nobody else: no thread pointer is overwritten.                              *)
CreatedOnce ==
    /\ \A a \in Actor : call[a] # "idle" /\ idx[a] < MaxNum =>
          /\ worker[idx[a]] = "none"
          /\ idx[a] < worker_num
          /\ \A b \in Actor \ {a} : call[b] # "idle" => idx[b] # idx[a]
    /\ \A i \in Slot : i >= worker_num => worker[i] = "none"

(* The group grows with its load: unless it has its full size there is a       *)
(* (reserved) worker for each event in the list.                               *)
EnoughWorkers == Len(ev_list) <= worker_num \/ worker_num = MaxNum

\* What else the proof needs to know: who creates has reserved a worker, and
\* before the group is open nobody is in it and the workers start in order.
CallInv ==
    /\ \A a \in Actor : call[a] = "create" => idx[a] < MaxNum
    /\ boss = "create" => /\ \A a \in Actor : call[a] = "idle"
                          /\ worker_num = MinNum
                          /\ \A i \in Slot : i >= k => worker[i] = "none"

(* The inductive invariant of pushes and workers: an event for every worker    *)
(* past the semaphore (PopFindsEvent follows), one thread per slot, and as     *)
(* many workers as the load asks for.                                          *)
PushInv == GroupTypeOK /\ SemCounts /\ CreatedOnce /\ EnoughWorkers /\ CallInv

\* A worker whose thread could not be created, before one that has a thread: where
\* both loops of __iowg_destroy_worker() stop too early.
Gap == \E i, j \in Slot : i < j /\ worker[i] = "none" /\ worker[j] # "none"

\* The exit events in the list, the workers that have one, and those that are gone.
ExitsIn == {i \in DOMAIN ev_list : ev_list[i] = Exit}

Leaving == {i \in Slot : hold[i] = Exit}

Left == {i \in Slot : worker[i] = "gone"}

Started == {i \in Slot : worker[i] # "none"}

Exits == Cardinality(ExitsIn) + Cardinality(Leaving) + Cardinality(Left)

(* The loops of __iowg_destroy_worker(): an exit event ends one worker and is  *)
(* behind all others in the list; there is one for each worker the first loop  *)
(* has passed, then one for each thread, the late ones included.               *)
ExitInv ==
    /\ \A i \in Slot : worker[i] # "busy" => hold[i] = NoEvent
    /\ boss \in {"create", "open"} => Exits = 0
    /\ boss = "exit" => /\ Exits = k /\ k <= worker_num
                        /\ \A i \in Slot : i < k => worker[i] # "none"
                        /\ \A a \in Pusher : call[a] = "idle"
    /\ boss \in {"join", "closed"} => /\ \A a \in Actor : call[a] = "idle"
                                      /\ Gap \/ Exits = Cardinality(Started)
    /\ boss = "join" => \A i \in Slot : i < k => worker[i] = "gone"
    /\ boss = "closed" => Gap \/ Started = Left
    /\ Exits > 0 /\ ev_list # <<>> => ev_list[Len(ev_list)] = Exit

(* The inductive invariant of the group: pushes, workers and the loops that    *)
(* create and destroy them.                                                    *)
GroupInv == PushInv /\ ExitInv

\* The only worker that was reserved could not be created.
NoThread ==
    /\ \A i \in Slot : worker[i] = "none"
    /\ boss # "create" /\ worker_num > 0
    /\ \A a \in Actor : call[a] = "idle"

(* When the group is destroyed no worker is left behind to use the semaphore   *)
(* and the lock that are gone, and no exit event is left over, unless there is *)
(* a gap in the array.                                                         *)
AllJoined ==
    boss = "closed" /\ ~Gap => /\ \A i \in Slot : worker[i] \in {"none", "gone"}
                               /\ NoThread \/ (ev_list = <<>> /\ sem = 0)

(* Every file operation is carried out, so the fiber that asked for it goes    *)
(* on, unless there is no thread at all, and destroying the group comes to an  *)
(* end, unless there is a gap.                                                 *)
EventsServed ==
    /\ \A e \in Event : e \in Nodes(ev_list) ~> NoThread \/ \E i \in Slot : hold[i] = e
    /\ boss = "exit" ~> Gap \/ boss = "closed"
=============================================================================
