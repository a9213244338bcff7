# A TLA+ development of the TitanSDK runtime

TitanSDK is a cross-platform C framework built on fibers: a thread runs a *task*,
the task runs *fibers*, and everything that would block (sockets, files, pipes,
dns, timers, messages) suspends the fiber and is resumed by the task's main loop.
This directory models that runtime in TLA+, model-checks it with TLC and proves
parts of it with TLAPS.  Paths below are relative to `src/platform/`; the native
layer is the Linux one, `native/linux-gnu/`.

1. Inventory
2. Modules and how they correspond to the code
3. Runs, bounds and what they show
4. Fairness
5. Proofs
6. Disagreements between the code and what it says
7. What is not modelled
8. Plan

## 1. Inventory

### Parts that carry the runtime

**Fiber scheduler** (`source/os/tt_fiber.c`,
`library/fcontext/source/tt_fiber_wrapper.c`).
State: per thread the lists `active` and `pending`, `current`, the main fiber; per
fiber its name and the wrapper with the saved context `fctx` and `from`.
Operations: create, resume (the resumer stays active or becomes pending), yield,
suspend, end of a routine, find by name, destroy.
Hard: a context is saved by the fiber that *arrives*, not by the one that leaves,
and an ended fiber is freed on the main fiber, to which it jumps, while others may
be left in the middle of resuming it; resume chains nest in any order.
Correct when: every live fiber is in exactly one list, the executing fiber is
`current` and heads the active list, a saved context is its owner's latest one,
and nothing is leaked.

**Task** (`source/os/tt_task.c`).
State: the fibers to create, the io poller, the timer manager, the dns cache.
Operations: create, add fiber, run, find fiber, exit, wait.  The main loop runs
ready fibers, runs timers, asks the dns cache, and sleeps in the poller.
Hard: the time to sleep is computed before other fibers run; the loop ends on an
exit event or when the last fiber is gone while others still send.
Correct when: the task sleeps past no timer by more than the time between computing
the sleep and beginning it, handles what is sent to it, and
frees everything when it ends.

**Fiber events** (`source/os/tt_fiber_event.c`).
State: per fiber the list `fev` of events, the lists of expired and unexpired
timers, and `recving`.
Operations: send an event (with or without waiting), receive, finish; send and
receive a timer; receive either.
Hard: the same functions work within a thread (resume) and across threads
(through the io poller of the other task); a sender may be gone or may wait for
something else when its event is finished.
Correct when: a fiber is resumed only by its own thread, a call returns once and
because of its own answer, events keep their order, nobody sleeps on an event.

**Sockets** (`native/linux-gnu/tt_socket_native.c`).
State: per socket one one-shot registration in the task's epoll instance, with a
pointer to an io event on the stack of the waiting fiber.
Operations: connect, accept, send, recv, and the handlers the poller calls.
Hard: recv and accept are also ended by fiber events and timers, when epoll still
has the pointer; readiness may be gone when it is used; a send takes parts.
Correct when: no handler gets a pointer to a stack that was left, no wait is lost,
no byte is lost or sent twice, what can be served returns.

**Dns cache** (`source/network/dns/tt_dns_cache.c`, `tt_dns_entry.c`,
`tt_dns_rr.c`).
State: per task a hash map of entries by name and a heap of them by ttl; per record
the list of addresses, the fiber that asked and those that wait.
Operations: get, the callback of the resolver, expiry, and removal of entries that
are out of use.
Hard: a callback resumes fibers that may ask again before it is through; an answer
may come inside the call that asks; the key of an entry changes in the heap.
Correct when: one query at a time serves all who wait, no entry goes under a waiting
fiber, no list outlives the time recorded with it, every get returns.

**Logging** (`source/log/io/tt_log_io_async.c`, `tt_log_io_file.c`).
State: two buffers and a fiber that empties them; numbered log files, marked files
and archives on disk; a worker task.
Operations: output, rotation, archive, purge, exit.
Hard: put and post are separate, exit may come between; writer and worker share the
directory; archiving is many file operations, each of which may fail, and the
process may die between any two.
Correct when: what was announced is written in order, nothing is lost or archived
twice, full files are archived in the end.

**Timers** (`source/time/tt_timer.c`, `tt_timer_manager.c`).
State: a heap of timers ordered by expiry; per timer its status (inactive,
active, orphan), owner and place in the heap.
Operations: create, start, stop, destroy, and the manager's run, which delivers
expired timers.
Hard: delivering a timer switches to a fiber that may start, stop and destroy any
of its timers or end; a timer destroyed in the heap becomes an orphan.
Correct when: heap order, no dangling timer or owner, no expiry missed, early or
delivered twice, no leak.

**IO poller** (`source/io/tt_io_poller.c`,
`native/linux-gnu/tt_io_poller_native.c`).
State: two lists (`poller_ev`: messages and exit; `worker_ev`: finished io), each
with a lock and an eventfd, in one epoll instance.
Operations: send, exit, finish (from any thread), run (by the task), destroy.
Hard: push under the lock, write after it; read, then take the list; several
writes collapse; the task may end while others send.
Correct when: no wakeup is lost, events come out in the order of sending, the
assertions after `read()` hold.

**IO worker group** (`source/io/tt_io_worker_group.c`, `tt_io_worker.c`).
State: a list of io events, a semaphore, an array of worker threads that grows
with the load.
Operations: push, pop, create a worker, destroy (an exit event per worker, then
join).
Hard: the list and the semaphore are changed separately, slots are reserved
under the lock and filled after it, thread creation may fail.
Correct when: semaphore and list agree, no worker finds the list empty, no slot
is filled twice, every operation is carried out, destroying ends.

**Containers and memory** (`source/algorithm`, `source/memory`).
`tt_list_t`, the intrusive list with a back pointer from the node to its list;
`tt_ptrheap_t`, a binary heap that writes each element's place back into it;
`tt_queue_t`, a double-ended queue in frames; `tt_rbtree_t`; `tt_hashmap_t` with its
walks; `tt_buf_t` on a memory spring; `tt_slab_t`.
Correct when: each implements its abstract data type under every sequence of calls.

### Interaction

A fiber calls the scheduler directly.  The main fiber of a task calls the timer
manager and the poller, which resume fibers through fiber events.  Other threads
reach a task only through the two lists of its poller.  A file operation is pushed
to the io worker group by a fiber that then suspends; the worker carries it out and
hands it back with `tt_io_poller_finish`.  The dns cache is run by the main loop and
resumes fibers from inside it.  The log's io fiber and worker are fibers of tasks of
their own, reached by fiber events.

### Parts around it

`PROJECT.json` lists all of them with a reason each: ipc, file system, stack, vector
and pointer containers, strings, pool, configuration and cli, ssh, ssl, crypto, xml,
zip, dates, data conversion, the native layers of the other systems, and the vendored
libraries.

## 2. Modules and how they correspond to the code

| module | kind | code |
|---|---|---|
| `TTList` | operators | `tt_list_t` as a sequence without repetition |
| `ContainerLemmas` | proofs | facts about these operators and those of `PtrHeap`, about concatenations and loops |
| `SeqLists` | abstract | several lists whose nodes move between them |
| `LinkedList` | detailed | `tt_list_t` with its pointers; implements `SeqLists` |
| `FiberCoop` | abstract | what a scheduler promises: one fiber runs, control passes only when it is given away |
| `FiberSched` | detailed | the scheduler and the context switch; implements `FiberCoop` |
| `Mailbox` | abstract | one FIFO box per channel, closed when the task stops |
| `IoPoller` | detailed | the poller; implements `Mailbox` |
| `IoWorkerGroup` | detailed | the worker group |
| `Runtime_proofs` | proofs | of `FiberSched`, `IoPoller` and `IoWorkerGroup` |
| `PriorityQueue` | abstract | a set of items with keys of which a smallest is taken |
| `PtrHeap` | operators | the heap's algorithms on an array with back pointers |
| `PtrHeapUse` | detailed | a heap under any sequence of calls; implements `PriorityQueue` |
| `TaskTimers` | composed | timers, manager, main loop, fibers that receive timers; uses `PtrHeap` and `TTList` |
| `TaskTimersMore` | composed | the same with fibers that restart a timer early |
| `TaskTimers_proofs` | proofs | |
| `TaskEvents` | composed | tasks, their start and end, events between fibers of one and of several tasks |
| `TaskEvents_proofs` | proofs | |
| `SocketIo` | composed | socket calls, one-shot registrations, handlers, fiber events and timers |
| `SocketIo_proofs` | proofs | |
| `DnsCache` | composed | cache, entries and records; uses `PtrHeap` and `TTList` |
| `DnsCache_proofs` | proofs | |
| `LogAsync` | detailed | the asynchronous log io |
| `LogFile` | detailed | log files, archive and purge, on a disk |
| `LogPipe` | composed | `LogAsync` writing to `LogFile` |
| `LogPipe_proofs` | proofs | |
| `Deque`, `SortedSeq` | abstract | a sequence that changes at its ends; a sorted sequence |
| `FrameQueue` | detailed | `tt_queue_t`; implements `Deque` |
| `RbTree` | detailed | `tt_rbtree_t`; implements `SortedSeq` |
| `Buffer` | detailed | `tt_buf_t` and `tt_memspg_t` |
| `Slab` | detailed | `tt_slab_t` |
| `HashMap` | detailed | `tt_hashmap_t` with its walks |
| `Containers` | composed | all containers side by side, with what each promises |
| `Containers_proofs` | proofs | of all containers but the tree |
| `MC*` | instances | constants, symmetry |

Definitions carry the names of the functions they translate.  In the three modules
whose proofs share a module, names that all of them use have a prefix (`SchedSpec`,
`PollerSpec`, `GroupSpec`).  A definition whose
comment says "Wrong variant" is a plausible mistake in the definition that follows
it; it is used to see that the properties notice such a mistake, and no
specification refers to it.

**FiberSched.**  One action is the code from a call of the executing fiber, through
the jump, to the point where the fiber that was jumped to is back in its own code.
`fctx[f]` is the stack that the context filed under `f` would resume, `Wild` once
that stack has moved on.  A jump to a wild context would make `run` wild and violate
`CurrentInv`; the saved contexts that rule it out are `ContextInv`.  `current` (what the code believes) and `run`
(whose stack executes) are separate variables, since their agreement has to be
shown.  What a routine does is unknown: the executing fiber may make any call.

**IoPoller.**  `queue[c]` are the two lists, `evfd[c]` the counters, `owes[s]` says
that sender `s` has pushed and not yet written, `dl` is the handler's local list.
Push, write, `epoll_wait`, `read`, `tt_dlist_move` and the handling of one event are
separate steps.  The exit event ends the handler at once and the rest of `dl` is
dropped, as in the code.  `TT_FATAL` only logs, so destroying goes on.

**IoWorkerGroup.**  `call[a]` is how far a caller of `tt_iowg_push_ev` has come
(push and reserve under the lock; release the semaphore; create the thread).
The index is truncated to a `tt_bool_t` (`ToBool`, modulo `BoolSpan`).  The
destroyer's loops stop at the first hole in the array, as in the code.

**PtrHeap.**  The swap writes the places of both nodes; one turn of the loop down is
`Sink`, one of the loop up `Rise`, and `Loop` takes such turns until nothing changes;
removal moves the last node to the gap and fixes in both directions.

**TaskTimers.**  One thread.  `run` is the executing fiber, `at` the place of the
main fiber.  `tt_tmr_mgr_run` is one action per turn of its loop, because
delivering a timer leaves the loop for the fiber and the loop continues on what
that fiber left.  Of the scheduler only the contract `FiberCoop` is used: control
goes to *some* ready fiber.  Fibers resume each other with `tt_fiber_send_ev` and
`tt_fiber_finish` (the list of events is left out; a waiting fiber is resumed), so a
fiber that ends may leave ready ones behind for the main loop.  `PollEvent` stands
for everything else that resumes a fiber from inside the poller.

**TaskEvents.**  Threads interleave, the fibers of one thread take turns as in
`FiberSched`.  `phase[t]` is the place of the main fiber, `mail[t]` and `done[t]` the
two lists of the poller, `dl[t]` the handler's copy, `ev[f]` the list of a fiber,
`hold[f]` the event a server is working on.  Clients call (wait), post (do not wait),
look up fibers, ended ones too, tell tasks to exit and end; servers receive and finish.
Looked up are fibers of tasks with a server (`Findable`): a task that ends by itself
may never answer.  Two rules are left to the users, as the code leaves them: nobody uses
a fiber of a task that was told to exit (`Usable`), and no call crosses the border of a
task when it is told (`Quiet`).

**SocketIo.**  `reg[s]` is what epoll holds for a socket: the events and the pointer,
which becomes `Gone` when the call it belongs to returns.  `batch` is the array of
`epoll_wait`, of `EpEvNum` = 1 places.  The kernel side (data, room, close, reset, a
connection that vanishes before `accept4`) changes at any time.  `owed` and `owing`
count what the kernel has handed over within the present call.  One fiber at a time
uses a socket (`Unused`), since a socket has one registration.

**DnsCache.**  `place` is where the main fiber is; the fibers a callback resumes run
while it is at "set", with the rest of the waiting list in `todo`.  The answer may
come at once, later, fail, or bring any ttl of `Ttl`, in seconds of `Second` ticks.  The
time recorded with A records is the clock plus the ttl; with AAAA records it is the
number of seconds itself, as in the code (`AnswerTtl`).  The clock begins anywhere.

**LogFile, LogAsync, LogPipe.**  `disk` maps the names log.N and log.N.ttarctmp to
contents and survives a crash; everything else is volatile.  The worker reads the
directory entry by entry while the writer goes on.  A step that can fail does so at
most `MaxFaults` times, opening the next log file included, which the next entry tries
again (`Reopen`); allocations fail at most `MaxNoMem` times.  Announced entries
are the ones whose event was posted; an entry of which only a part got into the buffer
spoils the framing of the rest of that buffer, which is then misread as the code
misreads it.  A purge is configured (`keep_archive_sec`), and the archive path ends
in a separator, without which the purge looks for its files elsewhere.

**FrameQueue.**  A frame is `start`, `end` and its slots; the cached frame is the one
`__free_frame` keeps.  **RbTree.**  One record of functions, the sentinel included; the
mirror-image halves of the code are one definition with a direction.  **Buffer.**  An
operation gives the set of its outcomes, an allocation that fails among them; sizes
are modulo `Span`.  **Slab.**  `obj_num` counts as in the code.  **HashMap.**  A walk
is a cursor that stays between calls; `seen` and `stay` record what it handed out and
what was in the map all the time.

## 3. Runs, bounds and what they show

| run | instance | states | shows |
|---|---|---|---|
| `fiber_sched` | 3 fibers, 2 names or none, symmetric | 5 082 | lists, `current`, contexts, names, no leak, contract `FiberCoop` |
| `io_poller` | 2 senders, 2 messages, 1 exit, 1 finished io | 31 027 | no lost wakeup, assertions, FIFO mailbox, every event handled or the task stops |
| `io_worker_group` | 3 callers, 3 operations, 1 to 3 workers, creation may fail | 110 831 | semaphore and list agree, nobody finds the list empty, slots filled once, growth, every operation served, destroying ends with all joined |
| `containers` | see below | 45 085 | heap, lists, queue, tree, buffer, slab and map under every sequence of calls; four refinements |
| `task_timers` | 2 fibers, 2 timers, delays 0..2, clock to 4 | 1.7 million | memory, no missed, early or double expiry, sleep as long as computed and computed right, no leak |
| `task_timers_live` | 2 fibers, 1 timer | 30 604 | a started timer expires |
| `task_events` | 2 tasks, each a client and a server, with 2 and 1 operations of their clients, one of them may be told to exit; a third with a client that ends | 171 540 | own thread only, calls tracked and returning, order of posts, no sleep on events, start, lookup of living and ended fibers, exit ends |
| `socket_io` | 2 fibers, a stream and a listener, 2 calls per fiber | 191 050 | no stale pointer, no lost wait, results, bytes of recv and send accounted for, calls return |
| `dns_cache` | 2 fibers, 2 names, both types of one of them, ttl 0 and 1 seconds of 2 ticks, clock to 3 from any beginning | 289 571 | entries alive, one query, no lost waiter, heap, ttl, every get returns |
| `log_pipe` | 2 threads, 3 entries, files of 2 entries, 2 indices, 1 fault or crash, 1 failed allocation | 386 580 | order, durability, archived once, nothing lost without a fault, progress |
| `log_lost`, `task_timers_restart` | as `log_pipe` with one thread; as `task_timers` | | violated: see section 6 |

Invariants that rest on each other are checked, and proved, as one conjunction of
named parts; each part has its own comment in its module.

| conjunction | parts beside the types |
|---|---|
| `SchedInv` | `ListInv`, `CurrentInv`, `ContextInv`, `UniqueNames`, `NoLeak`, `NewInv` |
| `PollerInv` | `ListsInv`, `NoLostSignal`, `ReadFindsSignal` |
| `GroupInv` | `SemCounts`, `CreatedOnce`, `EnoughWorkers`, `CallInv`, `ExitInv`; `PopFindsEvent` follows |
| `HeapSound`, `QueueSound`, `TreeSound`, `BufferSound`, `SlabSound`, `MapSound` | the invariants of one container each |
| `TimerInv` | `HeapOrder`, `TimerLinks`, `SendTimerAssert` |
| `EventInv`, `StartInv` | `OwnThread`, `CallTracked`, `NoSleepOnEvents`, `Addressed`, `BorderQuiet`; `FirstRoundFresh`, `ServersStay`, `FoundIsStarted` |
| `CallsAndTasksEnd` | `CallsReturn`, `ExitEnds`, `EndsWithFibers` (liveness) |
| `CacheInv`, `TtlInv` | `TodoOfSet`, `EntryAlive`, `OneQuery`, `NoLostWaiter`; `HeapMatches`, `TtlCovered`, `NothingStale` |
| `FilesInv` | `KeptWithoutFault`, `MarkedAreFinal`, `ArchivedOnce`, `RoundOf`, `OnePlace`, `MarkedThisRound` |
| `PipeInv` | `InOrder`, `ExitLast`, `EventOnItsWay`, `WrittenFirst`, `AnnouncedKept`, `Durable` |
| `Progress` | `AnnouncedArrive`, `FullLeaves` (liveness) |
| `SocketInv`, `Accounting` | `ScheduledOnce`, `OneCaller`, `OnePointer`, `OneEvent`, `NoStaleEvent`, `NoLostWait`; `ReturnsSomething`, `Credit`, `Accounted` |

`PostsInOrder` numbers the posts of one fiber to another: those in the list of the
receiver, those the handler has taken and those in the list of the poller are, read in
this order, the numbers after the last one received up to the last one sent.

Why these bounds are enough for the interesting cases:

- Three fibers let one fiber resume a second that resumes a third while the first
  is left inside its own resume, and let a fiber end while another is in the middle
  of resuming it; a fiber slot is reused after it is freed.
- Two senders and two messages on one channel let one write be collapsed with
  another, let the handler take an event whose write is still to come, and let the
  exit event overtake a message in `dl`.  Events are sent again after they were
  handled, so any number of rounds is covered.
- Three callers and three workers let two callers reserve at the same time while a
  third worker pops an event whose unit has not been released.  `MaxNum` below
  `BoolSpan` is what the code's callers use; with a `ToBool` that truncates further
  `CreatedOnce` fails.
- `containers` uses one container per behaviour.  A heap of six items with three keys:
  a removal whose replacement has to rise needs two branches of depth two.  Five nodes
  in two lists: every neighbourhood of a node.  Up to five objects in frames of two:
  a first frame that begins late, whole ones, and a last one that ends early.  Eight
  tree nodes, two with equal keys: all cases of both fix-ups, at depth, and equal keys
  on either side.  Buffers that grow by every rule and to the width of a size.  Two
  frames of two objects: one given back while the other is in use.  Three nodes and
  keys in two slots: a shared slot, an empty one, and a removal behind a walk.
- Two timers let one be due while another is changed, orphaned or restarted by the
  fiber that is resumed; delay 0 is a timer that is due at once; `MaxClock` 4 lets
  both expire and be started again.  The clock may pass any bound by ticking while
  the task sleeps until its timeout.
- A client and a server in each of two tasks: calls within a task, across, and in both
  directions at once; two operations let a post overtake a call or be followed by the
  end of the client.  A third task runs out of fibers.
- Two fibers on a stream and a listener: an event of one fiber for the other meets
  data, a timer and the end of the stream.  A message of two with room for one is sent
  in parts.
- Two fibers and two names: a fiber woken by an answer asks again while the other is
  still to be woken; both lists of a name expire at different times.
- Three entries in files of two fill one file and begin another; one fault is enough
  for every single step of archiving to fail or to be the last one before a crash.

`CHECK_DEADLOCK FALSE` stands in all configurations but that of the containers because
every one of these parts may come to rest: a task that was destroyed, a group that is
closed, a scheduler whose fibers have all ended, a task that sleeps without a timer.

Symmetry is used for fibers, names, items of the heap and timers, in runs without
liveness properties only.

## 4. Fairness

- `IoPoller`: weak fairness of a sender's write after its push and of the task's
  steps inside a handler (threads are scheduled).  Strong fairness of
  `epoll_wait` reporting a given descriptor: epoll puts a level-triggered
  descriptor it reported behind the other ready ones.  Nothing is assumed about
  senders sending.
- `IoWorkerGroup`: weak fairness per thread; nothing is assumed about which waiting
  worker gets the semaphore.
- `TaskEvents`: some thread that can take a step takes one.  Clients make at most
  `MaxOps[f]` operations, so this suffices for every thread to get its turn.
- `SocketIo`: weak fairness of the fibers and of the handler, strong fairness of
  `epoll_wait` reporting a given ready descriptor, as in `IoPoller`.  Nothing is
  assumed about the peers: `CallsReturn` speaks of calls that can be served.
- `DnsCache`: the main loop goes on, and c-ares, which has timeouts of its own, calls
  back for every query.
- `LogPipe`: a thread that has put its entry posts its event, the io fiber and the
  worker go on, time passes, and the timers of the worker fire again and again.
- `TaskTimers`: time passes, whoever executes goes on, one wakeup carries finitely
  many events, and the fibers do not pass control among themselves for ever (strong
  fairness of `Pause`).  The last one is an assumption about the *users* of the
  library: the main fiber is chosen only when no fiber is ready
  (`tt_fiber_sched_next`), so two fibers that yield to, or resume, each other for
  ever keep timers and io from being served.

## 5. Proofs

TLAPS proves for every value of the constants (`Spec` is the one of the component):

| theorem | statement |
|---|---|
| `SchedulerInvariant` | `SchedSpec => []SchedInv`: types, lists, current fiber, contexts, names, no leak |
| `SchedulerImplementsCoop` | `SchedSpec => CoopSpec` |
| `PollerInvariant` | `PollerSpec => []PollerInv` |
| `NoSignalIsLost`, `ReadAssertHolds` | the two safety properties of the poller |
| `PollerImplementsMailbox` | `PollerSpec => MailboxSpec` |
| `GroupInvariant` | `GroupSpec => []GroupInv` |
| `WorkersFindEvents`, `WorkersCreatedOnce` | the worker's assertion; no slot filled twice |
| `GroupJoinsAll` | `GroupSpec => []AllJoined` |
| `TimerInvCorrect` | `Spec => []TimerInv` of the timers of a task |
| `NoMissedTimerCorrect`, `NotEarlyCorrect` | no fiber sleeps on for an expired timer; none expires early |
| `AccurateWaitCorrect`, `NoTimerLeakCorrect` | the computed sleep ends before any timer is due, the real one later by no more than the time in between; a task that ended leaves no timer behind |
| `EventInvariant`, `StartInvariant` | `Spec => []EventInv`, `Spec => []StartInv` of the tasks; a fiber found was started, it may have ended |
| `PostsKeepOrder` | `Spec => []PostsInOrder` |
| `SocketInvariant`, `ResultsAccounted` | `Spec => []SocketInv`, `Spec => []Accounting` of the sockets: bytes of recv and send, and the result of recv and accept |
| `CacheInvariant`, `TtlInvariant` | `Spec => []CacheInv`, `Spec => []TtlInv` of the dns cache, with the times the code records |
| `FilesInvariant`, `PipeInvariant` | `PipeSpec => []FilesInv`, `PipeSpec => []PipeInv` of the log |
| `EntriesKeepTheirOrder`, `UnmarkedFilesStay` | the action properties `HandedInOrder` and `UnmarkedStay` |
| `HeapIsSound`, `HeapIsQueue` | `Spec => []HeapSound`, `Spec => QueueSpec` of the pointer heap |
| `ListsAreWellLinked`, `ListsAreSequences` | `Lists!Spec => []WellLinked`, `Lists!Spec => ListsSpec` |
| `QueueIsSound`, `QueueIsDeque` | `Frames!Spec => []QueueSound`, `Frames!Spec => DequeSpec` |
| `BufferIsSound` | `Bytes!Spec => []BufferSound`; the compressions that `Compressible` excludes are not in `Spec` |
| `SlabsAreSound`, `MapsAreSound` | `Slabs!Spec => []SlabSound`, `Map!Spec => []MapSound`; in `Map!Spec` nobody removes the node a walk comes to next, or clears the map, during the walk |

With them every invariant and every refinement that a run checks is proved, but for the
red-black tree.  The argument in each case is an inductive invariant, checked by TLC
conjunct by conjunct before it was proved.

- *Scheduler.*  `ListInv` alone is not inductive: a step moves `current`, so one
  must know that it heads the active list (`CurrentInv`), and to know who executes
  after a jump one must know that every started fiber other than the executing one
  is filed under its own context (`ContextInv`).  The lemmas `SwitchLands` and
  `SwitchKeeps` describe one context switch once; resume and yield cite them.  The
  refinement maps the lists to the sets of ready and waiting fibers.
- *Poller.*  `NoLostSignal` needs the position of the handler: between `read` and
  the taking of the list the counter may be 0 with events in the list.  The
  refinement maps a channel to the handler's local list followed by the senders'.
- *Group.*  `SemCounts` is the invariant behind the worker's assertion: a popping
  worker counts as one event, so the list cannot be empty.  `CreatedOnce` needs
  `CallInv` (who creates has reserved a slot) and the assumption
  `MaxNum < BoolSpan`.  `AllJoined` needs `ExitInv`, which counts the exit events in
  the list, in the hands of a worker and used up, against the workers the first loop
  has passed, and knows that a list that is not empty ends with an exit event once there
  are any, so that the list is empty when the last of them is used up.
- *Loops and sequences.*  What a recursive function or an iterated concatenation
  computes is shown without induction over operators: a set of numbers has a least
  element (`LeastNumber`), so a set that holds 0 and with a number the next one holds
  all of them (`AllNumbers`).  From this follow that a chain of values of any length
  exists (`ChainExists`), that the concatenation of any number of sequences has each
  element at its place (`ConcatFacts`), and that a loop whose turns lower a measure
  exists as a function, ends, and keeps what its turns keep (`LoopExists`, `LoopEnds`).
- *Heap.*  A heap where only the node at one place may be out of order (`Loose`) is such
  a loop's state: each turn of `Sink` or `Rise` moves that place down or up, which
  is the measure.  After the way down the node is not above its children, after the way
  up the heap is in order (`FixDown`, `FixUp`).  Removing any node is filling its
  place with the last one and both ways.  That the head is least is shown by the first
  node that is smaller: it is above its parent (`HeadIsLeast`).
- *Timers.* Half of the invariant, `TimerPart`, is about the timers: the heap, and of
  each timer in which heap and lists it is.  The other half, `LoopPart`, is about the
  main fiber: what it knows of clock and heap between the computation of the time to
  sleep and the sleep, and when the sleep ends (`WaitInv`, `ClockInv`).
  `NoMissedTimer`, `NotEarly` and `NoTimerLeak` are inductive with them, `TimerInv` and
  `AccurateWait` follow.  Delivering a timer runs the user's fiber, so every action of a
  fiber is shown to keep the whole.
- *Tasks.*  `EventInv` and `StartInv` are inductive together only (`Core`): that a
  message finds a fiber of the task needs that servers stay (`ServersStay`), and that
  a fiber is started once needs to know where the events that resume it may be.
  `CallTracked` speaks of every list of every task; its proof has one lemma each for
  an event that enters a place, leaves one, moves from one to another, and for a
  handler that takes over a whole list, and an action cites the one it is an instance
  of.  The end of a task throws its lists away.  That no call is lost with them needs
  `Addressed` (what is in them concerns this task) and `BorderQuiet` (nobody outside
  waits for it).  `PostsInOrder` is inductive given `Core`: an event sent within a task
  goes straight to the end of the receiver's list, which keeps the order only because
  the channel of a task carries events of other tasks alone (`Addressed`).
- *Sockets.*  The invariant is `SocketInv` and `Accounting` together.  `NoStaleEvent`
  needs `OnePointer` (the io event of a call is in epoll or in the array, not in both)
  and `OneEvent` (while a fiber runs the array holds no other entry than that of the
  poller's own list), which is where `EpEvNum` = 1 enters.  `Accounted` needs `Credit`:
  a call that an event or a timer ends has moved nothing unless its handler was called.
- *Dns cache.*  `NoLostWaiter` splits the fibers that wait for a record into the list
  of the record and the list a callback works on (`TodoOfSet`).  `OneQuery` keeps the
  callback from finding a list that is there already, `EntryAlive` follows from the
  check for use, which looks at the same fields.  `TtlInv` rests on the order of the
  heap: `TtlCovered` says that an entry is not above its lists, so when the head has
  not expired no list has (`NothingStale`).  It needs that a record with a list belongs
  to an entry (`ListsKnown`), and of the heap what `FixChangedKey`, `AddFacts` and
  `RemoveFacts` say.
- *Log.*  First the files: a step of writer or worker keeps `FilesInv` provided the
  entry written is new.  `ArchivedOnce` and `KeptWithoutFault` need to know where an
  entry can be (`OnePlace`) and, in a round without a fault, which marked files are in
  the zip file or in the archive (`MarkedThisRound`).  Then the buffers: everything
  written was put before everything in a buffer (`WrittenFirst`), so what is handed to
  the file is new, and the two halves make one invariant.  `Durable` follows from
  `AnnouncedKept` and from the buffers being empty when the io fiber is gone, which
  rests on `ExitLast` and `EventOnItsWay`.
- *Lists.*  The invariant is that the pointers are those of some sequences (`Rep`).
  Four of the calls are one step that links a node between two neighbours, three are
  one that unlinks it; the two lemmas about those steps name the new sequences, and
  `WellLinked` is what `Rep` says of single nodes.  `Walk`, along which the refinement
  maps a list, finds the sequence again since there is only one way from the head.
- *Queue.*  `Stored`: the frames that hold something begin before they end, the ones in
  between are full (`Filled`, `Shaped`), and the count is the number of the objects.
  `Laid` gives each place of the contents one frame and one slot; a push or a pop adds or
  takes one place at an end and leaves the others where they are.  An iterator that was
  called n times stands at place n (`Stands`).
- *Buffer.*  `Sized`, what `TT_BUF_CHECK` asserts, is inductive.  A call reserves first,
  which keeps all bytes (`Roomier`), and writes then (`Over`).  That the growing of the
  memory spring ends, at a size that is large enough or at none, is shown on the loop:
  each size is larger than the one before or 0, although sizes wrap (`NextSize`,
  `GrownFacts`).  `tt_buf_set_range` writes what is behind before it writes what is new;
  place by place this is the replaced sequence (`SpliceFacts`).
- *Slab.*  `Slabbed`: free and used objects are disjoint and make up the frames, and the
  references of every block, 0 for one that is not a frame, count its used objects.  So
  a frame with none of them can be taken from both lists.
- *Map.*  `Mapped`: a node is in the slot of its key, and no two have the same.
  `Walked`: a node that stayed has been seen exactly when it is not ahead of the cursor.
  Adding and removing keep the order of the other nodes of a slot, hence which are ahead.

Assumptions are the named `ASSUME`s of the modules, which TLC evaluates in the runs:
the special values differ from the members of the sets; sizes and bounds are natural
numbers, of any value; `MinNum <= MaxNum < BoolSpan`; a fiber belongs to one task, and
a task has one at least (`TaskAssumption`); the sizes of the containers are as the code
asserts (`SizeAssumption`: a frame of a slab has room for its objects, of a queue for
one, a spring grows by something and its doubled step is a size); the heap's marks are
no places (`HeapAssumption`) and NULL is neither list nor node (`ListAssumption`).  The
finiteness of the sets is assumed only where cardinalities are counted.

Only model-checked:

- the liveness properties (fairness is outside the prover's reach);
- the red-black tree, `TreeSound` and `SortedSpec`: its operations and the sequence they
  are compared with are recursive operators, and what they compute for a tree of any
  size needs induction over trees.

## 6. Disagreements between the code and what it says

Two are runs that TLC violates and findings in `PROJECT.json`.

- `task_timers_restart`.  A timer that expired, has not been received and is
  started again reaches `tt_fiber_send_timer` in the expired list, against the
  assertion there.
- `log_lost`.  Closing the zip file of an archiving round may fail; `tt_zip_destroy`
  only logs it (`tt_zip.c:124-133`).  The round goes on: it renames a file that is not
  there, without looking at the result (`tt_log_io_file.c:691`), and removes all marked
  log files (`:695-711`), those it has just marked included.  The comments say that the
  marked files are removed "when archiving is done" (`:608-609`) and, of a round that
  stops before this point, that they "would be archived next time" (`:652`).

The others were seen while modelling and have no run; where needed a named condition
of the model keeps to the cases in which the code does what it says.

- Poller: a message that arrives after the main loop has ended, or that stands behind
  an exit event, stays in the list, which `tt_io_poller_destroy_ntv` calls fatal.
- Poller: a wait of 0x7FFFFFFF ms or more becomes a wait without end
  (`tt_io_poller_native.c:250`); with `MaxWait` below a delay `TimerExpires` fails.
- Main loop: `tt_dns_cache_run` may resume fibers after `wait_ms` was computed.  If
  such a fiber starts a timer and waits, the loop sleeps with the old `wait_ms`, against
  the comment "wais_ms is accurate" (`tt_task.c:355-358`).
- Task: `tt_task_exit` does nothing while the creator has not yet stored `t->thread`,
  and never does anything for a task run by `tt_task_run_local` (`tt_task.c:217`).
  `ExitEnds` speaks of the requests that reach the poller.
- Task: `t->tfl` keeps the pointer of a fiber that has ended and been freed, and
  `tt_task_find_fiber` hands it out (`tt_task.c:368-380`).  `FoundIsStarted` therefore
  says "was started", not "is alive".  A lookup in a task that has ended, or ends before
  the message is read, is never answered; the model looks up fibers of tasks that end on
  request only (`Findable`, `Usable`).
- Timers: with a delay that overflows, `tt_tmr_start` overwrites the key of a timer in
  the heap and returns without fixing the heap; it takes millions of years.
- Worker group: a thread that cannot be created leaves a hole in the array; both loops
  of `__iowg_destroy_worker` stop there, so later workers are neither told to exit nor
  joined.  `AllJoined` and `EventsServed` except that case (`Gap`, `NoThread`).
- Sockets: when `accept4` or `epoll_ctl` fails, `tt_skt_accept` returns a socket whose
  descriptor was never set (`UNSET` in `__do_accept`); `tt_ipc_native.c` does the same.
- Sockets: the comment at `__EP_EV_NUM` calls it a matter of speed and timer accuracy;
  any value above 1 hands out pointers to stacks that are gone (`NoStaleEvent` in
  `SocketInv`, whose mutant is that change).
- Dns: `__aaaa_callback` records the ttl of AAAA records as it comes, in seconds
  (`tt_dns_rr.c:613`), where `__a_callback` makes a time of it (`:410`).  As the clock
  counts from the start of the machine, the time has nearly always passed: such a list
  is thrown away by the next run of the cache.
- Queue: `tt_queue_get` and `tt_queue_set` (and `tt_ptrq_get`, `tt_ptrq_set`) use slot
  `idx` of a frame instead of `start + idx`.  The tests only fill queues at the tail;
  `tt_fpath_get_name` (`tt_fpath.c:446`) reads a queue that may have been filled at the
  head.  The condition is `Indexed`.
- Red-black tree: `tt_rbtree_find_gteq` and `tt_rbtree_find_lteq` return a node with the
  key itself if there is one, as their names say; the header promises the least node
  with a *larger* and the greatest with a *less* value
  (`include/algorithm/tt_red_black_tree.h:185-211`).  Of several nodes with the key they
  return the first on the way down from the root, which need not be an outermost one.
  `TreeSound` says what the code does.
- Buffer: `tt_buf_compress` of more than `TT_BUF_INIT_SIZE` bytes leaves `rpos` and
  `wpos` as they were although the bytes moved, against `TT_BUF_CHECK`
  (`Compressible`).  Nobody in the library calls it.
- Memory spring: doubling does not look at `max_limit`.
- Slab: `obj_num` is never counted down, so that "the available size in slab is as
  twice larger than frame size" (`tt_slab.c:261`) becomes true for good after some
  frees; frames are then given back earlier than meant.
- Hash map: both walks keep the next node; removing that one during a walk breaks it.
- Log: a marked file left by an earlier round is handed to the zip by its bare name
  (`p = entry.name`, `tt_log_io_file.c:603`), the others by their full path, so that
  closing the zip fails where the log files are not in the working directory; what
  follows is `log_lost`.
- Log: the results of `tt_buf_put` are ignored (`tt_log_io_async.c:229`), and an entry
  cut short makes the reader misread the rest of the buffer; `__liof_w_purge_remove`
  does not turn the archive path into a directory first; `seq_num` is counted outside
  the lock; `keep_log_sec * 1000` wraps at 49 days.

## 7. What is not modelled

- The assembler of the context switch, the contents of events, memory allocation and
  its failures except where they change the control (threads, log buffers, buffers,
  frames of a queue, accepted sockets).
- Sockets: `sendto` and `recvfrom` (recv and send with an address), `sendfile` (which
  takes EAGAIN for a failure and loops on 0), options, multicast; a socket used by a task
  other than the one that created it; two fibers on one socket.
- In the account of the sockets (`Accounting`): a connection that `accept4` delivered and
  `epoll_ctl` refused, and the events and timers a call brings back; that these are not
  lost is `EventInv` and `NoMissedTimer` in the modules of events and timers.
- What a failing `tt_fwrite_all` leaves of an entry in the log file.
- `tt_buf_compress` where `Compressible` forbids it, `tt_queue_get` and `tt_queue_set`
  where `Indexed` does, and the removal of the node a walk of the hash map comes to next.
- The ipc channels, whose native layer repeats that of the sockets.
- c-ares, its descriptors in the poller, and the parsing of its answers.
- Log files named by date, which differ only in the choice of the name; layout, filters
  and the log manager.  Names of archives, which may collide within a second.
- Backup and restore of buffer positions, typed and formatted output into buffers.
- A descriptor number that is reused between the destruction of a poller and a late
  write of a sender.
- Everything that has no state of its own or wraps a library: see the components in
  `PROJECT.json`.  Most lines of the repository are vendored libraries (mbedtls,
  c-ares, pugixml, zlib, libzip), ports of the native layer to other systems, and tests.

## 8. Plan

What would extend the development, in order of importance:

1. `RbTree` with its loops as recursive functions (as in `PtrHeap`), to prove at least
   that the pointers of parents and children agree and that the order of the nodes is
   kept by a rotation; the fixups are then loops in the sense of `LoopEnds`, with the
   distance to the root as the measure.
2. Two fibers on one socket, for which the registrations of epoll would have to be
   modelled per direction, as the code does not do it.
3. The ipc channels with the model of the sockets, once their differences (path names,
   passing of descriptors) are wanted.
