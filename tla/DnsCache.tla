------------------------------ MODULE DnsCache ------------------------------
(***************************************************************************)
(* The dns cache of a task: source/network/dns/tt_dns_cache.c,             *)
(* tt_dns_entry.c and tt_dns_rr.c.                                         *)
(*                                                                         *)
(* An entry per name holds the records of two types.  Fibers that ask for  *)
(* the same records share one query; its callback hands the result to all  *)
(* of them.  Entries expire by ttl, in the order of a heap, and are        *)
(* destroyed when nobody asked for them for a while.  All of it happens in *)
(* one thread, but a callback resumes fibers in the middle of it, and      *)
(* those may ask for anything again.                                       *)
(*                                                                         *)
(* External: the resolver (c-ares) calls back once for every query, at the *)
(* end of ares_query() already or later from the main fiber; the clock.    *)
(***************************************************************************)
EXTENDS TTList, PtrHeap, FiniteSets

CONSTANTS Fiber,
          None,      \* no fiber, no record
          Rr,        \* the records asked for: pairs of a name and a type
          Forever,   \* TT_TIME_INFINITE, later than every time of the model
          Ttl,       \* the ttls of answers, in seconds
          Second,    \* the ticks of the reference clock in a second
          Limit,     \* __s_inuse_limit
          MaxClock   \* bound of the clock

Name == Item

ASSUME DnsAssumption ==
    /\ None \notin Fiber \cup Rr
    /\ Rr \subseteq Name \X {"a", "aaaa"}
    /\ Ttl \subseteq Nat /\ {Second, Limit} \subseteq Nat \ {0} /\ MaxClock \in Nat
    /\ Forever \in Nat /\ MaxClock + Limit < Forever
    /\ \A d \in Ttl : MaxClock + d * Second < Forever
    /\ POS_NULL \notin Nat

VARIABLES
    clock,       \* tt_time_ref(): ticks since the machine was started
    place,       \* where the main fiber is
    left,        \* the entries it has yet to look at
    todo,        \* the waiting list __drr_set() has taken, with its record
    next_check,  \* dc->next_check
    wake,        \* when the sleep of the task ends, as far as the cache knows
    entry,       \* the names in dc->map
    heap,        \* dc->heap
    ttl,         \* ttl[n]: de->ttl, the key of the heap
    stamp,       \* stamp[n]: de->timestamp
    rr,          \* rr[r]: the fields of drr
    wait         \* wait[f]: the record fiber f waits for, or None

vars == <<clock, place, left, todo, next_check, wake, entry, heap, ttl, stamp, rr, wait>>

\* A record: its ttl, its querying fiber, the fibers waiting, and whether there
\* is a list of addresses.
EmptyRr == [ttl |-> Forever, fb |-> None, waiting |-> <<>>, full |-> FALSE]

NoTodo == [r |-> None, fibers |-> <<>>]

\* "loop": fibers run, messages and sockets are handled; "set": in the loop of
\* __drr_set(); "expire", "check": in tt_dns_cache_run(); "gone": the task is
\* over.
Place == {"loop", "set", "expire", "check", "gone"}

\* tt_dns_cache_create(), at any time
Init ==
    /\ clock \in 0 .. MaxClock
    /\ place = "loop"
    /\ left = {}
    /\ todo = NoTodo
    /\ next_check = clock + Limit
    /\ wake = 0
    /\ entry = {}
    /\ heap = EmptyHeap
    /\ ttl = [n \in Name |-> Forever]
    /\ stamp = [n \in Name |-> 0]
    /\ rr = [r \in Rr |-> EmptyRr]
    /\ wait = [f \in Fiber |-> None]

\* Time passes; not within tt_dns_cache_run(), which reads the clock once for
\* all it compares.
Tick ==
    /\ clock < MaxClock
    /\ place \in {"loop", "set"}
    /\ clock' = clock + 1
    /\ UNCHANGED <<place, left, todo, next_check, wake, entry, heap, ttl, stamp, rr, wait>>

-----------------------------------------------------------------------------
(* Fibers.                                                                  *)

\* Wrong variant: the entry keeps the ttl of the record it learnt of last.
tt_dns_entry_update_ttl_last(h, n, t) ==
    /\ ttl' = [ttl EXCEPT ![n] = t]
    /\ heap' = tt_ptrheap_fix(h, ttl', h.pos[n])

\* tt_dns_entry_update_ttl(): the ttl of an entry only gets shorter here.
tt_dns_entry_update_ttl(h, n, t) ==
    IF t < ttl[n]
    THEN /\ ttl' = [ttl EXCEPT ![n] = t]
         /\ heap' = tt_ptrheap_fix(h, ttl', h.pos[n])
    ELSE /\ ttl' = ttl
         /\ heap' = h

\* When an answer with a ttl of d seconds is to expire.  __a_callback() computes the
\* time; __aaaa_callback() takes the seconds themselves for one.
AnswerTtl(r, d) == IF r[2] = "a" THEN clock + d * Second ELSE d

\* __drr_set(): what the callback makes of record r, the addresses and their time,
\* or none.
SetRr(r, ok, d) ==
    [rr EXCEPT ![r].fb = None, ![r].ttl = IF ok THEN AnswerTtl(r, d) ELSE Forever,
               ![r].full = ok]

\* !tt_dns_rrlist_empty(&drr->rrl): the ttl is not looked at.
HasList(r) == rr[r].full

\* tt_dns_get_a(), tt_dns_get_aaaa() called by a fiber the main fiber, or
\* another one, has resumed: the list is there, or the fiber joins those that
\* wait, or the query it starts fails or is answered at once (the callback then
\* finds the querying fiber running and notifies nobody).  __de_get() creates
\* the entry if there is none.
tt_dns_get(f, r) ==
    LET n == r[1]
        h == IF n \in entry THEN heap ELSE tt_ptrheap_add(heap, ttl, n)
    IN  /\ place \in {"loop", "set"}
        /\ wait[f] = None
        /\ entry' = entry \cup {n}
        /\ stamp' = [stamp EXCEPT ![n] = clock]
        /\ \/ /\ HasList(r)
              /\ heap' = h
              /\ UNCHANGED <<ttl, rr, wait>>
           \/ /\ ~HasList(r)
              /\ heap' = h
              /\ rr' = [rr EXCEPT ![r].fb = IF rr[r].fb = None THEN f ELSE @,
                                  ![r].waiting = tt_list_push_tail(@, f)]
              /\ wait' = [wait EXCEPT ![f] = r]
              /\ UNCHANGED ttl
           \/ /\ ~HasList(r) /\ rr[r].fb = None
              /\ \E ok \in BOOLEAN, d \in Ttl :
                    /\ rr' = SetRr(r, ok, d)
                    /\ tt_dns_entry_update_ttl(h, n, rr'[r].ttl)
              /\ UNCHANGED wait
        /\ UNCHANGED <<clock, place, left, todo, next_check, wake>>

-----------------------------------------------------------------------------
(* The main fiber.                                                          *)

\* Wrong variant: the list is not moved away; only its first fiber is taken.
Taken_first(r) == SubSeq(rr[r].waiting, 1, 1)

\* tt_dlist_move(): all who wait.
Taken(r) == rr[r].waiting

\* __a_callback(), __aaaa_callback() and __drr_set(), from the handler of a
\* socket or from tt_dns_run(): those who wait are taken off the record ...
Callback(r, ok, d) ==
    /\ place = "loop"
    /\ rr[r].fb # None
    /\ rr' = [SetRr(r, ok, d) EXCEPT ![r].waiting = <<>>]
    /\ todo' = [r |-> r, fibers |-> Taken(r)]
    /\ place' = "set"
    /\ UNCHANGED <<clock, left, next_check, wake, entry, heap, ttl, stamp, wait>>

\* ... and resumed one by one; each tells the entry the ttl the record has by
\* then and returns from tt_dns_rr_get().
Notify ==
    LET f == Head(todo.fibers)
    IN  /\ place = "set"
        /\ todo.fibers # <<>>
        /\ todo' = [todo EXCEPT !.fibers = Tail(@)]
        /\ wait' = [wait EXCEPT ![f] = None]
        /\ tt_dns_entry_update_ttl(heap, todo.r[1], rr[todo.r].ttl)
        /\ UNCHANGED <<clock, place, left, next_check, wake, entry, stamp, rr>>

NotifyDone ==
    /\ place = "set"
    /\ todo.fibers = <<>>
    /\ todo' = NoTodo
    /\ place' = "loop"
    /\ UNCHANGED <<clock, left, next_check, wake, entry, heap, ttl, stamp, rr, wait>>

\* tt_dns_cache_run(), called by the main loop.  The callbacks of tt_dns_run(),
\* its first part, are Callback; the rest runs without another fiber.
tt_dns_cache_run ==
    /\ place = "loop"
    /\ place' = "expire"
    /\ UNCHANGED <<clock, left, todo, next_check, wake, entry, heap, ttl, stamp, rr, wait>>

\* tt_dns_entry_clear()
Cleared(n) == [r \in Rr |-> IF r[1] = n THEN [rr[r] EXCEPT !.ttl = Forever, !.full = FALSE]
                            ELSE rr[r]]

HeadTtl == IF heap.node = <<>> THEN Forever ELSE ttl[tt_ptrheap_head(heap)]

\* tt_dns_entry_run() returns TRUE.
Expired(t) == t # Forever /\ t < clock

\* Wrong variant: the records are cleared and the ttl of the entry is not.
ExpireHead_again ==
    LET n == tt_ptrheap_head(heap)
    IN  /\ place = "expire"
        /\ Expired(HeadTtl)
        /\ rr' = Cleared(n)
        /\ UNCHANGED <<clock, place, left, todo, next_check, wake, entry, heap, ttl, stamp, wait>>

\* tt_dns_entry_run(), the entry at the head has expired ...
ExpireHead ==
    LET n == tt_ptrheap_head(heap)
    IN  /\ place = "expire"
        /\ Expired(HeadTtl)
        /\ ttl' = [ttl EXCEPT ![n] = Forever]
        /\ rr' = Cleared(n)
        /\ heap' = tt_ptrheap_fix(heap, ttl', heap.pos[n])
        /\ UNCHANGED <<clock, place, left, todo, next_check, wake, entry, stamp, wait>>

\* TT_MIN()
Sooner(a, b) == IF a < b THEN a ELSE b

\* ... or not: the task may sleep until it does, or until the next check for
\* entries out of use, which begins now if its time has come.
ExpireDone ==
    /\ place = "expire"
    /\ ~Expired(HeadTtl)
    /\ next_check' = IF next_check <= clock THEN clock + Limit ELSE next_check
    /\ left' = IF next_check <= clock THEN entry ELSE {}
    /\ wake' = Sooner(HeadTtl, next_check')
    /\ place' = "check"
    /\ UNCHANGED <<clock, todo, entry, heap, ttl, stamp, rr, wait>>

tt_dns_rr_inuse(r) == rr[r].fb # None \/ rr[r].waiting # <<>>

\* tt_dns_entry_destroy(): out of the map and the heap, records and entry freed.
tt_dns_entry_destroy(n) ==
    /\ entry' = entry \ {n}
    /\ heap' = tt_ptrheap_remove(heap, ttl, heap.pos[n])
    /\ ttl' = [ttl EXCEPT ![n] = Forever]
    /\ rr' = [r \in Rr |-> IF r[1] = n THEN EmptyRr ELSE rr[r]]
    /\ stamp' = [stamp EXCEPT ![n] = 0]

\* __de_check_inuse() for an entry of the map; which one comes first depends on
\* the slots of the map.
CheckEntry(n) ==
    LET old == stamp[n] + Limit < clock
        inuse == \E r \in Rr : r[1] = n /\ tt_dns_rr_inuse(r)
    IN  /\ place = "check"
        /\ n \in left
        /\ left' = left \ {n}
        /\ IF old /\ ~inuse
           THEN tt_dns_entry_destroy(n)
           ELSE /\ stamp' = IF old THEN [stamp EXCEPT ![n] = clock] ELSE stamp
                /\ UNCHANGED <<entry, heap, ttl, rr>>
        /\ UNCHANGED <<clock, place, todo, next_check, wake, wait>>

\* tt_dns_cache_run() returns; the task sleeps until something happens.
CheckDone ==
    /\ place = "check"
    /\ left = {}
    /\ place' = "loop"
    /\ wake' = 0
    /\ UNCHANGED <<clock, left, todo, next_check, entry, heap, ttl, stamp, rr, wait>>

\* The task is over and with it its fibers; tt_dns_cache_destroy() in
\* tt_task_wait() destroys the entries one by one, and the resolver drops its
\* queries (ARES_EDESTRUCTION: the callback does nothing).
TaskEnds ==
    /\ place = "loop"
    /\ place' = "gone"
    /\ left' = entry
    /\ wait' = [f \in Fiber |-> None]
    /\ UNCHANGED <<clock, todo, next_check, wake, entry, heap, ttl, stamp, rr>>

tt_dns_cache_destroy(n) ==
    /\ place = "gone"
    /\ n \in left
    /\ left' = left \ {n}
    /\ tt_dns_entry_destroy(n)
    /\ UNCHANGED <<clock, place, todo, next_check, wake, wait>>

MainNext ==
    \/ Notify \/ NotifyDone
    \/ tt_dns_cache_run
    \/ ExpireHead \/ ExpireDone
    \/ \E n \in Name : CheckEntry(n)
    \/ CheckDone

Answer(r) == \E ok \in BOOLEAN, d \in Ttl : Callback(r, ok, d)

Next ==
    \/ Tick
    \/ \E f \in Fiber, r \in Rr : tt_dns_get(f, r)
    \/ \E r \in Rr : Answer(r)
    \/ MainNext
    \/ TaskEnds
    \/ \E n \in Name : tt_dns_cache_destroy(n)

Spec == Init /\ [][Next]_vars

\* The main loop goes on, and the resolver, which has timeouts of its own, calls
\* back for every query in some round of the loop (SF: it cannot while the rest
\* of the round is done).
Fairness ==
    /\ WF_vars(MainNext)
    /\ \A r \in Rr : SF_vars(Answer(r))

FairSpec == Spec /\ Fairness

-----------------------------------------------------------------------------

(* The types of the variables (heap and wake: HeapMatches). *)
TypeOK ==
    /\ clock \in 0 .. MaxClock
    /\ place \in Place
    /\ next_check \in Nat
    /\ entry \subseteq Name
    /\ left \subseteq entry
    /\ ttl \in [Name -> 0 .. Forever]
    /\ stamp \in [Name -> 0 .. MaxClock]
    /\ rr \in [Rr -> [ttl : 0 .. Forever, fb : Fiber \cup {None},
                      waiting : Seq(Fiber), full : BOOLEAN]]
    /\ todo \in [r : Rr \cup {None}, fibers : Seq(Fiber)]
    /\ wait \in [Fiber -> Rr \cup {None}]

(* The list __drr_set() works on exists while it runs, and belongs to a record. *)
TodoOfSet == IF place = "set" THEN todo.r \in Rr ELSE todo = NoTodo

\* The fibers the running __drr_set() has yet to resume for record r.
Pending(r) == IF todo.r = r THEN todo.fibers ELSE <<>>

(* Nobody is forgotten: a fiber that waits for a record is, once, in the       *)
(* waiting list of that record, where a query is under way whose callback will *)
(* find it, or in the list a callback is working on; although the fibers this  *)
(* callback resumed may have started the next query for the same record.       *)
NoLostWaiter ==
    place # "gone" =>
        \A r \in Rr :
            /\ Distinct(rr[r].waiting) /\ Distinct(Pending(r))
            /\ Nodes(rr[r].waiting) \cap Nodes(Pending(r)) = {}
            /\ Nodes(rr[r].waiting) \cup Nodes(Pending(r)) = {f \in Fiber : wait[f] = r}
            /\ rr[r].waiting # <<>> => rr[r].fb # None

(* The entry of a record that a fiber or a query refers to exists: the check   *)
(* for entries out of use takes away none that the resolver or a suspended     *)
(* tt_dns_rr_get() will touch.                                                 *)
EntryAlive ==
    \A r \in Rr :
        place # "gone" /\ (rr[r].fb # None \/ \E f \in Fiber : wait[f] = r) => r[1] \in entry

(* TT_ASSERT_RR(tt_dns_rrlist_empty(&drr->rrl)) in __drr_set(): a result never *)
(* overwrites another one, since there is one query at a time, and none for a  *)
(* record that has a list.  The querying fiber is itself among those waiting.  *)
OneQuery ==
    place # "gone" =>
        \A r \in Rr : rr[r].fb # None => ~rr[r].full /\ rr[r].fb \in Nodes(rr[r].waiting)

(* Map and heap hold the same entries, and the heap is in order by ttl although *)
(* the key of an entry changes while it is in the heap; so it is empty when the *)
(* last entry is destroyed, as tt_dns_cache_destroy() asserts.                  *)
HeapMatches ==
    /\ heap \in Heap /\ wake \in Nat
    /\ Members(heap) = entry /\ Placed(heap) /\ Ordered(heap, ttl)

(* Every list of addresses will expire: its entry expires no later than the    *)
(* time recorded with the list, or a fiber is about to tell the entry.         *)
TtlCovered ==
    \A r \in Rr : rr[r].full => ttl[r[1]] <= rr[r].ttl \/ Pending(r) # <<>>

(* When tt_dns_cache_run() returns no list is left whose recorded time had     *)
(* passed when it began, and the time it tells the task to wait ends before    *)
(* the next one's.  (The time recorded with AAAA records has nearly always     *)
(* passed: AnswerTtl.)                                                         *)
NothingStale ==
    place = "check" => \A r \in Rr : rr[r].full => rr[r].ttl >= clock /\ wake <= rr[r].ttl

(* A fiber that asked for records gets an answer, unless the task ends.        *)
GetReturns ==
    \A f \in Fiber : wait[f] # None ~> wait[f] = None

(* Shared queries (tt_dns_rr_get(), __drr_set()): the entry outlives those who *)
(* use it, one query serves all who ask, and each of them is resumed.          *)
CacheInv == TypeOK /\ TodoOfSet /\ EntryAlive /\ OneQuery /\ NoLostWaiter

(* The ttl heap of tt_dns_cache_run(): whatever lists come and expire, each is *)
(* cleared in time, by the time that __drr_set() recorded with it.             *)
TtlInv == HeapMatches /\ TtlCovered /\ NothingStale
=============================================================================
