--------------------------- MODULE DnsCache_proofs --------------------------
(***************************************************************************)
(* The dns cache (DnsCache.tla), proved for any number of fibers, names and *)
(* ttls.  Its shared queries: nobody who waits is forgotten, and no entry   *)
(* is destroyed that a fiber or the resolver still refers to; this needs    *)
(* nothing of the heap, and CacheInv is inductive.  Then its ttls: map and  *)
(* heap agree, the entry at the head expires first (what the operations of  *)
(* the heap do is in ContainerLemmas), and no list outlives the time that   *)
(* was recorded with it.                                                    *)
(***************************************************************************)
EXTENDS DnsCache, ContainerLemmas, TLAPS

\* The fields of drr.
Fields == [ttl : 0 .. Forever, fb : Fiber \cup {None}, waiting : Seq(Fiber), full : BOOLEAN]

(* The fields of a record.                                                    *)
LEMMA FieldFacts ==
    ASSUME TypeOK
    PROVE  /\ rr \in [Rr -> Fields]
           /\ \A r \in Rr : /\ rr[r].ttl \in 0 .. Forever /\ rr[r].fb \in Fiber \cup {None}
                            /\ rr[r].waiting \in Seq(Fiber) /\ rr[r].full \in BOOLEAN
                            /\ rr[r] = [ttl |-> rr[r].ttl, fb |-> rr[r].fb,
                                        waiting |-> rr[r].waiting, full |-> rr[r].full]
<1>1. rr \in [Rr -> Fields]
  BY DEF TypeOK, Fields
<1>2. \A x \in Fields : /\ x.ttl \in 0 .. Forever /\ x.fb \in Fiber \cup {None}
                        /\ x.waiting \in Seq(Fiber) /\ x.full \in BOOLEAN
                        /\ x = [ttl |-> x.ttl, fb |-> x.fb, waiting |-> x.waiting, full |-> x.full]
  BY DEF Fields
<1>. QED BY <1>1, <1>2

(* The names of records, and the constants.                                   *)
LEMMA NameFacts ==
    /\ \A r \in Rr : r[1] \in Name /\ r # None
    /\ \A f \in Fiber : f # None
    /\ Forever \in Nat /\ MaxClock \in Nat /\ Limit \in Nat
    /\ \A c \in 0 .. MaxClock, d \in Ttl : c + d * Second \in 0 .. Forever /\ d \in 0 .. Forever
<1>1. \A c \in 0 .. MaxClock, d \in Ttl : c + d * Second \in 0 .. Forever /\ d \in 0 .. Forever
  <2>1. ASSUME NEW c \in 0 .. MaxClock, NEW d \in Ttl
        PROVE  c + d * Second \in 0 .. Forever /\ d \in 0 .. Forever
    <3>1. /\ d \in Nat /\ Second \in Nat \ {0} /\ MaxClock \in Nat /\ Forever \in Nat
          /\ MaxClock + d * Second < Forever
      BY DnsAssumption
    <3>2. \A a \in Nat, b \in Nat \ {0} : a * b \in Nat /\ a <= a * b
      OBVIOUS
    <3>3. PICK e \in Nat : e = d * Second
      BY <3>1, <3>2
    <3>4. d <= e /\ MaxClock + e < Forever
      BY <3>1, <3>2, <3>3
    <3>5. c + e \in 0 .. Forever /\ d \in 0 .. Forever
      BY <3>1, <3>3, <3>4
    <3>. QED BY <3>3, <3>5
  <2>. QED BY <2>1
<1>2. \A r \in Rr : r[1] \in Name /\ r # None
  BY DnsAssumption
<1>. QED BY <1>1, <1>2, DnsAssumption

(* A step that leaves those who wait alone.                                   *)
LEMMA SameQueries ==
    ASSUME CacheInv, TypeOK', TodoOfSet',
           wait' = wait, place' # "gone" => place # "gone",
           \A r \in Rr : /\ rr'[r].fb = rr[r].fb /\ rr'[r].waiting = rr[r].waiting
                         /\ rr'[r].full => rr[r].full \/ rr[r].fb = None
                         /\ Pending(r)' = Pending(r)
                         /\ \/ r[1] \in entry => r[1] \in entry'
                            \/ rr[r].fb = None /\ \A f \in Fiber : wait[f] # r
    PROVE  CacheInv'
<1>1. EntryAlive /\ OneQuery /\ NoLostWaiter
  BY DEF CacheInv
<1>2. EntryAlive'
  BY <1>1 DEF EntryAlive
<1>3. OneQuery'
  BY <1>1 DEF OneQuery
<1>4. NoLostWaiter'
  BY <1>1 DEF NoLostWaiter
<1>. QED BY <1>2, <1>3, <1>4 DEF CacheInv

(* Time, and the parts of tt_dns_cache_run() that change no record.           *)
LEMMA QuietKeeps ==
    ASSUME CacheInv, Tick \/ NotifyDone \/ tt_dns_cache_run \/ ExpireDone \/ CheckDone
    PROVE  CacheInv'
<1>1. TypeOK /\ TodoOfSet
  BY DEF CacheInv
<1>2. UNCHANGED <<entry, ttl, stamp, rr, wait>>
  BY DEF Tick, NotifyDone, tt_dns_cache_run, ExpireDone, CheckDone
<1>3. NoTodo \in [r : Rr \cup {None}, fibers : Seq(Fiber)]
  BY DEF NoTodo
<1>4. TypeOK'
  <2>1. CASE Tick
    <3>1. clock' \in 0 .. MaxClock
      BY <1>1, <2>1, NameFacts DEF Tick, TypeOK
    <3>. QED BY <1>1, <1>2, <2>1, <3>1 DEF Tick, TypeOK
  <2>2. CASE NotifyDone
    BY <1>1, <1>2, <1>3, <2>2 DEF NotifyDone, TypeOK, Place
  <2>3. CASE tt_dns_cache_run
    BY <1>1, <1>2, <2>3 DEF tt_dns_cache_run, TypeOK, Place
  <2>4. CASE ExpireDone
    <3>1. next_check' \in Nat /\ left' \subseteq entry
      BY <1>1, <2>4, NameFacts DEF ExpireDone, TypeOK
    <3>. QED BY <1>1, <1>2, <2>4, <3>1 DEF ExpireDone, TypeOK, Place
  <2>5. CASE CheckDone
    BY <1>1, <1>2, <2>5 DEF CheckDone, TypeOK, Place
  <2>. QED BY <2>1, <2>2, <2>3, <2>4, <2>5
<1>5. TodoOfSet' /\ (place' # "gone" => place # "gone")
  BY <1>1 DEF TodoOfSet, Tick, NotifyDone, tt_dns_cache_run, ExpireDone, CheckDone
<1>6. \A r \in Rr : Pending(r)' = Pending(r)
  <2>1. CASE todo' = todo
    BY <2>1 DEF Pending
  <2>2. CASE NotifyDone
    BY <2>2, NameFacts DEF NotifyDone, Pending, NoTodo
  <2>. QED BY <2>1, <2>2 DEF Tick, tt_dns_cache_run, ExpireDone, CheckDone
<1>. QED BY <1>2, <1>4, <1>5, <1>6, SameQueries

(* What the callback makes of a record, and what a resumed fiber of the entry. *)
LEMMA SetFacts ==
    ASSUME TypeOK, NEW r \in Rr, NEW ok \in BOOLEAN, NEW d \in Ttl
    PROVE  /\ SetRr(r, ok, d) \in [Rr -> Fields]
           /\ SetRr(r, ok, d)[r].fb = None /\ SetRr(r, ok, d)[r].waiting = rr[r].waiting
           /\ \A s \in Rr \ {r} : SetRr(r, ok, d)[s] = rr[s]
<1>1. clock \in 0 .. MaxClock
  BY DEF TypeOK
<1>2. AnswerTtl(r, d) \in 0 .. Forever /\ Forever \in 0 .. Forever
  BY <1>1, NameFacts DEF AnswerTtl
<1>3. DEFINE t == IF ok THEN AnswerTtl(r, d) ELSE Forever
             new == [rr[r] EXCEPT !.fb = None, !.ttl = t, !.full = ok]
<1>4. rr \in [Rr -> Fields] /\ rr[r] \in Fields /\ t \in 0 .. Forever
  BY <1>2, FieldFacts
<1>. HIDE DEF t
<1>5. new \in Fields /\ new.fb = None /\ new.waiting = rr[r].waiting
  BY <1>4 DEF Fields
<1>6. SetRr(r, ok, d) = [rr EXCEPT ![r] = new]
  BY <1>4 DEF SetRr, t, Fields
<1>. HIDE DEF new
<1>. QED BY <1>4, <1>5, <1>6

LEMMA UpdateTyped ==
    ASSUME TypeOK, NEW h, NEW n, NEW t \in 0 .. Forever, tt_dns_entry_update_ttl(h, n, t)
    PROVE  ttl' \in [Name -> 0 .. Forever]
<1>1. ttl \in [Name -> 0 .. Forever]
  BY DEF TypeOK
<1>2. ttl' = ttl \/ ttl' = [ttl EXCEPT ![n] = t]
  BY DEF tt_dns_entry_update_ttl
<1>. QED BY <1>1, <1>2

(* The entry at the head of the heap expires: its lists go, its queries stay. *)
LEMMA ExpireKeeps ==
    ASSUME CacheInv, ExpireHead
    PROVE  CacheInv'
<1>1. TypeOK /\ TodoOfSet
  BY DEF CacheInv
<1>2. PICK n : /\ place = "expire" /\ rr' = Cleared(n) /\ ttl' = [ttl EXCEPT ![n] = Forever]
               /\ UNCHANGED <<clock, place, left, todo, next_check, wake, entry, stamp, wait>>
  BY DEF ExpireHead
<1>3. \A r \in Rr : /\ rr'[r] \in Fields
                    /\ rr'[r].fb = rr[r].fb /\ rr'[r].waiting = rr[r].waiting
                    /\ rr'[r].full => rr[r].full
  <2>1. ASSUME NEW r \in Rr
        PROVE  /\ rr'[r] \in Fields
               /\ rr'[r].fb = rr[r].fb /\ rr'[r].waiting = rr[r].waiting
               /\ rr'[r].full => rr[r].full
    <3>1. rr'[r] = rr[r] \/ rr'[r] = [rr[r] EXCEPT !.ttl = Forever, !.full = FALSE]
      BY <1>2 DEF Cleared
    <3>2. rr[r] \in Fields /\ Forever \in 0 .. Forever
      BY <1>1, FieldFacts, NameFacts
    <3>. QED BY <3>1, <3>2 DEF Fields
  <2>. QED BY <2>1
<1>4. rr' \in [Rr -> Fields]
  BY <1>2, <1>3 DEF Cleared
<1>5. ttl' \in [Name -> 0 .. Forever]
  <2>1. ttl \in [Name -> 0 .. Forever] /\ Forever \in 0 .. Forever
    BY <1>1, NameFacts DEF TypeOK
  <2>. QED BY <1>2, <2>1
<1>6. TypeOK' /\ TodoOfSet'
  BY <1>1, <1>2, <1>4, <1>5 DEF TypeOK, TodoOfSet, Fields
<1>7. \A r \in Rr : Pending(r)' = Pending(r)
  BY <1>2 DEF Pending
<1>. QED BY <1>2, <1>3, <1>6, <1>7, SameQueries

(* A fiber that finds the list, or whose query is answered at once, changes   *)
(* nothing for those who wait.                                                *)
LEMMA GetAtOnceKeeps ==
    ASSUME CacheInv, NEW f \in Fiber, NEW r \in Rr, tt_dns_get(f, r), wait' = wait
    PROVE  CacheInv'
<1>1. TypeOK /\ TodoOfSet
  BY DEF CacheInv
<1>2. /\ entry' = entry \cup {r[1]} /\ stamp' = [stamp EXCEPT ![r[1]] = clock]
      /\ wait[f] = None /\ UNCHANGED <<clock, place, left, todo, next_check>>
  BY DEF tt_dns_get
<1>3. \/ ttl' = ttl /\ rr' = rr
      \/ /\ rr[r].fb = None
         /\ \E h : \E ok \in BOOLEAN, d \in Ttl :
               rr' = SetRr(r, ok, d) /\ tt_dns_entry_update_ttl(h, r[1], rr'[r].ttl)
  <2>1. wait' # [wait EXCEPT ![f] = r]
    BY <1>1, <1>2, NameFacts DEF TypeOK
  <2>. QED BY <2>1 DEF tt_dns_get
<1>4. rr' \in [Rr -> Fields] /\ ttl' \in [Name -> 0 .. Forever]
  <2>1. CASE ttl' = ttl /\ rr' = rr
    BY <1>1, <2>1, FieldFacts DEF TypeOK
  <2>2. CASE ~(ttl' = ttl /\ rr' = rr)
    <3>1. PICK h : \E ok \in BOOLEAN, d \in Ttl :
             rr' = SetRr(r, ok, d) /\ tt_dns_entry_update_ttl(h, r[1], rr'[r].ttl)
      BY <1>3, <2>2
    <3>2. PICK ok \in BOOLEAN, d \in Ttl :
             rr' = SetRr(r, ok, d) /\ tt_dns_entry_update_ttl(h, r[1], rr'[r].ttl)
      BY <3>1
    <3>3. rr' \in [Rr -> Fields]
      BY <1>1, <3>2, SetFacts
    <3>4. rr'[r].ttl \in 0 .. Forever
      BY <3>3 DEF Fields
    <3>. QED BY <1>1, <3>2, <3>3, <3>4, UpdateTyped
  <2>. QED BY <2>1, <2>2
<1>5. \A s \in Rr : /\ rr'[s].fb = rr[s].fb /\ rr'[s].waiting = rr[s].waiting
                    /\ rr'[s].full => rr[s].full \/ rr[s].fb = None
  BY <1>1, <1>3, SetFacts
<1>6. TypeOK' /\ TodoOfSet'
  <2>1. stamp' \in [Name -> 0 .. MaxClock] /\ entry' \subseteq Name /\ left' \subseteq entry'
    BY <1>1, <1>2, NameFacts DEF TypeOK
  <2>. QED BY <1>1, <1>2, <1>4, <2>1 DEF TypeOK, TodoOfSet, Fields
<1>7. \A s \in Rr : Pending(s)' = Pending(s)
  BY <1>2 DEF Pending
<1>. QED BY <1>2, <1>5, <1>6, <1>7, SameQueries

(* A fiber joins those who wait, with the query it starts or the one there is. *)
LEMMA JoinKeeps ==
    ASSUME CacheInv, NEW f \in Fiber, NEW r \in Rr, tt_dns_get(f, r), wait' # wait
    PROVE  CacheInv'
<1>1. TypeOK /\ TodoOfSet /\ EntryAlive /\ OneQuery /\ NoLostWaiter
  BY DEF CacheInv
<1>2. /\ entry' = entry \cup {r[1]} /\ stamp' = [stamp EXCEPT ![r[1]] = clock]
      /\ place \in {"loop", "set"} /\ wait[f] = None
      /\ UNCHANGED <<clock, place, left, todo, next_check, ttl>>
      /\ wait' = [wait EXCEPT ![f] = r] /\ ~rr[r].full
      /\ rr' = [rr EXCEPT ![r].fb = IF rr[r].fb = None THEN f ELSE @,
                          ![r].waiting = tt_list_push_tail(@, f)]
  BY DEF tt_dns_get, HasList
<1>3. DEFINE w == tt_list_push_tail(rr[r].waiting, f)
             q == IF rr[r].fb = None THEN f ELSE rr[r].fb
<1>4. /\ rr \in [Rr -> Fields] /\ rr[r] \in Fields /\ rr[r].waiting \in Seq(Fiber)
      /\ q \in Fiber
  BY <1>1, FieldFacts
<1>5. /\ w \in Seq(Fiber) /\ Nodes(w) = Nodes(rr[r].waiting) \cup {f}
      /\ Distinct(rr[r].waiting) /\ f \notin Nodes(rr[r].waiting) => Distinct(w)
  <2>1. rr[r].waiting \in Seq(Fiber)
    BY <1>4
  <2>2. ASSUME NEW x \in Seq(Fiber)
        PROVE  /\ tt_list_push_tail(x, f) \in Seq(Fiber)
               /\ Nodes(tt_list_push_tail(x, f)) = Nodes(x) \cup {f}
               /\ Distinct(x) /\ f \notin Nodes(x) => Distinct(tt_list_push_tail(x, f))
    BY PushTail
  <2>. QED BY <2>1, <2>2
<1>. HIDE DEF w, q
<1>6. /\ rr' \in [Rr -> Fields]
      /\ rr'[r].fb = q /\ rr'[r].waiting = w /\ rr'[r].full = rr[r].full
      /\ \A s \in Rr \ {r} : rr'[s] = rr[s]
  <2>1. DEFINE new == [rr[r] EXCEPT !.fb = q, !.waiting = w]
  <2>2. /\ new \in Fields /\ new.fb = q /\ new.waiting = w /\ new.full = rr[r].full
    BY <1>4, <1>5 DEF Fields
  <2>3. rr' = [rr EXCEPT ![r] = new]
    BY <1>2, <1>4 DEF w, q, Fields
  <2>. HIDE DEF new
  <2>. QED BY <1>4, <2>2, <2>3
<1>7. /\ wait' \in [Fiber -> Rr \cup {None}] /\ wait'[f] = r
      /\ \A g \in Fiber \ {f} : wait'[g] = wait[g]
  BY <1>1, <1>2 DEF TypeOK
<1>8. TypeOK' /\ TodoOfSet'
  <2>1. stamp' \in [Name -> 0 .. MaxClock] /\ entry' \subseteq Name /\ left' \subseteq entry'
    BY <1>1, <1>2, NameFacts DEF TypeOK
  <2>. QED BY <1>1, <1>2, <1>6, <1>7, <2>1 DEF TypeOK, TodoOfSet, Fields
<1>9. EntryAlive'
  <2>1. ASSUME NEW s \in Rr, s[1] \notin entry'
        PROVE  rr'[s].fb = None /\ \A g \in Fiber : wait'[g] # s
    <3>1. s # r /\ s[1] \notin entry
      BY <1>2, <2>1
    <3>2. rr[s].fb = None /\ \A g \in Fiber : wait[g] # s
      BY <1>1, <1>2, <3>1 DEF EntryAlive
    <3>. QED BY <1>6, <1>7, <3>1, <3>2
  <2>. QED BY <2>1 DEF EntryAlive
<1>10. OneQuery'
  <2>1. q \in Nodes(w)
    BY <1>1, <1>2, <1>5 DEF q, OneQuery
  <2>2. \A s \in Rr : rr'[s].fb # None => ~rr'[s].full /\ rr'[s].fb \in Nodes(rr'[s].waiting)
    BY <1>1, <1>2, <1>6, <2>1 DEF OneQuery
  <2>. QED BY <2>2 DEF OneQuery
<1>11. NoLostWaiter'
  <2>1. \A s \in Rr : Pending(s)' = Pending(s)
    BY <1>2 DEF Pending
  <2>2. ASSUME NEW s \in Rr
        PROVE  /\ Distinct(rr'[s].waiting) /\ Distinct(Pending(s))
               /\ Nodes(rr'[s].waiting) \cap Nodes(Pending(s)) = {}
               /\ Nodes(rr'[s].waiting) \cup Nodes(Pending(s)) = {g \in Fiber : wait'[g] = s}
               /\ rr'[s].waiting # <<>> => rr'[s].fb # None
    <3>1. /\ Distinct(rr[s].waiting) /\ Distinct(Pending(s))
          /\ Nodes(rr[s].waiting) \cap Nodes(Pending(s)) = {}
          /\ Nodes(rr[s].waiting) \cup Nodes(Pending(s)) = {g \in Fiber : wait[g] = s}
          /\ rr[s].waiting # <<>> => rr[s].fb # None
      BY <1>1, <1>2 DEF NoLostWaiter
    <3>2. f \notin Nodes(rr[s].waiting) /\ f \notin Nodes(Pending(s)) /\ s # None
      BY <1>2, <3>1, NameFacts
    <3>3. CASE s = r
      <4>1. {g \in Fiber : wait'[g] = s} = {g \in Fiber : wait[g] = s} \cup {f}
        BY <1>7, <3>3
      <4>2. rr'[s].waiting = w /\ rr'[s].fb # None
        BY <1>4, <1>6, <3>3, NameFacts
      <4>. QED BY <1>5, <3>1, <3>2, <3>3, <4>1, <4>2
    <3>4. CASE s # r
      <4>1. {g \in Fiber : wait'[g] = s} = {g \in Fiber : wait[g] = s}
        BY <1>2, <1>7, <3>2, <3>4
      <4>. QED BY <1>6, <3>1, <3>4, <4>1
    <3>. QED BY <3>3, <3>4
  <2>. QED BY <2>1, <2>2 DEF NoLostWaiter
<1>. QED BY <1>8, <1>9, <1>10, <1>11 DEF CacheInv

(* The callback takes all who wait off the record.                            *)
LEMMA CallbackKeeps ==
    ASSUME CacheInv, NEW r \in Rr, NEW ok \in BOOLEAN, NEW d \in Ttl, Callback(r, ok, d)
    PROVE  CacheInv'
<1>1. TypeOK /\ TodoOfSet /\ EntryAlive /\ OneQuery /\ NoLostWaiter
  BY DEF CacheInv
<1>2. /\ place = "loop" /\ place' = "set"
      /\ rr' = [SetRr(r, ok, d) EXCEPT ![r].waiting = <<>>]
      /\ todo' = [r |-> r, fibers |-> rr[r].waiting]
      /\ UNCHANGED <<clock, left, next_check, entry, ttl, stamp, wait>>
  BY DEF Callback, Taken
<1>3. /\ rr' \in [Rr -> Fields]
      /\ rr'[r].fb = None /\ rr'[r].waiting = <<>>
      /\ \A s \in Rr \ {r} : rr'[s] = rr[s]
  <2>1. DEFINE mid == SetRr(r, ok, d)
               new == [mid[r] EXCEPT !.waiting = <<>>]
  <2>2. /\ mid \in [Rr -> Fields] /\ mid[r].fb = None
        /\ \A s \in Rr \ {r} : mid[s] = rr[s]
    BY <1>1, SetFacts
  <2>3. rr' = [mid EXCEPT ![r] = new]
    BY <1>2
  <2>. HIDE DEF mid
  <2>4. new \in Fields /\ new.fb = None /\ new.waiting = <<>>
    <3>1. mid[r] \in Fields /\ <<>> \in Seq(Fiber)
      BY <2>2
    <3>2. \A x \in Fields : /\ [x EXCEPT !.waiting = <<>>] \in Fields
                            /\ [x EXCEPT !.waiting = <<>>].fb = x.fb
                            /\ [x EXCEPT !.waiting = <<>>].waiting = <<>>
      BY <3>1 DEF Fields
    <3>. QED BY <2>2, <3>1, <3>2
  <2>. HIDE DEF new
  <2>. QED BY <2>2, <2>3, <2>4
<1>4. rr[r].waiting \in Seq(Fiber)
  BY <1>1, FieldFacts
<1>5. TypeOK' /\ TodoOfSet'
  BY <1>1, <1>2, <1>3, <1>4 DEF TypeOK, TodoOfSet, Fields, Place
<1>6. EntryAlive'
  BY <1>1, <1>2, <1>3 DEF EntryAlive
<1>7. OneQuery'
  BY <1>1, <1>2, <1>3 DEF OneQuery
<1>8. NoLostWaiter'
  <2>1. \A s \in Rr : Pending(s) = <<>> /\ Pending(s)' = IF s = r THEN rr[r].waiting ELSE <<>>
    BY <1>1, <1>2, NameFacts DEF TodoOfSet, NoTodo, Pending
  <2>2. Nodes(<<>>) = {} /\ Distinct(<<>>)
    BY DEF Nodes, Distinct
  <2>3. ASSUME NEW s \in Rr
        PROVE  /\ Distinct(rr'[s].waiting) /\ Distinct(Pending(s)')
               /\ Nodes(rr'[s].waiting) \cap Nodes(Pending(s)') = {}
               /\ Nodes(rr'[s].waiting) \cup Nodes(Pending(s)') = {g \in Fiber : wait'[g] = s}
               /\ rr'[s].waiting # <<>> => rr'[s].fb # None
    <3>1. /\ Distinct(rr[s].waiting)
          /\ Nodes(rr[s].waiting) = {g \in Fiber : wait[g] = s}
          /\ rr[s].waiting # <<>> => rr[s].fb # None
      BY <1>1, <1>2, <2>1, <2>2 DEF NoLostWaiter
    <3>. QED BY <1>2, <1>3, <2>1, <2>2, <3>1
  <2>. QED BY <2>3 DEF NoLostWaiter
<1>. QED BY <1>5, <1>6, <1>7, <1>8 DEF CacheInv

(* The callback resumes the next of them; its request is answered.            *)
LEMMA NotifyKeeps ==
    ASSUME CacheInv, Notify
    PROVE  CacheInv'
<1>1. TypeOK /\ TodoOfSet /\ EntryAlive /\ OneQuery /\ NoLostWaiter
  BY DEF CacheInv
<1>2. PICK f, r, fs : f = Head(fs) /\ r = todo.r /\ fs = todo.fibers
  OBVIOUS
<1>3. /\ place = "set" /\ fs # <<>> /\ todo' = [todo EXCEPT !.fibers = Tail(fs)]
      /\ wait' = [wait EXCEPT ![f] = None]
      /\ tt_dns_entry_update_ttl(heap, r[1], rr[r].ttl)
      /\ UNCHANGED <<clock, place, left, next_check, entry, stamp, rr>>
  BY <1>2 DEF Notify
<1>4. /\ r \in Rr /\ fs \in Seq(Fiber) /\ todo \in [r : Rr \cup {None}, fibers : Seq(Fiber)]
  BY <1>1, <1>2, <1>3 DEF TypeOK, TodoOfSet
<1>5. \A s \in Rr : Pending(s) = IF s = r THEN fs ELSE <<>>
  BY <1>2 DEF Pending
<1>6. /\ Distinct(fs) /\ Distinct(rr[r].waiting) /\ Nodes(rr[r].waiting) \cap Nodes(fs) = {}
      /\ Nodes(rr[r].waiting) \cup Nodes(fs) = {g \in Fiber : wait[g] = r}
  BY <1>1, <1>3, <1>4, <1>5 DEF NoLostWaiter
<1>7. /\ f \in Fiber /\ Tail(fs) \in Seq(Fiber) /\ Distinct(Tail(fs))
      /\ Nodes(Tail(fs)) = Nodes(fs) \ {f} /\ f \in Nodes(fs)
  BY <1>2, <1>3, <1>4, <1>6, TailTakesHead
<1>8. /\ wait' \in [Fiber -> Rr \cup {None}] /\ wait'[f] = None /\ wait[f] = r
      /\ \A g \in Fiber \ {f} : wait'[g] = wait[g]
  BY <1>1, <1>3, <1>6, <1>7 DEF TypeOK
<1>9. /\ todo' \in [r : Rr \cup {None}, fibers : Seq(Fiber)]
      /\ todo'.r = r /\ todo'.fibers = Tail(fs)
  BY <1>2, <1>3, <1>4, <1>7
<1>10. ttl' \in [Name -> 0 .. Forever]
  <2>1. rr[r].ttl \in 0 .. Forever
    BY <1>1, <1>4, FieldFacts
  <2>. QED BY <1>1, <1>3, <2>1, UpdateTyped
<1>11. TypeOK' /\ TodoOfSet'
  BY <1>1, <1>3, <1>4, <1>8, <1>9, <1>10 DEF TypeOK, TodoOfSet
<1>12. EntryAlive'
  <2>1. \A s \in Rr, g \in Fiber : wait'[g] = s => wait[g] = s
    BY <1>8, NameFacts
  <2>. QED BY <1>1, <1>3, <2>1 DEF EntryAlive
<1>13. OneQuery'
  BY <1>1, <1>3 DEF OneQuery
<1>14. NoLostWaiter'
  <2>1. \A s \in Rr : Pending(s)' = IF s = r THEN Tail(fs) ELSE <<>>
    BY <1>9 DEF Pending
  <2>2. ASSUME NEW s \in Rr
        PROVE  /\ Distinct(rr'[s].waiting) /\ Distinct(Pending(s)')
               /\ Nodes(rr'[s].waiting) \cap Nodes(Pending(s)') = {}
               /\ Nodes(rr'[s].waiting) \cup Nodes(Pending(s)') = {g \in Fiber : wait'[g] = s}
               /\ rr'[s].waiting # <<>> => rr'[s].fb # None
    <3>1. /\ Distinct(rr[s].waiting) /\ Distinct(Pending(s))
          /\ Nodes(rr[s].waiting) \cap Nodes(Pending(s)) = {}
          /\ Nodes(rr[s].waiting) \cup Nodes(Pending(s)) = {g \in Fiber : wait[g] = s}
          /\ rr[s].waiting # <<>> => rr[s].fb # None
      BY <1>1, <1>3 DEF NoLostWaiter
    <3>2. CASE s = r
      <4>1. {g \in Fiber : wait'[g] = s} = {g \in Fiber : wait[g] = s} \ {f}
        BY <1>8, <3>2, NameFacts
      <4>2. f \notin Nodes(rr[s].waiting)
        BY <1>6, <1>7, <3>2
      <4>3. Nodes(rr[s].waiting) \cup Nodes(Tail(fs)) = {g \in Fiber : wait'[g] = s}
        BY <1>6, <1>7, <3>2, <4>1, <4>2
      <4>. QED BY <1>3, <1>6, <1>7, <2>1, <3>1, <3>2, <4>3
    <3>3. CASE s # r
      <4>1. {g \in Fiber : wait'[g] = s} = {g \in Fiber : wait[g] = s}
        BY <1>8, <3>3, NameFacts
      <4>. QED BY <1>3, <1>5, <2>1, <3>1, <3>3, <4>1
    <3>. QED BY <3>2, <3>3
  <2>. QED BY <2>2 DEF NoLostWaiter
<1>. QED BY <1>11, <1>12, <1>13, <1>14 DEF CacheInv

(* What freeing an entry leaves well formed.                                  *)
LEMMA DestroyTyped ==
    ASSUME TypeOK, NEW n \in Name, tt_dns_entry_destroy(n), left' = left \ {n},
           UNCHANGED <<clock, place, todo, next_check, wait>>
    PROVE  TypeOK'
<1>1. /\ entry' = entry \ {n} /\ ttl' = [ttl EXCEPT ![n] = Forever]
      /\ rr' = [r \in Rr |-> IF r[1] = n THEN EmptyRr ELSE rr[r]]
      /\ stamp' = [stamp EXCEPT ![n] = 0]
  BY DEF tt_dns_entry_destroy
<1>2. Forever \in 0 .. Forever /\ 0 \in 0 .. MaxClock
  BY NameFacts
<1>3. EmptyRr \in Fields
  BY <1>2 DEF EmptyRr, Fields
<1>4. rr' \in [Rr -> Fields]
  BY <1>1, <1>3, FieldFacts
<1>5. ttl' \in [Name -> 0 .. Forever] /\ stamp' \in [Name -> 0 .. MaxClock]
  BY <1>1, <1>2 DEF TypeOK
<1>. QED BY <1>1, <1>4, <1>5 DEF TypeOK, Fields

(* The check for entries out of use: none it destroys has a fiber or a query. *)
LEMMA CheckKeeps ==
    ASSUME CacheInv, NEW n \in Name, CheckEntry(n)
    PROVE  CacheInv'
<1>1. TypeOK /\ TodoOfSet /\ NoLostWaiter
  BY DEF CacheInv
<1>2. /\ place = "check" /\ left' = left \ {n}
      /\ UNCHANGED <<clock, place, todo, next_check, wait>>
  BY DEF CheckEntry
<1>3. TodoOfSet' /\ \A r \in Rr : Pending(r) = <<>> /\ Pending(r)' = <<>>
  BY <1>1, <1>2, NameFacts DEF TodoOfSet, Pending, NoTodo
<1>4. CASE UNCHANGED <<entry, heap, ttl, rr>>
  <2>1. stamp' = stamp \/ stamp' = [stamp EXCEPT ![n] = clock]
    BY <1>1, <1>4 DEF CheckEntry, tt_dns_entry_destroy, TypeOK
  <2>2. TypeOK'
    BY <1>1, <1>2, <1>4, <2>1 DEF TypeOK
  <2>. QED BY <1>2, <1>3, <1>4, <2>2, SameQueries
<1>5. CASE tt_dns_entry_destroy(n) /\ ~ \E r \in Rr : r[1] = n /\ tt_dns_rr_inuse(r)
  <2>1. TypeOK'
    BY <1>1, <1>2, <1>5, DestroyTyped
  <2>2. ASSUME NEW r \in Rr, r[1] = n
        PROVE  rr[r].fb = None /\ rr[r].waiting = <<>> /\ \A f \in Fiber : wait[f] # r
    <3>1. rr[r].fb = None /\ rr[r].waiting = <<>>
      BY <1>5, <2>2 DEF tt_dns_rr_inuse
    <3>2. Nodes(<<>>) = {}
      BY DEF Nodes
    <3>. QED BY <1>1, <1>2, <1>3, <3>1, <3>2 DEF NoLostWaiter
  <2>3. /\ entry' = entry \ {n}
        /\ \A r \in Rr : rr'[r] = IF r[1] = n THEN EmptyRr ELSE rr[r]
    BY <1>5 DEF tt_dns_entry_destroy
  <2>4. EmptyRr.fb = None /\ EmptyRr.waiting = <<>> /\ EmptyRr.full = FALSE
    BY DEF EmptyRr
  <2>5. \A r \in Rr : /\ rr'[r].fb = rr[r].fb /\ rr'[r].waiting = rr[r].waiting
                      /\ rr'[r].full => rr[r].full \/ rr[r].fb = None
                      /\ \/ r[1] \in entry => r[1] \in entry'
                         \/ rr[r].fb = None /\ \A f \in Fiber : wait[f] # r
    BY <2>2, <2>3, <2>4
  <2>. QED BY <1>2, <1>3, <2>1, <2>5, SameQueries
<1>. QED BY <1>4, <1>5 DEF CheckEntry

(* The end of the task, with its fibers and its queries.                      *)
LEMMA EndKeeps ==
    ASSUME CacheInv, TaskEnds \/ \E n \in Name : tt_dns_cache_destroy(n)
    PROVE  CacheInv'
<1>1. TypeOK /\ TodoOfSet
  BY DEF CacheInv
<1>2. place' = "gone" /\ todo' = todo
  BY DEF TaskEnds, tt_dns_cache_destroy
<1>3. TypeOK'
  <2>1. CASE TaskEnds
    BY <1>1, <2>1 DEF TaskEnds, TypeOK, Place
  <2>2. ASSUME NEW n \in Name, tt_dns_cache_destroy(n) PROVE TypeOK'
    BY <1>1, <2>2, DestroyTyped DEF tt_dns_cache_destroy
  <2>. QED BY <2>1, <2>2
<1>4. TodoOfSet'
  BY <1>1, <1>2 DEF TodoOfSet, TaskEnds, tt_dns_cache_destroy
<1>. QED BY <1>2, <1>3, <1>4 DEF CacheInv, EntryAlive, OneQuery, NoLostWaiter

LEMMA InitHolds == Init => CacheInv
<1>. SUFFICES ASSUME Init PROVE CacheInv
  OBVIOUS
<1>1. EmptyRr \in Fields /\ EmptyRr.fb = None /\ EmptyRr.waiting = <<>> /\ Forever \in 0 .. Forever
  BY NameFacts DEF EmptyRr, Fields
<1>2. rr \in [Rr -> Fields] /\ \A r \in Rr : rr[r] = EmptyRr
  BY <1>1 DEF Init
<1>3. TypeOK
  BY <1>1, <1>2, NameFacts DEF Init, TypeOK, Place, NoTodo, Fields
<1>4. TodoOfSet
  BY DEF Init, TodoOfSet
<1>5. EntryAlive /\ OneQuery
  BY <1>1, <1>2, NameFacts DEF Init, EntryAlive, OneQuery
<1>6. NoLostWaiter
  <2>1. Nodes(<<>>) = {} /\ Distinct(<<>>)
    BY DEF Nodes, Distinct
  <2>2. \A r \in Rr : Pending(r) = <<>> /\ {f \in Fiber : wait[f] = r} = {}
    BY NameFacts DEF Init, NoTodo, Pending
  <2>. QED BY <1>1, <1>2, <2>1, <2>2 DEF NoLostWaiter
<1>. QED BY <1>3, <1>4, <1>5, <1>6 DEF CacheInv

LEMMA NextKeeps == CacheInv /\ [Next]_vars => CacheInv'
<1>. SUFFICES ASSUME CacheInv, [Next]_vars PROVE CacheInv'
  OBVIOUS
<1>1. CASE Tick \/ NotifyDone \/ tt_dns_cache_run \/ ExpireDone \/ CheckDone
  BY <1>1, QuietKeeps
<1>2. ASSUME NEW f \in Fiber, NEW r \in Rr, tt_dns_get(f, r) PROVE CacheInv'
  BY <1>2, GetAtOnceKeeps, JoinKeeps
<1>3. ASSUME NEW r \in Rr, Answer(r) PROVE CacheInv'
  BY <1>3, CallbackKeeps DEF Answer
<1>4. CASE Notify
  BY <1>4, NotifyKeeps
<1>5. CASE ExpireHead
  BY <1>5, ExpireKeeps
<1>6. ASSUME NEW n \in Name, CheckEntry(n) PROVE CacheInv'
  BY <1>6, CheckKeeps
<1>7. CASE TaskEnds \/ \E n \in Name : tt_dns_cache_destroy(n)
  BY <1>7, EndKeeps
<1>8. CASE UNCHANGED vars
  BY <1>8 DEF vars, CacheInv, TypeOK, TodoOfSet, EntryAlive, OneQuery, NoLostWaiter, Pending
<1>. QED BY <1>1, <1>2, <1>3, <1>4, <1>5, <1>6, <1>7, <1>8 DEF Next, MainNext

(* Whatever fibers ask for, also those a callback has just resumed, and       *)
(* whenever the answers come: each fiber that waits is in exactly one list    *)
(* from which it will be resumed (tt_dns_rr_get(), __drr_set()), a record has *)
(* one query at a time, and __de_check_inuse() destroys no entry in use.      *)
THEOREM CacheInvariant == Spec => []CacheInv
BY InitHolds, NextKeeps, PTL DEF Spec

-----------------------------------------------------------------------------
(* The heap of ttls.                                                        *)

\* A record with a list belongs to an entry.
ListsKnown == \A r \in Rr : rr[r].full => r[1] \in entry

\* Its inductive invariant, next to CacheInv.
TtlPart ==
    /\ wake \in Nat /\ IsHeap(heap, ttl) /\ Members(heap) = entry
    /\ TtlCovered /\ ListsKnown /\ NothingStale

(* What the numbers are.                                                      *)
LEMMA TtlView ==
    ASSUME TypeOK
    PROVE  /\ ttl \in [Item -> Nat] /\ clock \in Nat /\ next_check \in Nat /\ entry \subseteq Name
           /\ \A n \in Name : ttl[n] \in Nat /\ ttl[n] <= Forever
           /\ \A r \in Rr : rr[r].ttl \in Nat /\ rr[r].ttl <= Forever /\ r[1] \in Name
           /\ Forever \in Nat /\ Limit \in Nat
<1>1. ttl \in [Name -> 0 .. Forever] /\ clock \in 0 .. MaxClock /\ entry \subseteq Name
      /\ next_check \in Nat
  BY DEF TypeOK
<1>2. Forever \in Nat /\ MaxClock \in Nat /\ Limit \in Nat
  BY NameFacts
<1>3. \A r \in Rr : rr[r].ttl \in 0 .. Forever /\ r[1] \in Name
  BY FieldFacts, NameFacts
<1>. QED BY <1>1, <1>2, <1>3 DEF Name

(* tt_dns_entry_update_ttl() keeps the heap, and the entry expires no later.   *)
LEMMA UpdateFacts ==
    ASSUME TypeOK, NEW h, IsHeap(h, ttl), NEW n \in Members(h), n \in Name, NEW t \in 0 .. Forever,
           tt_dns_entry_update_ttl(h, n, t)
    PROVE  /\ IsHeap(heap', ttl') /\ Members(heap') = Members(h) /\ ttl'[n] <= t
           /\ \A m \in Name : ttl'[m] \in Nat /\ ttl'[m] <= ttl[m]
<1>1. /\ ttl \in [Item -> Nat] /\ Forever \in Nat /\ t \in Nat
      /\ \A m \in Name : ttl[m] \in Nat /\ m \in Item
  BY TtlView DEF Name
<1>2. CASE t < ttl[n]
  <2>1. ttl' = [ttl EXCEPT ![n] = t] /\ heap' = tt_ptrheap_fix(h, ttl', h.pos[n])
    BY <1>2 DEF tt_dns_entry_update_ttl
  <2>2. /\ ttl' \in [Item -> Nat] /\ ttl'[n] = t /\ \A m \in Item : m # n => ttl'[m] = ttl[m]
    BY <1>1, <2>1 DEF Name
  <2>3. Members(h) \subseteq Item
    BY PosFacts DEF IsHeap
  <2>4. \A y \in Members(h) : y # n => ttl'[y] = ttl[y]
    BY <2>2, <2>3
  <2>5. /\ IsHeap(tt_ptrheap_fix(h, ttl', h.pos[n]), ttl')
        /\ Members(tt_ptrheap_fix(h, ttl', h.pos[n])) = Members(h)
    BY <1>1, <2>2, <2>4, FixChangedKey
  <2>. QED BY <1>1, <1>2, <2>1, <2>2, <2>5
<1>3. CASE ~(t < ttl[n])
  <2>1. ttl' = ttl /\ heap' = h
    BY <1>3 DEF tt_dns_entry_update_ttl
  <2>. QED BY <1>1, <1>3, <2>1
<1>. QED BY <1>2, <1>3

(* What the callback makes of the ttl of a record.                            *)
LEMMA SetValues ==
    ASSUME TypeOK, NEW r \in Rr, NEW ok \in BOOLEAN, NEW d \in Ttl
    PROVE  SetRr(r, ok, d)[r].full = ok
<1>. DEFINE t == IF ok THEN AnswerTtl(r, d) ELSE Forever
<1>1. rr \in [Rr -> Fields] /\ rr[r] \in Fields
  BY FieldFacts
<1>. HIDE DEF t
<1>2. SetRr(r, ok, d) = [rr EXCEPT ![r] = [rr[r] EXCEPT !.fb = None, !.ttl = t, !.full = ok]]
  BY <1>1 DEF SetRr, t, Fields
<1>. QED BY <1>1, <1>2 DEF Fields

(* A step outside of the check for entries out of use that makes no list last longer. *)
LEMMA TtlSteps ==
    ASSUME TypeOK, TtlPart, TypeOK', wake' \in Nat, place' # "check",
           IsHeap(heap', ttl'), Members(heap') = entry',
           \A r \in Rr : /\ rr'[r].full => r[1] \in entry'
                         /\ rr'[r].full => \/ ttl'[r[1]] <= rr'[r].ttl \/ Pending(r)' # <<>>
    PROVE  TtlPart'
  BY DEF TtlPart, TtlCovered, ListsKnown, NothingStale

(* The same where records stay and entries expire no later.                   *)
LEMMA TtlSameLists ==
    ASSUME TypeOK, TtlPart, TypeOK', wake' \in Nat, place' # "check",
           IsHeap(heap', ttl'), Members(heap') = entry', entry \subseteq entry',
           \A n \in Name : ttl'[n] <= ttl[n],
           \A r \in Rr : rr'[r].full => rr[r].full /\ rr'[r].ttl = rr[r].ttl,
           \A r \in Rr : Pending(r)' = Pending(r)
    PROVE  TtlPart'
<1>1. ASSUME NEW r \in Rr, rr'[r].full
      PROVE  r[1] \in entry' /\ (ttl'[r[1]] <= rr'[r].ttl \/ Pending(r)' # <<>>)
  <2>1. rr[r].full /\ rr'[r].ttl = rr[r].ttl /\ ttl'[r[1]] <= ttl[r[1]]
    BY <1>1, TtlView
  <2>2. r[1] \in entry /\ (ttl[r[1]] <= rr[r].ttl \/ Pending(r) # <<>>)
    BY <2>1 DEF TtlPart, TtlCovered, ListsKnown
  <2>3. ttl[r[1]] \in Nat /\ rr[r].ttl \in Nat /\ ttl'[r[1]] \in Nat
    <3>1. r[1] \in Name /\ ttl' \in [Name -> 0 .. Forever]
      BY NameFacts DEF TypeOK
    <3>. QED BY <3>1, TtlView
  <2>. QED BY <2>1, <2>2, <2>3
<1>. QED BY <1>1, TtlSteps

LEMMA TtlQuietKeeps ==
    ASSUME CacheInv, TypeOK', TtlPart, Tick \/ NotifyDone \/ tt_dns_cache_run \/ CheckDone \/ TaskEnds
    PROVE  TtlPart'
<1>1. TypeOK /\ TodoOfSet
  BY DEF CacheInv
<1>2. /\ UNCHANGED <<entry, heap, ttl, rr>> /\ wake' \in Nat /\ place' # "check"
  BY DEF Tick, NotifyDone, tt_dns_cache_run, CheckDone, TaskEnds, TtlPart
<1>3. \A r \in Rr : Pending(r)' = Pending(r)
  <2>1. CASE todo' = todo
    BY <2>1 DEF Pending
  <2>2. CASE NotifyDone
    BY <2>2, NameFacts DEF NotifyDone, Pending, NoTodo
  <2>. QED BY <2>1, <2>2 DEF Tick, tt_dns_cache_run, CheckDone, TaskEnds
<1>4. IsHeap(heap', ttl') /\ Members(heap') = entry'
  BY <1>2 DEF TtlPart
<1>5. \A n \in Name : ttl'[n] <= ttl[n]
  BY <1>1, <1>2, TtlView
<1>. QED BY <1>1, <1>2, <1>3, <1>4, <1>5, TtlSameLists

LEMMA TtlGetKeeps ==
    ASSUME CacheInv, TypeOK', TtlPart, NEW f \in Fiber, NEW r \in Rr, tt_dns_get(f, r)
    PROVE  TtlPart'
<1> DEFINE n == r[1]
           h == IF n \in entry THEN heap ELSE tt_ptrheap_add(heap, ttl, n)
<1>1. TypeOK /\ n \in Name
  BY NameFacts DEF CacheInv
<1>2. /\ place \in {"loop", "set"} /\ entry' = entry \cup {n}
      /\ UNCHANGED <<clock, place, left, todo, next_check, wake>>
      /\ \/ heap' = h /\ UNCHANGED <<ttl, rr>>
         \/ /\ heap' = h /\ UNCHANGED ttl
            /\ rr' = [rr EXCEPT ![r].fb = IF rr[r].fb = None THEN f ELSE @,
                                ![r].waiting = tt_list_push_tail(@, f)]
         \/ \E ok \in BOOLEAN, d \in Ttl :
               rr' = SetRr(r, ok, d) /\ tt_dns_entry_update_ttl(h, n, rr'[r].ttl)
  BY DEF tt_dns_get
<1>3. IsHeap(h, ttl) /\ Members(h) = entry \cup {n}
  <2>1. IsHeap(heap, ttl) /\ Members(heap) = entry /\ ttl \in [Item -> Nat] /\ n \in Item
    BY <1>1, TtlView DEF TtlPart, Name
  <2>2. CASE n \in entry
    BY <2>1, <2>2
  <2>3. CASE n \notin entry
    BY <2>1, <2>3, AddFacts
  <2>. QED BY <2>2, <2>3
<1>. HIDE DEF h
<1>4. wake' \in Nat /\ place' # "check" /\ \A s \in Rr : Pending(s)' = Pending(s)
  BY <1>2 DEF TtlPart, Pending
<1>5. CASE heap' = h /\ UNCHANGED ttl /\ \A s \in Rr : rr'[s].full = rr[s].full /\ rr'[s].ttl = rr[s].ttl
  <2>1. \A m \in Name : ttl'[m] <= ttl[m]
    BY <1>1, <1>5, TtlView
  <2>2. IsHeap(heap', ttl') /\ Members(heap') = entry'
    BY <1>2, <1>3, <1>5
  <2>3. entry \subseteq entry' /\ \A s \in Rr : rr'[s].full => rr[s].full /\ rr'[s].ttl = rr[s].ttl
    BY <1>2, <1>5
  <2>. QED BY <1>1, <1>4, <2>1, <2>2, <2>3, TtlSameLists
<1>6. CASE heap' = h /\ UNCHANGED <<ttl, rr>>
  BY <1>5, <1>6
<1>7. CASE /\ heap' = h /\ UNCHANGED ttl
           /\ rr' = [rr EXCEPT ![r].fb = IF rr[r].fb = None THEN f ELSE @,
                               ![r].waiting = tt_list_push_tail(@, f)]
  <2> DEFINE q == IF rr[r].fb = None THEN f ELSE rr[r].fb
             w == tt_list_push_tail(rr[r].waiting, f)
  <2>1. rr \in [Rr -> Fields] /\ rr[r] \in Fields
    BY <1>1, FieldFacts
  <2>2. rr' = [rr EXCEPT ![r] = [rr[r] EXCEPT !.fb = q, !.waiting = w]]
    BY <1>7, <2>1 DEF Fields
  <2>. HIDE DEF q, w
  <2>3. \A x \in Fields : /\ [x EXCEPT !.fb = q, !.waiting = w].full = x.full
                          /\ [x EXCEPT !.fb = q, !.waiting = w].ttl = x.ttl
    BY DEF Fields
  <2>4. \A s \in Rr : rr'[s].full = rr[s].full /\ rr'[s].ttl = rr[s].ttl
    BY <2>1, <2>2, <2>3
  <2>. QED BY <1>5, <1>7, <2>4
<1>8. ASSUME NEW ok \in BOOLEAN, NEW d \in Ttl, rr' = SetRr(r, ok, d),
             tt_dns_entry_update_ttl(h, n, rr'[r].ttl)
      PROVE  TtlPart'
  <2>1. rr' \in [Rr -> Fields] /\ \A s \in Rr \ {r} : rr'[s] = rr[s]
    BY <1>1, <1>8, SetFacts
  <2>2. rr'[r].ttl \in 0 .. Forever
    BY <2>1 DEF Fields
  <2>3. /\ IsHeap(heap', ttl') /\ Members(heap') = entry' /\ ttl'[n] <= rr'[r].ttl
        /\ \A m \in Name : ttl'[m] \in Nat /\ ttl'[m] <= ttl[m]
    BY <1>1, <1>2, <1>3, <1>8, <2>2, UpdateFacts
  <2>4. ASSUME NEW s \in Rr, rr'[s].full
        PROVE  s[1] \in entry' /\ (ttl'[s[1]] <= rr'[s].ttl \/ Pending(s)' # <<>>)
    <3>1. CASE s = r
      BY <1>2, <2>3, <3>1
    <3>2. CASE s # r
      <4>1. s[1] \in entry /\ (ttl[s[1]] <= rr[s].ttl \/ Pending(s) # <<>>) /\ rr'[s] = rr[s]
        BY <2>1, <2>4, <3>2 DEF TtlPart, TtlCovered, ListsKnown
      <4>2. ttl[s[1]] \in Nat /\ rr[s].ttl \in Nat /\ s[1] \in Name
        BY <1>1, TtlView
      <4>. QED BY <1>2, <1>4, <2>3, <4>1, <4>2
    <3>. QED BY <3>1, <3>2
  <2>. QED BY <1>1, <1>4, <2>3, <2>4, TtlSteps
<1>. QED BY <1>2, <1>6, <1>7, <1>8

LEMMA TtlCallbackKeeps ==
    ASSUME CacheInv, TypeOK', TtlPart, NEW r \in Rr, NEW ok \in BOOLEAN, NEW d \in Ttl, Callback(r, ok, d)
    PROVE  TtlPart'
<1>1. TypeOK /\ TodoOfSet /\ EntryAlive /\ OneQuery
  BY DEF CacheInv
<1>2. /\ place = "loop" /\ place' = "set" /\ rr[r].fb # None
      /\ rr' = [SetRr(r, ok, d) EXCEPT ![r].waiting = <<>>]
      /\ todo' = [r |-> r, fibers |-> rr[r].waiting]
      /\ UNCHANGED <<wake, entry, heap, ttl>>
  BY DEF Callback, Taken
<1>3. rr'[r].full => Pending(r)' # <<>> /\ r[1] \in entry'
  <2>1. rr[r].fb \in Nodes(rr[r].waiting) /\ r[1] \in entry
    BY <1>1, <1>2 DEF OneQuery, EntryAlive
  <2>2. rr[r].waiting # <<>>
    BY <2>1 DEF Nodes
  <2>. QED BY <1>2, <2>1, <2>2 DEF Pending
<1>4. \A s \in Rr \ {r} : rr'[s] = rr[s]
  <2>1. \A s \in Rr \ {r} : SetRr(r, ok, d)[s] = rr[s]
    BY <1>1, SetFacts
  <2>2. SetRr(r, ok, d) \in [Rr -> Fields]
    BY <1>1, SetFacts
  <2>. QED BY <1>2, <2>1, <2>2
<1>5. ASSUME NEW s \in Rr, rr'[s].full
      PROVE  s[1] \in entry' /\ (ttl'[s[1]] <= rr'[s].ttl \/ Pending(s)' # <<>>)
  <2>1. CASE s = r
    BY <1>3, <1>5, <2>1
  <2>2. CASE s # r
    <3>1. Pending(s) = <<>>
      BY <1>1, <1>2, NameFacts DEF TodoOfSet, NoTodo, Pending
    <3>. QED BY <1>2, <1>4, <1>5, <2>2, <3>1 DEF TtlPart, TtlCovered, ListsKnown
  <2>. QED BY <2>1, <2>2
<1>6. /\ wake' \in Nat /\ place' # "check" /\ IsHeap(heap', ttl') /\ Members(heap') = entry'
  BY <1>2 DEF TtlPart
<1>. QED BY <1>1, <1>5, <1>6, TtlSteps

LEMMA TtlNotifyKeeps ==
    ASSUME CacheInv, TypeOK', TtlPart, Notify
    PROVE  TtlPart'
<1> DEFINE r == todo.r
<1>1. TypeOK /\ TodoOfSet /\ EntryAlive /\ NoLostWaiter
  BY DEF CacheInv
<1>2. /\ place = "set" /\ todo.fibers # <<>> /\ todo' = [todo EXCEPT !.fibers = Tail(todo.fibers)]
      /\ tt_dns_entry_update_ttl(heap, r[1], rr[r].ttl)
      /\ UNCHANGED <<place, wake, entry, rr>>
  BY DEF Notify
<1>3. r \in Rr /\ todo \in [r : Rr \cup {None}, fibers : Seq(Fiber)]
  BY <1>1, <1>2 DEF TodoOfSet, TypeOK
<1>4. todo'.r = r /\ Pending(r) = todo.fibers
  BY <1>2, <1>3 DEF Pending
<1>5. r[1] \in entry /\ r[1] \in Name
  <2>1. Head(todo.fibers) \in Nodes(todo.fibers)
    BY <1>2, <1>3, HeadIsNode
  <2>2. Nodes(Pending(r)) \subseteq {f \in Fiber : wait[f] = r}
    BY <1>1, <1>2, <1>3 DEF NoLostWaiter
  <2>3. \E f \in Fiber : wait[f] = r
    BY <1>4, <2>1, <2>2
  <2>. QED BY <1>1, <1>2, <1>3, <2>3, NameFacts DEF EntryAlive
<1>6. rr[r].ttl \in 0 .. Forever /\ rr[r].ttl \in Nat
  BY <1>1, <1>3, FieldFacts, TtlView
<1>7. /\ IsHeap(heap', ttl') /\ Members(heap') = entry /\ ttl'[r[1]] <= rr[r].ttl
      /\ \A m \in Name : ttl'[m] \in Nat /\ ttl'[m] <= ttl[m]
  BY <1>1, <1>2, <1>5, <1>6, UpdateFacts DEF TtlPart
<1>8. ASSUME NEW s \in Rr, rr'[s].full
      PROVE  s[1] \in entry' /\ (ttl'[s[1]] <= rr'[s].ttl \/ Pending(s)' # <<>>)
  <2>1. CASE s = r
    BY <1>2, <1>5, <1>7, <2>1
  <2>2. CASE s # r
    <3>1. Pending(s) = <<>> /\ rr'[s] = rr[s]
      BY <1>2, <2>2 DEF Pending
    <3>2. s[1] \in entry /\ ttl[s[1]] <= rr[s].ttl
      BY <1>8, <3>1 DEF TtlPart, TtlCovered, ListsKnown
    <3>3. ttl[s[1]] \in Nat /\ rr[s].ttl \in Nat /\ s[1] \in Name
      BY <1>1, TtlView
    <3>. QED BY <1>2, <1>7, <3>1, <3>2, <3>3
  <2>. QED BY <2>1, <2>2
<1>9. wake' \in Nat /\ place' # "check" /\ Members(heap') = entry'
  BY <1>2, <1>7 DEF TtlPart
<1>. QED BY <1>1, <1>7, <1>8, <1>9, TtlSteps

(* The head of the heap.                                                      *)
LEMMA HeadTtlFacts ==
    ASSUME TypeOK, TtlPart
    PROVE  /\ HeadTtl \in Nat /\ HeadTtl <= Forever
           /\ \A n \in entry : HeadTtl <= ttl[n]
           /\ heap.node # <<>> => tt_ptrheap_head(heap) \in entry
<1>1. /\ IsHeap(heap, ttl) /\ Members(heap) = entry /\ Sound(heap) /\ ttl \in [Item -> Nat]
      /\ entry \subseteq Name /\ Forever \in Nat /\ \A n \in Name : ttl[n] \in Nat /\ ttl[n] <= Forever
  BY TtlView DEF TtlPart, IsHeap
<1>2. heap.node = <<>> <=> entry = {}
  BY <1>1, PosFacts
<1>3. CASE entry = {}
  BY <1>1, <1>2, <1>3 DEF HeadTtl
<1>4. CASE entry # {}
  <2>1. /\ tt_ptrheap_head(heap) \in entry
        /\ \A x \in entry : ttl[tt_ptrheap_head(heap)] <= ttl[x]
    BY <1>1, <1>4, HeadIsLeast
  <2>2. HeadTtl = ttl[tt_ptrheap_head(heap)]
    BY <1>2, <1>4 DEF HeadTtl
  <2>. QED BY <1>1, <2>1, <2>2
<1>. QED BY <1>3, <1>4

LEMMA TtlExpireKeeps ==
    ASSUME CacheInv, TypeOK', TtlPart, ExpireHead
    PROVE  TtlPart'
<1> DEFINE n == tt_ptrheap_head(heap)
<1>1. TypeOK /\ TodoOfSet
  BY DEF CacheInv
<1>2. /\ place = "expire" /\ Expired(HeadTtl) /\ ttl' = [ttl EXCEPT ![n] = Forever]
      /\ rr' = Cleared(n) /\ heap' = tt_ptrheap_fix(heap, ttl', heap.pos[n])
      /\ UNCHANGED <<place, todo, wake, entry>>
  BY DEF ExpireHead
<1>3. n \in entry /\ n \in Name
  <2>1. heap.node # <<>>
    BY <1>2 DEF Expired, HeadTtl
  <2>. QED BY <1>1, <2>1, HeadTtlFacts, TtlView
<1>. HIDE DEF n
<1>4. /\ IsHeap(heap, ttl) /\ Members(heap) = entry /\ entry \subseteq Item /\ n \in Item
      /\ ttl \in [Item -> Nat] /\ Forever \in Nat
  BY <1>1, <1>3, TtlView DEF TtlPart, Name
<1>5. ttl' \in [Item -> Nat] /\ \A m \in Item : m # n => ttl'[m] = ttl[m]
  BY <1>2, <1>4
<1>6. IsHeap(heap', ttl') /\ Members(heap') = entry'
  <2>1. \A y \in Members(heap) : y # n => ttl'[y] = ttl[y]
    BY <1>4, <1>5
  <2>2. /\ IsHeap(tt_ptrheap_fix(heap, ttl', heap.pos[n]), ttl')
        /\ Members(tt_ptrheap_fix(heap, ttl', heap.pos[n])) = Members(heap)
    BY <1>3, <1>4, <1>5, <2>1, FixChangedKey
  <2>. QED BY <1>2, <1>4, <2>2
<1>7. ASSUME NEW s \in Rr, rr'[s].full
      PROVE  s[1] \in entry' /\ (ttl'[s[1]] <= rr'[s].ttl \/ Pending(s)' # <<>>)
  <2>1. rr'[s] = IF s[1] = n THEN [rr[s] EXCEPT !.ttl = Forever, !.full = FALSE] ELSE rr[s]
    BY <1>2 DEF Cleared
  <2>2. rr[s] \in Fields
    BY <1>1, FieldFacts
  <2>3. s[1] # n /\ rr'[s] = rr[s]
    BY <1>7, <2>1, <2>2 DEF Fields
  <2>4. Pending(s)' = Pending(s) /\ s[1] \in Item
    BY <1>1, <1>2, TtlView DEF Pending, Name
  <2>. QED BY <1>2, <1>5, <1>7, <2>3, <2>4 DEF TtlPart, TtlCovered, ListsKnown
<1>8. wake' \in Nat /\ place' # "check"
  BY <1>2 DEF TtlPart
<1>. QED BY <1>1, <1>6, <1>7, <1>8, TtlSteps

\* From here to the return of tt_dns_cache_run() the task is told to wait no longer
\* than any list lasts.
LEMMA TtlDoneKeeps ==
    ASSUME CacheInv, TypeOK', TtlPart, ExpireDone
    PROVE  TtlPart'
<1>1. TypeOK /\ TodoOfSet
  BY DEF CacheInv
<1>2. /\ place = "expire" /\ ~Expired(HeadTtl) /\ place' = "check"
      /\ next_check' = IF next_check <= clock THEN clock + Limit ELSE next_check
      /\ wake' = Sooner(HeadTtl, next_check')
      /\ UNCHANGED <<clock, todo, entry, heap, ttl, rr>>
  BY DEF ExpireDone
<1>3. /\ HeadTtl \in Nat /\ HeadTtl <= Forever /\ \A n \in entry : HeadTtl <= ttl[n]
  BY <1>1, HeadTtlFacts
<1>4. /\ clock \in Nat /\ next_check' \in Nat /\ Forever \in Nat /\ clock < Forever
  <2>1. clock \in Nat /\ next_check \in Nat /\ Limit \in Nat /\ Forever \in Nat
    BY <1>1, TtlView
  <2>2. clock \in 0 .. MaxClock /\ MaxClock \in Nat /\ MaxClock + Limit < Forever
    BY <1>1, DnsAssumption DEF TypeOK
  <2>. QED BY <1>2, <2>1, <2>2
<1>5. wake' \in Nat /\ wake' <= HeadTtl /\ clock <= HeadTtl
  BY <1>2, <1>3, <1>4 DEF Sooner, Expired
<1>6. ASSUME NEW r \in Rr, rr[r].full
      PROVE  r[1] \in entry /\ ttl[r[1]] <= rr[r].ttl /\ rr[r].ttl >= clock /\ wake' <= rr[r].ttl
  <2>1. Pending(r) = <<>>
    BY <1>1, <1>2, NameFacts DEF TodoOfSet, NoTodo, Pending
  <2>2. r[1] \in entry /\ ttl[r[1]] <= rr[r].ttl
    BY <1>6, <2>1 DEF TtlPart, TtlCovered, ListsKnown
  <2>3. HeadTtl <= ttl[r[1]] /\ ttl[r[1]] \in Nat /\ rr[r].ttl \in Nat
    BY <1>1, <1>3, <2>2, TtlView
  <2>. QED BY <1>3, <1>4, <1>5, <2>2, <2>3
<1>7. TtlCovered' /\ ListsKnown' /\ NothingStale'
  BY <1>2, <1>6 DEF TtlCovered, ListsKnown, NothingStale
<1>. QED BY <1>2, <1>5, <1>7 DEF TtlPart

(* An entry leaves the heap and the map.                                      *)
LEMMA TtlDestroyFacts ==
    ASSUME TypeOK, TodoOfSet, TtlPart, place # "set", NEW n \in entry, tt_dns_entry_destroy(n)
    PROVE  /\ IsHeap(heap', ttl') /\ Members(heap') = entry'
           /\ \A r \in Rr : rr'[r].full => /\ rr'[r] = rr[r] /\ rr[r].full /\ r[1] \in entry'
                                           /\ ttl'[r[1]] <= rr'[r].ttl
<1>1. /\ entry' = entry \ {n} /\ heap' = tt_ptrheap_remove(heap, ttl, heap.pos[n])
      /\ ttl' = [ttl EXCEPT ![n] = Forever]
      /\ rr' = [r \in Rr |-> IF r[1] = n THEN EmptyRr ELSE rr[r]]
  BY DEF tt_dns_entry_destroy
<1>2. /\ IsHeap(heap, ttl) /\ Members(heap) = entry /\ entry \subseteq Item /\ ttl \in [Item -> Nat]
  BY TtlView DEF TtlPart, Name
<1>3. IsHeap(heap', ttl) /\ Members(heap') = entry \ {n}
  BY <1>1, <1>2, RemoveFacts
<1>4. \A m \in Item : m # n => ttl'[m] = ttl[m]
  BY <1>1, <1>2
<1>5. IsHeap(heap', ttl') /\ Members(heap') = entry'
  <2>1. \A x \in Members(heap') : ttl'[x] = ttl[x]
    BY <1>2, <1>3, <1>4
  <2>2. IsHeap(heap', ttl')
    BY <1>3, <2>1, OrderedFrame
  <2>. QED BY <1>1, <1>3, <2>2
<1>6. ASSUME NEW r \in Rr, rr'[r].full
      PROVE  /\ rr'[r] = rr[r] /\ rr[r].full /\ r[1] \in entry'
             /\ ttl'[r[1]] <= rr'[r].ttl
  <2>1. r[1] # n /\ rr'[r] = rr[r]
    BY <1>1, <1>6 DEF EmptyRr
  <2>2. Pending(r) = <<>>
    BY NameFacts DEF TodoOfSet, NoTodo, Pending
  <2>3. r[1] \in entry /\ ttl[r[1]] <= rr[r].ttl
    BY <1>6, <2>1, <2>2 DEF TtlPart, TtlCovered, ListsKnown
  <2>. QED BY <1>1, <1>2, <1>4, <1>6, <2>1, <2>3
<1>. QED BY <1>5, <1>6

LEMMA TtlCheckKeeps ==
    ASSUME CacheInv, TypeOK', TtlPart, NEW n \in Name, CheckEntry(n)
    PROVE  TtlPart'
<1>1. TypeOK /\ TodoOfSet
  BY DEF CacheInv
<1>2. /\ place = "check" /\ n \in left /\ UNCHANGED <<clock, place, todo, wake>>
      /\ UNCHANGED <<entry, heap, ttl, rr>> \/ tt_dns_entry_destroy(n)
  BY DEF CheckEntry
<1>3. n \in entry
  BY <1>1, <1>2 DEF TypeOK
<1>4. CASE UNCHANGED <<entry, heap, ttl, rr>>
  BY <1>2, <1>4 DEF TtlPart, TtlCovered, ListsKnown, NothingStale, Pending
<1>5. CASE tt_dns_entry_destroy(n)
  <2>1. /\ IsHeap(heap', ttl') /\ Members(heap') = entry'
        /\ \A r \in Rr : rr'[r].full => /\ rr'[r] = rr[r] /\ rr[r].full /\ r[1] \in entry'
                                        /\ ttl'[r[1]] <= rr'[r].ttl
    BY <1>1, <1>2, <1>3, <1>5, TtlDestroyFacts
  <2>2. TtlCovered' /\ ListsKnown'
    BY <2>1 DEF TtlCovered, ListsKnown
  <2>3. NothingStale'
    BY <1>2, <2>1 DEF TtlPart, NothingStale
  <2>. QED BY <1>2, <2>1, <2>2, <2>3 DEF TtlPart
<1>. QED BY <1>2, <1>4, <1>5

LEMMA TtlGoneKeeps ==
    ASSUME CacheInv, TypeOK', TtlPart, NEW n \in Name, tt_dns_cache_destroy(n)
    PROVE  TtlPart'
<1>1. TypeOK /\ TodoOfSet
  BY DEF CacheInv
<1>2. /\ place = "gone" /\ n \in left /\ UNCHANGED <<clock, place, todo, wake>>
      /\ tt_dns_entry_destroy(n)
  BY DEF tt_dns_cache_destroy
<1>3. n \in entry
  BY <1>1, <1>2 DEF TypeOK
<1>4. /\ IsHeap(heap', ttl') /\ Members(heap') = entry'
      /\ \A r \in Rr : rr'[r].full => /\ rr'[r] = rr[r] /\ rr[r].full /\ r[1] \in entry'
                                      /\ ttl'[r[1]] <= rr'[r].ttl
  BY <1>1, <1>2, <1>3, TtlDestroyFacts
<1>5. wake' \in Nat /\ place' # "check"
  BY <1>2 DEF TtlPart
<1>. QED BY <1>1, <1>4, <1>5, TtlSteps

LEMMA TtlInit == Init => TtlPart
<1>. SUFFICES ASSUME Init PROVE TtlPart
  OBVIOUS
<1>1. IsHeap(heap, ttl) /\ Members(heap) = entry
  BY EmptyHeapFacts DEF Init
<1>2. \A r \in Rr : ~rr[r].full
  BY DEF Init, EmptyRr
<1>. QED BY <1>1, <1>2 DEF Init, TtlPart, TtlCovered, ListsKnown, NothingStale

LEMMA TtlNext == CacheInv /\ TtlPart /\ [Next]_vars => TtlPart'
<1>. SUFFICES ASSUME CacheInv, TtlPart, [Next]_vars PROVE TtlPart'
  OBVIOUS
<1>1. TypeOK'
  BY NextKeeps DEF CacheInv
<1>2. CASE Tick \/ NotifyDone \/ tt_dns_cache_run \/ CheckDone \/ TaskEnds
  BY <1>1, <1>2, TtlQuietKeeps
<1>3. ASSUME NEW f \in Fiber, NEW r \in Rr, tt_dns_get(f, r) PROVE TtlPart'
  BY <1>1, <1>3, TtlGetKeeps
<1>4. ASSUME NEW r \in Rr, Answer(r) PROVE TtlPart'
  BY <1>1, <1>4, TtlCallbackKeeps DEF Answer
<1>5. CASE Notify
  BY <1>1, <1>5, TtlNotifyKeeps
<1>6. CASE ExpireHead
  BY <1>1, <1>6, TtlExpireKeeps
<1>7. CASE ExpireDone
  BY <1>1, <1>7, TtlDoneKeeps
<1>8. ASSUME NEW n \in Name, CheckEntry(n) PROVE TtlPart'
  BY <1>1, <1>8, TtlCheckKeeps
<1>9. ASSUME NEW n \in Name, tt_dns_cache_destroy(n) PROVE TtlPart'
  BY <1>1, <1>9, TtlGoneKeeps
<1>10. CASE UNCHANGED vars
  BY <1>10 DEF vars, TtlPart, TtlCovered, ListsKnown, NothingStale, Pending
<1>. QED BY <1>2, <1>3, <1>4, <1>5, <1>6, <1>7, <1>8, <1>9, <1>10 DEF Next, MainNext

(* Map and heap hold the same entries and the one that expires first is at the *)
(* head, although tt_dns_entry_update_ttl() changes keys in the heap and        *)
(* __de_check_inuse() removes entries from its middle; so tt_dns_cache_run()   *)
(* clears every list whose time has passed and lets the task sleep no longer   *)
(* than till the next one's.  The time is the one __drr_set() was given: for   *)
(* AAAA records a number of seconds that nothing has converted (AnswerTtl).    *)
THEOREM TtlInvariant == Spec => []TtlInv
<1>1. TtlPart => TtlInv
  BY DEF TtlPart, TtlInv, HeapMatches, IsHeap, Sound
<1>2. Init => CacheInv /\ TtlPart
  BY InitHolds, TtlInit
<1>3. CacheInv /\ TtlPart /\ [Next]_vars => (CacheInv /\ TtlPart)'
  BY NextKeeps, TtlNext
<1>. QED BY <1>1, <1>2, <1>3, PTL DEF Spec
=============================================================================
