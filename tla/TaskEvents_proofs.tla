-------------------------- MODULE TaskEvents_proofs -------------------------
(***************************************************************************)
(* Tasks, fibers and their events (TaskEvents.tla), proved for any number   *)
(* of tasks, fibers and operations: a fiber is resumed by its own thread    *)
(* only, the event of a waiting fiber is in exactly one place, nobody       *)
(* sleeps on events, fibers are handed out once they have started, and      *)
(* posts arrive in order.                                                   *)
(***************************************************************************)
EXTENDS TaskEvents, ContainerLemmas, TLAPS

-----------------------------------------------------------------------------
(* Tasks and their fibers.                                                  *)

(* Every fiber belongs to one task.                                         *)
LEMMA TaskFacts ==
    /\ \A f \in Fiber : TaskOf[f] \in Task /\ f \in Nodes(Tfl[TaskOf[f]])
    /\ \A t \in Task : \A f \in Nodes(Tfl[t]) : f \in Fiber /\ TaskOf[f] = t
    /\ Client \subseteq Fiber /\ Server \subseteq Fiber /\ Client \cap Server = {}
    /\ Fiber = Client \cup Server /\ Main \notin Fiber
    /\ \A f \in Client : MaxOps[f] \in Nat
<1>1. \A t \in Task : \A f \in Nodes(Tfl[t]) : f \in Fiber
  BY DEF Fiber
<1>2. \A f \in Fiber : TaskOf[f] \in Task /\ f \in Nodes(Tfl[TaskOf[f]])
  <2>1. ASSUME NEW f \in Fiber PROVE TaskOf[f] \in Task /\ f \in Nodes(Tfl[TaskOf[f]])
    <3>1. \E t \in Task : f \in Nodes(Tfl[t])
      BY DEF Fiber
    <3>2. TaskOf[f] = CHOOSE t \in Task : f \in Nodes(Tfl[t])
      BY DEF TaskOf
    <3>. QED BY <3>1, <3>2
  <2>. QED BY <2>1
<1>3. \A t \in Task : \A f \in Nodes(Tfl[t]) : TaskOf[f] = t
  <2>1. ASSUME NEW t \in Task, NEW f \in Nodes(Tfl[t]), TaskOf[f] # t PROVE FALSE
    <3>1. TaskOf[f] \in Task /\ f \in Nodes(Tfl[TaskOf[f]])
      BY <1>1, <1>2
    <3>2. Nodes(Tfl[TaskOf[f]]) \cap Nodes(Tfl[t]) = {}
      BY <2>1, <3>1, TaskAssumption
    <3>. QED BY <3>1, <3>2
  <2>. QED BY <2>1
<1>4. Server \subseteq Fiber /\ Main \notin Fiber /\ MaxOps \in [Client -> Nat]
  BY TaskAssumption
<1>. QED BY <1>1, <1>2, <1>3, <1>4 DEF Client

(* The list of the fibers of a task.                                        *)
LEMMA TflFacts ==
    ASSUME NEW t \in Task
    PROVE  /\ Tfl[t] \in Seq(Fiber) /\ Distinct(Tfl[t])
           /\ DOMAIN Tfl[t] = 1 .. Len(Tfl[t]) /\ Len(Tfl[t]) \in Nat
           /\ \A i \in DOMAIN Tfl[t] : Tfl[t][i] \in Nodes(Tfl[t])
           /\ \A f \in Nodes(Tfl[t]) : \E i \in DOMAIN Tfl[t] : f = Tfl[t][i]
<1>1. Tfl[t] \in Seq(Fiber) /\ Distinct(Tfl[t])
  BY TaskAssumption
<1>2. DOMAIN Tfl[t] = 1 .. Len(Tfl[t]) /\ Len(Tfl[t]) \in Nat
  BY <1>1
<1>. QED BY <1>1, <1>2 DEF Nodes

(* The fields of events.                                                    *)
LEMMA EventFacts ==
    /\ \A e \in Event : e.kind \in {"call", "find", "post", "exit"}
    /\ \A e \in Event : e.kind # "exit" => e.src \in Client /\ e.dst \in Fiber
    /\ \A e \in Event : e.kind \in {"call", "post"} => e.dst \in Server
    /\ \A e \in Event : e.kind = "find" => e.dst \in Findable
    /\ \A e \in Event : e.kind = "post" => e.n \in Nat
    /\ \A f \in Client, g \in Server :
          /\ CallEv(f, g) \in Event /\ CallEv(f, g).kind = "call"
          /\ CallEv(f, g).src = f /\ CallEv(f, g).dst = g
          /\ \A n \in Nat : /\ PostEv(f, g, n) \in Event /\ PostEv(f, g, n).kind = "post"
                            /\ PostEv(f, g, n).src = f /\ PostEv(f, g, n).dst = g
                            /\ PostEv(f, g, n).n = n
    /\ \A f \in Client, g \in Findable :
          /\ FindEv(f, g) \in Event /\ FindEv(f, g).kind = "find"
          /\ FindEv(f, g).src = f /\ FindEv(f, g).dst = g
    /\ ExitEv \in Event /\ ExitEv.kind = "exit"
    /\ None \notin Event
<1>1. \A e \in Event : e.kind \in {"call", "find", "post", "exit"}
  BY DEF Event, ExitEv
<1>2. /\ \A e \in Event : e.kind # "exit" => e.src \in Client /\ e.dst \in Fiber
      /\ \A e \in Event : e.kind \in {"call", "post"} => e.dst \in Server
      /\ \A e \in Event : e.kind = "find" => e.dst \in Findable
  BY TaskFacts DEF Event, ExitEv, Findable
<1>3. \A e \in Event : e.kind = "post" => e.n \in Nat
  BY DEF Event, ExitEv
<1>4. \A f \in Client, g \in Server :
          /\ CallEv(f, g) \in Event /\ CallEv(f, g).kind = "call"
          /\ CallEv(f, g).src = f /\ CallEv(f, g).dst = g
  BY DEF Event, CallEv
<1>5. \A f \in Client, g \in Findable :
          /\ FindEv(f, g) \in Event /\ FindEv(f, g).kind = "find"
          /\ FindEv(f, g).src = f /\ FindEv(f, g).dst = g
  BY DEF Event, FindEv
<1>6. \A f \in Client, g \in Server, n \in Nat :
          /\ PostEv(f, g, n) \in Event /\ PostEv(f, g, n).kind = "post"
          /\ PostEv(f, g, n).src = f /\ PostEv(f, g, n).dst = g
          /\ PostEv(f, g, n).n = n
  BY DEF Event, PostEv
<1>7. ExitEv \in Event /\ ExitEv.kind = "exit"
  BY DEF Event, ExitEv
<1>. QED BY <1>1, <1>2, <1>3, <1>4, <1>5, <1>6, <1>7, TaskAssumption

-----------------------------------------------------------------------------
(* How often the event of a waiting fiber is in a list.                     *)

LEMMA AppendMine ==
    ASSUME NEW S, NEW s \in Seq(S), NEW e \in S, NEW f
    PROVE  /\ ~Mine(f, e) /\ NoneIn(f, s) => NoneIn(f, Append(s, e))
           /\ ~Mine(f, e) /\ OneIn(f, s) => OneIn(f, Append(s, e))
           /\ Mine(f, e) /\ NoneIn(f, s) => OneIn(f, Append(s, e))
<1> DEFINE n == Len(s)
           new == Append(s, e)
<1>1. /\ n \in Nat /\ DOMAIN s = 1 .. n /\ DOMAIN new = 1 .. n + 1
      /\ new[n + 1] = e /\ \A i \in 1 .. n : new[i] = s[i]
  OBVIOUS
<1>2. /\ \A i \in 1 .. n : i \in 1 .. n + 1 /\ i # n + 1
      /\ \A i \in 1 .. n + 1 : i \in 1 .. n \/ i = n + 1
      /\ n + 1 \in 1 .. n + 1
  BY <1>1
<1> HIDE DEF n, new
<1>3. ~Mine(f, e) /\ NoneIn(f, s) => NoneIn(f, new)
  BY <1>1, <1>2 DEF NoneIn
<1>4. ~Mine(f, e) /\ OneIn(f, s) => OneIn(f, new)
  BY <1>1, <1>2 DEF OneIn
<1>5. Mine(f, e) /\ NoneIn(f, s) => OneIn(f, new)
  BY <1>1, <1>2 DEF OneIn, NoneIn
<1>. QED BY <1>3, <1>4, <1>5 DEF new

LEMMA TailMine ==
    ASSUME NEW S, NEW s \in Seq(S), s # <<>>, NEW f
    PROVE  /\ NoneIn(f, s) => NoneIn(f, Tail(s)) /\ ~Mine(f, Head(s))
           /\ ~Mine(f, Head(s)) /\ OneIn(f, s) => OneIn(f, Tail(s))
           /\ Mine(f, Head(s)) /\ OneIn(f, s) => NoneIn(f, Tail(s))
<1> DEFINE n == Len(s)
           new == Tail(s)
<1>1. /\ n \in Nat \ {0} /\ DOMAIN s = 1 .. n /\ DOMAIN new = 1 .. n - 1
      /\ Head(s) = s[1] /\ \A i \in 1 .. n - 1 : new[i] = s[i + 1]
  OBVIOUS
<1>2. /\ \A i \in 1 .. n - 1 : i + 1 \in 1 .. n /\ i + 1 # 1
      /\ \A i \in 1 .. n : i = 1 \/ (i - 1 \in 1 .. n - 1 /\ (i - 1) + 1 = i)
      /\ 1 \in 1 .. n
      /\ \A i, j \in 1 .. n - 1 : i + 1 = j + 1 => i = j
  BY <1>1
<1> HIDE DEF n, new
<1>3. NoneIn(f, s) => NoneIn(f, new) /\ ~Mine(f, Head(s))
  BY <1>1, <1>2 DEF NoneIn
<1>4. ASSUME ~Mine(f, Head(s)), OneIn(f, s) PROVE OneIn(f, new)
  <2>1. PICK i \in DOMAIN s : Mine(f, s[i]) /\ \A j \in DOMAIN s : Mine(f, s[j]) => j = i
    BY <1>4 DEF OneIn
  <2>2. i - 1 \in 1 .. n - 1 /\ (i - 1) + 1 = i
    BY <1>1, <1>2, <1>4, <2>1
  <2>3. Mine(f, new[i - 1])
    BY <1>1, <2>1, <2>2
  <2>4. ASSUME NEW j \in 1 .. n - 1, Mine(f, new[j]) PROVE j = i - 1
    <3>1. j + 1 \in DOMAIN s /\ Mine(f, s[j + 1])
      BY <1>1, <1>2, <2>4
    <3>2. j + 1 = i
      BY <2>1, <3>1
    <3>. QED BY <1>1, <3>2
  <2>. QED BY <1>1, <2>2, <2>3, <2>4 DEF OneIn
<1>5. ASSUME Mine(f, Head(s)), OneIn(f, s) PROVE NoneIn(f, new)
  <2>1. \A j \in DOMAIN s : Mine(f, s[j]) => j = 1
    BY <1>1, <1>2, <1>5 DEF OneIn
  <2>. QED BY <1>1, <1>2, <2>1 DEF NoneIn
<1>. QED BY <1>3, <1>4, <1>5 DEF new

-----------------------------------------------------------------------------
(* The places of events.                                                    *)

(* The list at each place, before and after a step.                         *)
LEMMA PlaceLists ==
    /\ \A g \in Server :
          /\ <<"ev", g>> \in Place /\ <<"hold", g>> \in Place
          /\ ListAt(<<"ev", g>>) = ev[g] /\ ListAt(<<"ev", g>>)' = ev'[g]
          /\ ListAt(<<"hold", g>>) = (IF hold[g] = None THEN <<>> ELSE <<hold[g]>>)
          /\ ListAt(<<"hold", g>>)' = (IF hold'[g] = None THEN <<>> ELSE <<hold'[g]>>)
    /\ \A t \in Task :
          /\ <<"mail", t>> \in Place /\ <<"done", t>> \in Place /\ <<"dl", t>> \in Place
          /\ ListAt(<<"mail", t>>) = (IF phase[t] = "over" THEN <<>> ELSE mail[t])
          /\ ListAt(<<"mail", t>>)' = (IF phase'[t] = "over" THEN <<>> ELSE mail'[t])
          /\ ListAt(<<"done", t>>) = (IF phase[t] = "over" THEN <<>> ELSE done[t])
          /\ ListAt(<<"done", t>>)' = (IF phase'[t] = "over" THEN <<>> ELSE done'[t])
          /\ ListAt(<<"dl", t>>) = (IF phase[t] = "over" THEN <<>> ELSE dl[t])
          /\ ListAt(<<"dl", t>>)' = (IF phase'[t] = "over" THEN <<>> ELSE dl'[t])
    /\ \A p \in Place : \/ \E g \in Server : p = <<"ev", g>> \/ p = <<"hold", g>>
                        \/ \E t \in Task : p \in {<<"mail", t>>, <<"done", t>>, <<"dl", t>>}
<1>1. \A g \in Server :
          /\ <<"ev", g>> \in Place /\ <<"hold", g>> \in Place
          /\ ListAt(<<"ev", g>>) = ev[g] /\ ListAt(<<"ev", g>>)' = ev'[g]
          /\ ListAt(<<"hold", g>>) = (IF hold[g] = None THEN <<>> ELSE <<hold[g]>>)
          /\ ListAt(<<"hold", g>>)' = (IF hold'[g] = None THEN <<>> ELSE <<hold'[g]>>)
  BY DEF ListAt, Place
<1>2. \A t \in Task :
          /\ <<"mail", t>> \in Place /\ <<"done", t>> \in Place /\ <<"dl", t>> \in Place
          /\ ListAt(<<"mail", t>>) = (IF phase[t] = "over" THEN <<>> ELSE mail[t])
          /\ ListAt(<<"mail", t>>)' = (IF phase'[t] = "over" THEN <<>> ELSE mail'[t])
          /\ ListAt(<<"done", t>>) = (IF phase[t] = "over" THEN <<>> ELSE done[t])
          /\ ListAt(<<"done", t>>)' = (IF phase'[t] = "over" THEN <<>> ELSE done'[t])
          /\ ListAt(<<"dl", t>>) = (IF phase[t] = "over" THEN <<>> ELSE dl[t])
          /\ ListAt(<<"dl", t>>)' = (IF phase'[t] = "over" THEN <<>> ELSE dl'[t])
  BY DEF ListAt, Place, Left
<1>3. \A p \in Place : \/ \E g \in Server : p = <<"ev", g>> \/ p = <<"hold", g>>
                       \/ \E t \in Task : p \in {<<"mail", t>>, <<"done", t>>, <<"dl", t>>}
  BY DEF Place
<1>. QED BY <1>1, <1>2, <1>3

(* The lists are lists of events.                                           *)
LEMMA ListsTyped ==
    ASSUME TypeOK, NEW p \in Place
    PROVE  ListAt(p) \in Seq(Event)
<1>1. /\ ev \in [Fiber -> Seq(Event)] /\ hold \in [Server -> Event \cup {None}]
      /\ mail \in [Task -> Seq(Event)] /\ done \in [Task -> Seq(Event)]
      /\ dl \in [Task -> Seq(Event)]
  BY DEF TypeOK
<1>2. <<>> \in Seq(Event) /\ \A e \in Event : <<e>> \in Seq(Event)
  OBVIOUS
<1>3. ASSUME NEW g \in Server, p = <<"ev", g>> PROVE ListAt(p) \in Seq(Event)
  <2>1. g \in Fiber /\ ListAt(p) = ev[g]
    BY <1>3, PlaceLists, TaskFacts
  <2>. QED BY <1>1, <2>1
<1>4. ASSUME NEW g \in Server, p = <<"hold", g>> PROVE ListAt(p) \in Seq(Event)
  <2>1. ListAt(p) = IF hold[g] = None THEN <<>> ELSE <<hold[g]>>
    BY <1>4, PlaceLists
  <2>2. hold[g] \in Event \cup {None}
    BY <1>1
  <2>. QED BY <1>2, <2>1, <2>2
<1>5. ASSUME NEW t \in Task, p \in {<<"mail", t>>, <<"done", t>>, <<"dl", t>>}
      PROVE  ListAt(p) \in Seq(Event)
  <2>1. /\ ListAt(<<"mail", t>>) = (IF phase[t] = "over" THEN <<>> ELSE mail[t])
        /\ ListAt(<<"done", t>>) = (IF phase[t] = "over" THEN <<>> ELSE done[t])
        /\ ListAt(<<"dl", t>>) = (IF phase[t] = "over" THEN <<>> ELSE dl[t])
    BY PlaceLists
  <2>2. mail[t] \in Seq(Event) /\ done[t] \in Seq(Event) /\ dl[t] \in Seq(Event)
    BY <1>1
  <2>. QED BY <1>2, <1>5, <2>1, <2>2
<1>. QED BY <1>3, <1>4, <1>5, PlaceLists

(* The places a step leaves alone: all but those in Ch.                     *)
LEMMA OtherPlaces ==
    ASSUME NEW Ch, \A t \in Task : phase'[t] = "over" <=> phase[t] = "over",
           \A g \in Server : /\ <<"ev", g>> \in Ch \/ ev'[g] = ev[g]
                             /\ <<"hold", g>> \in Ch \/ hold'[g] = hold[g],
           \A t \in Task : /\ <<"mail", t>> \in Ch \/ mail'[t] = mail[t]
                           /\ <<"done", t>> \in Ch \/ done'[t] = done[t]
                           /\ <<"dl", t>> \in Ch \/ dl'[t] = dl[t]
    PROVE  \A p \in Place \ Ch : ListAt(p)' = ListAt(p)
<1>1. ASSUME NEW p \in Place, p \notin Ch PROVE ListAt(p)' = ListAt(p)
  <2>1. ASSUME NEW g \in Server, p = <<"ev", g>> \/ p = <<"hold", g>>
        PROVE  ListAt(p)' = ListAt(p)
    <3>1. /\ ListAt(<<"ev", g>>) = ev[g] /\ ListAt(<<"ev", g>>)' = ev'[g]
          /\ ListAt(<<"hold", g>>) = (IF hold[g] = None THEN <<>> ELSE <<hold[g]>>)
          /\ ListAt(<<"hold", g>>)' = (IF hold'[g] = None THEN <<>> ELSE <<hold'[g]>>)
      BY PlaceLists
    <3>2. CASE p = <<"ev", g>>
      BY <1>1, <3>1, <3>2
    <3>3. CASE p = <<"hold", g>>
      <4>1. hold'[g] = hold[g]
        BY <1>1, <3>3
      <4>. QED BY <3>1, <3>3, <4>1
    <3>. QED BY <2>1, <3>2, <3>3
  <2>2. ASSUME NEW t \in Task, p \in {<<"mail", t>>, <<"done", t>>, <<"dl", t>>}
        PROVE  ListAt(p)' = ListAt(p)
    <3>1. phase'[t] = "over" <=> phase[t] = "over"
      OBVIOUS
    <3>2. CASE p = <<"mail", t>>
      <4>1. mail'[t] = mail[t]
        BY <1>1, <3>2
      <4>2. /\ ListAt(p) = (IF phase[t] = "over" THEN <<>> ELSE mail[t])
            /\ ListAt(p)' = (IF phase'[t] = "over" THEN <<>> ELSE mail'[t])
        BY <3>2, PlaceLists
      <4>. QED BY <3>1, <4>1, <4>2
    <3>3. CASE p = <<"done", t>>
      <4>1. done'[t] = done[t]
        BY <1>1, <3>3
      <4>2. /\ ListAt(p) = (IF phase[t] = "over" THEN <<>> ELSE done[t])
            /\ ListAt(p)' = (IF phase'[t] = "over" THEN <<>> ELSE done'[t])
        BY <3>3, PlaceLists
      <4>. QED BY <3>1, <4>1, <4>2
    <3>4. CASE p = <<"dl", t>>
      <4>1. dl'[t] = dl[t]
        BY <1>1, <3>4
      <4>2. /\ ListAt(p) = (IF phase[t] = "over" THEN <<>> ELSE dl[t])
            /\ ListAt(p)' = (IF phase'[t] = "over" THEN <<>> ELSE dl'[t])
        BY <3>4, PlaceLists
      <4>. QED BY <3>1, <4>1, <4>2
    <3>. QED BY <2>2, <3>2, <3>3, <3>4
  <2>. QED BY <2>1, <2>2, PlaceLists
<1>. QED BY <1>1

-----------------------------------------------------------------------------
(* The event of a waiting fiber stays in one place.                         *)

(* Nothing changes for any waiting fiber.                                   *)
LEMMA KeepTracked ==
    ASSUME CallTracked,
           \A f \in Client :
               /\ pc'[f] = "wait" <=> pc[f] = "wait"
               /\ \A p \in Place : /\ NoneIn(f, ListAt(p)) => NoneIn(f, ListAt(p)')
                                   /\ OneIn(f, ListAt(p)) => OneIn(f, ListAt(p)')
    PROVE  CallTracked'
<1>1. ASSUME NEW f \in Client, pc'[f] = "wait"
      PROVE  \E p \in Place : /\ OneIn(f, ListAt(p)')
                              /\ \A q \in Place \ {p} : NoneIn(f, ListAt(q)')
  <2>1. PICK p \in Place : OneIn(f, ListAt(p)) /\ \A q \in Place \ {p} : NoneIn(f, ListAt(q))
    BY <1>1 DEF CallTracked
  <2>. QED BY <2>1
<1>2. ASSUME NEW f \in Client, pc'[f] # "wait"
      PROVE  \A p \in Place : NoneIn(f, ListAt(p)')
  BY <1>2 DEF CallTracked
<1>. QED BY <1>1, <1>2 DEF CallTracked

(* An event is added to a list; its sender, if it waits, begins to.         *)
LEMMA AddTracked ==
    ASSUME TypeOK, CallTracked, NEW q \in Place, NEW e \in Event,
           ListAt(q)' = Append(ListAt(q), e),
           \A p \in Place \ {q} : ListAt(p)' = ListAt(p),
           \A f \in Client : IF Mine(f, e) THEN pc[f] # "wait" /\ pc'[f] = "wait"
                             ELSE pc'[f] = "wait" <=> pc[f] = "wait"
    PROVE  CallTracked'
<1>1. ListAt(q) \in Seq(Event)
  BY ListsTyped
<1>2. ASSUME NEW f \in Client, Mine(f, e)
      PROVE  /\ pc'[f] = "wait" /\ OneIn(f, ListAt(q)')
             /\ \A p \in Place \ {q} : NoneIn(f, ListAt(p)')
  <2>1. pc[f] # "wait" /\ pc'[f] = "wait"
    BY <1>2
  <2>2. \A p \in Place : NoneIn(f, ListAt(p))
    BY <2>1 DEF CallTracked
  <2>. QED BY <1>1, <1>2, <2>1, <2>2, AppendMine
<1>3. ASSUME NEW f \in Client, ~Mine(f, e)
      PROVE  /\ pc'[f] = "wait" <=> pc[f] = "wait"
             /\ \A p \in Place : /\ NoneIn(f, ListAt(p)) => NoneIn(f, ListAt(p)')
                                 /\ OneIn(f, ListAt(p)) => OneIn(f, ListAt(p)')
  BY <1>1, <1>3, AppendMine
<1>. QED BY <1>2, <1>3 DEF CallTracked

(* The first event of a list is gone; its sender, if it waited, goes on.    *)
LEMMA DropTracked ==
    ASSUME TypeOK, CallTracked, NEW p \in Place, NEW e, ListAt(p) # <<>>,
           e = Head(ListAt(p)), ListAt(p)' = Tail(ListAt(p)),
           \A q \in Place \ {p} : ListAt(q)' = ListAt(q),
           \A f \in Client : IF Mine(f, e) THEN pc'[f] # "wait"
                             ELSE pc'[f] = "wait" <=> pc[f] = "wait"
    PROVE  CallTracked'
<1>1. ListAt(p) \in Seq(Event)
  BY ListsTyped
<1>2. ASSUME NEW f \in Client, Mine(f, e)
      PROVE  pc'[f] # "wait" /\ \A q \in Place : NoneIn(f, ListAt(q)')
  <2>1. ~NoneIn(f, ListAt(p))
    BY <1>1, <1>2, TailMine
  <2>2. OneIn(f, ListAt(p)) /\ \A q \in Place \ {p} : NoneIn(f, ListAt(q))
    BY <2>1 DEF CallTracked
  <2>3. NoneIn(f, Tail(ListAt(p)))
    BY <1>1, <1>2, <2>2, TailMine
  <2>. QED BY <1>2, <2>2, <2>3
<1>3. ASSUME NEW f \in Client, ~Mine(f, e)
      PROVE  /\ pc'[f] = "wait" <=> pc[f] = "wait"
             /\ \A q \in Place : /\ NoneIn(f, ListAt(q)) => NoneIn(f, ListAt(q)')
                                 /\ OneIn(f, ListAt(q)) => OneIn(f, ListAt(q)')
  BY <1>1, <1>3, TailMine
<1>. QED BY <1>2, <1>3 DEF CallTracked

(* The first event of one list goes to the end of another.                  *)
LEMMA MoveTracked ==
    ASSUME TypeOK, CallTracked, NEW p \in Place, NEW q \in Place, p # q, NEW e,
           ListAt(p) # <<>>, e = Head(ListAt(p)), ListAt(p)' = Tail(ListAt(p)),
           ListAt(q)' = Append(ListAt(q), e),
           \A x \in Place \ {p, q} : ListAt(x)' = ListAt(x),
           \A f \in Client : pc'[f] = "wait" <=> pc[f] = "wait"
    PROVE  CallTracked'
<1>1. ListAt(p) \in Seq(Event) /\ ListAt(q) \in Seq(Event)
  BY ListsTyped
<1>2. e \in Event
  BY <1>1
<1>3. ASSUME NEW f \in Client, Mine(f, e)
      PROVE  /\ pc'[f] = "wait" /\ OneIn(f, ListAt(q)')
             /\ \A x \in Place \ {q} : NoneIn(f, ListAt(x)')
  <2>1. ~NoneIn(f, ListAt(p))
    BY <1>1, <1>3, TailMine
  <2>2. /\ pc[f] = "wait" /\ OneIn(f, ListAt(p))
        /\ \A x \in Place \ {p} : NoneIn(f, ListAt(x))
    BY <2>1 DEF CallTracked
  <2>3. NoneIn(f, Tail(ListAt(p)))
    BY <1>1, <1>3, <2>2, TailMine
  <2>4. OneIn(f, Append(ListAt(q), e))
    BY <1>1, <1>2, <1>3, <2>2, AppendMine
  <2>. QED BY <2>2, <2>3, <2>4
<1>4. ASSUME NEW f \in Client, ~Mine(f, e)
      PROVE  /\ pc'[f] = "wait" <=> pc[f] = "wait"
             /\ \A x \in Place : /\ NoneIn(f, ListAt(x)) => NoneIn(f, ListAt(x)')
                                 /\ OneIn(f, ListAt(x)) => OneIn(f, ListAt(x)')
  BY <1>1, <1>2, <1>4, AppendMine, TailMine
<1>. QED BY <1>3, <1>4 DEF CallTracked

(* A whole list goes to an empty one.                                       *)
LEMMA ShiftTracked ==
    ASSUME TypeOK, CallTracked, NEW p \in Place, NEW q \in Place, p # q,
           ListAt(q) = <<>>, ListAt(q)' = ListAt(p), ListAt(p)' = <<>>,
           \A x \in Place \ {p, q} : ListAt(x)' = ListAt(x),
           \A f \in Client : pc'[f] = "wait" <=> pc[f] = "wait"
    PROVE  CallTracked'
<1>1. \A f \in Client : NoneIn(f, <<>>) /\ ~OneIn(f, <<>>)
  BY DEF NoneIn, OneIn
<1>2. ASSUME NEW f \in Client, pc[f] = "wait"
      PROVE  \E x \in Place : /\ OneIn(f, ListAt(x)')
                              /\ \A y \in Place \ {x} : NoneIn(f, ListAt(y)')
  <2>1. PICK x \in Place : OneIn(f, ListAt(x)) /\ \A y \in Place \ {x} : NoneIn(f, ListAt(y))
    BY <1>2 DEF CallTracked
  <2>2. CASE x = p
    BY <1>1, <2>1, <2>2
  <2>3. CASE x # p
    BY <1>1, <2>1, <2>3
  <2>. QED BY <2>2, <2>3
<1>3. ASSUME NEW f \in Client, pc[f] # "wait"
      PROVE  \A x \in Place : NoneIn(f, ListAt(x)')
  BY <1>1, <1>3 DEF CallTracked
<1>. QED BY <1>2, <1>3 DEF CallTracked

-----------------------------------------------------------------------------
(* Switching fibers.                                                        *)

\* Fiber f can go on; step variants of it.
Ready(f) == pc[f] \in {"go", "again"}

SameReady(f) == pc'[f] \in {"go", "again"} <=> pc[f] \in {"go", "again"}

(* The active list of one thread is replaced.                               *)
LEMMA ThreadKeeps ==
    ASSUME TypeOK, OwnThread, NEW t \in Task, NEW act \in Seq(Fiber), NEW r \in Fiber \cup {Main},
           active' = [active EXCEPT ![t] = act], run' = [run EXCEPT ![t] = r],
           Distinct(act), Nodes(act) = {f \in Nodes(Tfl[t]) : pc'[f] \in {"go", "again"}},
           r # Main => act # <<>> /\ r = Head(act),
           \A f \in Fiber : TaskOf[f] # t => SameReady(f)
    PROVE  /\ OwnThread'
           /\ active' \in [Task -> Seq(Fiber)] /\ run' \in [Task -> Fiber \cup {Main}]
<1>1. active \in [Task -> Seq(Fiber)] /\ run \in [Task -> Fiber \cup {Main}]
  BY DEF TypeOK
<1>2. active' \in [Task -> Seq(Fiber)] /\ run' \in [Task -> Fiber \cup {Main}]
  BY <1>1
<1>3. ASSUME NEW u \in Task
      PROVE  /\ Distinct(active'[u])
             /\ Nodes(active'[u]) = {f \in Nodes(Tfl[u]) : pc'[f] \in {"go", "again"}}
             /\ run'[u] # Main => active'[u] # <<>> /\ run'[u] = Head(active'[u])
  <2>1. CASE u = t
    <3>1. active'[u] = act /\ run'[u] = r
      BY <1>1, <2>1
    <3>. QED BY <2>1, <3>1
  <2>2. CASE u # t
    <3>1. active'[u] = active[u] /\ run'[u] = run[u]
      BY <1>1, <2>2
    <3>2. \A f \in Nodes(Tfl[u]) : SameReady(f)
      BY <2>2, TaskFacts
    <3>3. {f \in Nodes(Tfl[u]) : pc'[f] \in {"go", "again"}}
          = {f \in Nodes(Tfl[u]) : pc[f] \in {"go", "again"}}
      BY <3>2 DEF SameReady
    <3>. QED BY <3>1, <3>3 DEF OwnThread
  <2>. QED BY <2>1, <2>2
<1>. QED BY <1>2, <1>3 DEF OwnThread

(* No switch, and no fiber becomes ready or stops to be.                    *)
LEMMA NoSwitch ==
    ASSUME OwnThread, active' = active, run' = run, \A f \in Fiber : SameReady(f)
    PROVE  OwnThread'
<1>1. ASSUME NEW t \in Task
      PROVE  {f \in Nodes(Tfl[t]) : pc'[f] \in {"go", "again"}}
             = {f \in Nodes(Tfl[t]) : pc[f] \in {"go", "again"}}
  BY TaskFacts DEF SameReady
<1>. QED BY <1>1 DEF OwnThread

(* The executing fiber is at the head of its active list.                   *)
LEMMA Executing ==
    ASSUME TypeOK, OwnThread, NEW t \in Task, run[t] # Main
    PROVE  /\ run[t] \in Nodes(Tfl[t]) /\ run[t] \in Fiber /\ TaskOf[run[t]] = t /\ Ready(run[t])
           /\ active[t] \in Seq(Fiber) /\ active[t] # <<>> /\ run[t] = Head(active[t])
           /\ run[t] \in Nodes(active[t])
<1>1. active[t] \in Seq(Fiber) /\ active[t] # <<>> /\ run[t] = Head(active[t])
  BY DEF TypeOK, OwnThread
<1>2. run[t] \in Nodes(active[t])
  BY <1>1, HeadIsNode
<1>3. run[t] \in Nodes(Tfl[t]) /\ Ready(run[t])
  BY <1>2 DEF OwnThread, Ready
<1>. QED BY <1>1, <1>2, <1>3, TaskFacts

(* tt_fiber_suspend() of a fiber that stops being ready.                    *)
LEMMA SuspendKeeps ==
    ASSUME TypeOK, OwnThread, NEW t \in Task, run[t] # Main, Suspend(t),
           pc'[run[t]] \notin {"go", "again"},
           \A f \in Fiber \ {run[t]} : SameReady(f)
    PROVE  /\ OwnThread'
           /\ active' \in [Task -> Seq(Fiber)] /\ run' \in [Task -> Fiber \cup {Main}]
<1>1. PICK act, r : /\ act = tt_list_remove(active[t], run[t]) /\ r = SchedNext(act)
                    /\ active' = [active EXCEPT ![t] = act] /\ run' = [run EXCEPT ![t] = r]
  BY DEF Suspend
<1>2. PICK me : me = run[t]
  OBVIOUS
<1>3. me \in Nodes(Tfl[t]) /\ me \in Fiber /\ TaskOf[me] = t /\ Ready(me)
  BY <1>2, Executing
<1>4. active[t] \in Seq(Fiber) /\ Distinct(active[t])
      /\ Nodes(active[t]) = {f \in Nodes(Tfl[t]) : Ready(f)}
  BY DEF TypeOK, OwnThread, Ready
<1>5. act \in Seq(Fiber) /\ Distinct(act) /\ Nodes(act) = Nodes(active[t]) \ {me}
  BY <1>1, <1>2, <1>4, RemoveNode
<1>6. \A f \in Nodes(Tfl[t]) : f \in Fiber
  BY TaskFacts
<1>7. Nodes(act) = {f \in Nodes(Tfl[t]) : pc'[f] \in {"go", "again"}}
  BY <1>2, <1>3, <1>4, <1>5, <1>6 DEF SameReady, Ready
<1>8. r \in Fiber \cup {Main} /\ (r # Main => act # <<>> /\ r = Head(act))
  BY <1>1, <1>5 DEF SchedNext
<1>9. \A f \in Fiber : TaskOf[f] # t => SameReady(f)
  BY <1>2, <1>3
<1>. QED BY <1>1, <1>5, <1>7, <1>8, <1>9, ThreadKeeps

(* tt_fiber_resume(): the resumed fiber is ready, and the executing one still *)
(* is, unless it is suspended.                                              *)
LEMMA ResumeKeeps ==
    ASSUME TypeOK, OwnThread, NEW t \in Task, NEW fb \in Nodes(Tfl[t]), NEW susp \in BOOLEAN,
           Resume(t, fb, susp), fb # run[t], pc'[fb] \in {"go", "again"},
           run[t] # Main => (pc'[run[t]] \in {"go", "again"} <=> ~susp),
           \A f \in Fiber \ {fb, run[t]} : SameReady(f)
    PROVE  /\ OwnThread'
           /\ active' \in [Task -> Seq(Fiber)] /\ run' \in [Task -> Fiber \cup {Main}]
<1>1. PICK me : me = run[t]
  OBVIOUS
<1>2. PICK act : act = IF me = Main THEN active[t]
                       ELSE IF susp THEN tt_list_remove(active[t], me)
                       ELSE tt_list_push_tail(tt_list_remove(active[t], me), me)
  OBVIOUS
<1>3. PICK new : /\ new = tt_list_push_head(tt_list_remove(act, fb), fb)
                 /\ active' = [active EXCEPT ![t] = new] /\ run' = [run EXCEPT ![t] = fb]
  BY <1>1, <1>2 DEF Resume
<1>4. active[t] \in Seq(Fiber) /\ Distinct(active[t])
      /\ Nodes(active[t]) = {f \in Nodes(Tfl[t]) : Ready(f)}
  BY DEF TypeOK, OwnThread, Ready
<1>5. fb \in Fiber /\ TaskOf[fb] = t /\ fb # Main /\ \A f \in Nodes(Tfl[t]) : f \in Fiber
  BY TaskFacts
<1>6. me # Main => me \in Nodes(Tfl[t]) /\ me \in Fiber /\ TaskOf[me] = t /\ Ready(me)
  BY <1>1, Executing
<1>7. /\ act \in Seq(Fiber) /\ Distinct(act)
      /\ Nodes(act) = IF me # Main /\ susp THEN Nodes(active[t]) \ {me} ELSE Nodes(active[t])
  <2>1. CASE me = Main
    BY <1>2, <1>4, <2>1
  <2>2. CASE me # Main
    <3>1. PICK rest : rest = tt_list_remove(active[t], me)
      OBVIOUS
    <3>2. rest \in Seq(Fiber) /\ Distinct(rest) /\ Nodes(rest) = Nodes(active[t]) \ {me}
      BY <1>4, <3>1, RemoveNode
    <3>3. CASE susp
      BY <1>2, <2>2, <3>1, <3>2, <3>3
    <3>4. CASE ~susp
      <4>1. act = tt_list_push_tail(rest, me)
        BY <1>2, <2>2, <3>1, <3>4
      <4>2. me \in Fiber /\ me \notin Nodes(rest) /\ me \in Nodes(active[t])
        BY <1>4, <1>6, <2>2, <3>2
      <4>3. act \in Seq(Fiber) /\ Distinct(act) /\ Nodes(act) = Nodes(rest) \cup {me}
        <5>1. me \in Fiber /\ me \notin Nodes(rest) /\ rest \in Seq(Fiber) /\ Distinct(rest)
          BY <3>2, <4>2
        <5>2. /\ tt_list_push_tail(rest, me) \in Seq(Fiber)
              /\ Nodes(tt_list_push_tail(rest, me)) = Nodes(rest) \cup {me}
              /\ Distinct(tt_list_push_tail(rest, me))
          BY <5>1, PushTail
        <5>. QED BY <4>1, <5>2
      <4>. QED BY <3>2, <3>4, <4>2, <4>3
    <3>. QED BY <3>3, <3>4
  <2>. QED BY <2>1, <2>2
<1>8. new \in Seq(Fiber) /\ Distinct(new) /\ Nodes(new) = Nodes(act) \cup {fb}
      /\ new # <<>> /\ fb = Head(new)
  <2>1. PICK rest : rest = tt_list_remove(act, fb)
    OBVIOUS
  <2>2. rest \in Seq(Fiber) /\ Distinct(rest) /\ Nodes(rest) = Nodes(act) \ {fb}
    BY <1>7, <2>1, RemoveNode
  <2>3. /\ tt_list_push_head(rest, fb) \in Seq(Fiber)
        /\ Nodes(tt_list_push_head(rest, fb)) = Nodes(rest) \cup {fb}
        /\ Distinct(tt_list_push_head(rest, fb))
        /\ tt_list_push_head(rest, fb) # <<>> /\ Head(tt_list_push_head(rest, fb)) = fb
    <3>1. fb \in Fiber /\ fb \notin Nodes(rest) /\ rest \in Seq(Fiber) /\ Distinct(rest)
      BY <1>5, <2>2
    <3>. QED BY <3>1, PushHead
  <2>. QED BY <1>3, <2>1, <2>2, <2>3
<1>9. Nodes(new) = {f \in Nodes(Tfl[t]) : pc'[f] \in {"go", "again"}}
  <2>1. ASSUME NEW f \in Nodes(Tfl[t]) PROVE f \in Nodes(new) <=> pc'[f] \in {"go", "again"}
    <3>1. CASE f = fb
      BY <1>8, <3>1
    <3>2. CASE f # fb /\ f = me
      BY <1>1, <1>4, <1>5, <1>6, <1>7, <1>8, <3>2, TaskFacts
    <3>3. CASE f # fb /\ f # me
      <4>1. SameReady(f)
        BY <1>1, <1>5, <3>3
      <4>. QED BY <1>4, <1>7, <1>8, <3>3, <4>1 DEF SameReady, Ready
    <3>. QED BY <3>1, <3>2, <3>3
  <2>2. Nodes(new) \subseteq Nodes(Tfl[t])
    BY <1>4, <1>7, <1>8
  <2>. QED BY <2>1, <2>2
<1>10. \A f \in Fiber : TaskOf[f] # t => SameReady(f)
  <2>1. ASSUME NEW f \in Fiber, TaskOf[f] # t PROVE f # fb /\ f # me
    BY <1>5, <1>6, <2>1, TaskFacts
  <2>. QED BY <1>1, <2>1
<1>. QED BY <1>3, <1>5, <1>8, <1>9, <1>10, ThreadKeeps

-----------------------------------------------------------------------------
(* What a step may do to keep each part of the invariant.                   *)

\* The inductive invariant, but for the order of posts, which needs all of it.
Core == EventInv /\ StartInv

\* No fiber starts or ends, except that a client may end.
PcStep ==
    \A f \in Fiber : /\ pc'[f] = "new" <=> pc[f] = "new"
                     /\ pc[f] = "ended" => pc'[f] = "ended"
                     /\ f \in Server /\ pc'[f] = "ended" => pc[f] = "ended"

\* The same without regard to who starts or ends: nobody is new again.
NewStep == \A f \in Fiber : pc'[f] = "new" => pc[f] = "new"

LEMMA PcStepNew == PcStep => NewStep
  BY DEF PcStep, NewStep

\* The answers on their way to task t.
Back(t) == Nodes(done[t]) \cup (IF phase[t] = "done" THEN Nodes(dl[t]) ELSE {})

LEMMA StartKeeps ==
    ASSUME FirstRoundFresh, ServersStay, PcStep, turn' = turn,
           \A t \in Task : /\ phase'[t] \in {"created", "start"} <=> phase[t] \in {"created", "start"}
                           /\ phase'[t] = "over" <=> phase[t] = "over"
                           /\ told[t] = "asked" => told'[t] = "asked"
    PROVE  FirstRoundFresh' /\ ServersStay'
<1>1. ASSUME NEW t \in Task
      PROVE  IF phase'[t] \in {"created", "start"}
             THEN \A i \in DOMAIN Tfl[t] : pc'[Tfl[t][i]] = "new" <=> i >= turn'[t]
             ELSE \A f \in Nodes(Tfl[t]) : pc'[f] # "new"
  <2>1. \A f \in Nodes(Tfl[t]) : pc'[f] = "new" <=> pc[f] = "new"
    BY TaskFacts DEF PcStep
  <2>2. \A i \in DOMAIN Tfl[t] : Tfl[t][i] \in Nodes(Tfl[t])
    BY TflFacts
  <2>. QED BY <2>1, <2>2 DEF FirstRoundFresh
<1>2. ServersStay'
  BY TaskFacts DEF ServersStay, PcStep
<1>. QED BY <1>1, <1>2 DEF FirstRoundFresh

LEMMA FoundKeeps ==
    ASSUME TypeOK', FoundIsStarted, NewStep,
           \A t \in Task : \A e \in Back(t)' : e.kind = "find" => e \in Back(t)
    PROVE  FoundIsStarted'
<1>1. ASSUME NEW t \in Task, NEW e \in Back(t)', e.kind = "find"
      PROVE  pc'[e.dst] # "new"
  <2>1. e \in Event
    <3>1. done'[t] \in Seq(Event) /\ dl'[t] \in Seq(Event)
      BY DEF TypeOK
    <3>2. \A s \in Seq(Event) : Nodes(s) \subseteq Event
      BY DEF Nodes
    <3>. QED BY <1>1, <3>1, <3>2 DEF Back
  <2>2. e.dst \in Fiber
    BY <1>1, <2>1, EventFacts
  <2>3. pc[e.dst] # "new"
    BY <1>1 DEF FoundIsStarted, Back
  <2>. QED BY <2>2, <2>3 DEF NewStep
<1>. QED BY <1>1 DEF FoundIsStarted, Back

\* What a step may add to the lists.
ToldStep == \A t \in Task : told[t] = "asked" => told'[t] = "asked"

MailStep ==
    \A t \in Task : \A e \in Nodes(mail'[t]) :
        \/ e \in Nodes(mail[t])
        \/ IF e.kind = "exit" THEN told'[t] = "asked" ELSE TaskOf[e.dst] = t /\ TaskOf[e.src] # t

DoneStep ==
    \A t \in Task : \A e \in Nodes(done'[t]) : e \in Nodes(done[t]) \/ Finished(t, e)

DlStep ==
    \A t \in Task :
        \/ phase'[t] = phase[t] /\ dl'[t] = dl[t]
        \/ /\ phase'[t] = phase[t] /\ phase[t] \in {"mail", "done"}
           /\ Nodes(dl'[t]) \subseteq Nodes(dl[t])
        \/ phase'[t] \notin {"mail", "done"} /\ dl'[t] = <<>>
        \/ phase'[t] = "mail" /\ dl'[t] = mail[t]
        \/ phase'[t] = "done" /\ dl'[t] = done[t]

EvStep ==
    \A f \in Fiber : \A e \in Nodes(ev'[f]) :
        e \in Nodes(ev[f]) \/ (f \in Server /\ e.kind \in {"call", "post"} /\ e.dst = f)

HoldStep ==
    \A f \in Server : hold'[f] \in {None, hold[f]} \/ hold'[f] \in Nodes(ev[f])

LEMMA AddressedKeeps ==
    ASSUME Addressed, ToldStep, MailStep, DoneStep, DlStep, EvStep, HoldStep
    PROVE  Addressed'
<1>1. ASSUME NEW t \in Task
      PROVE  /\ \A e \in Nodes(mail'[t]) :
                  IF e.kind = "exit" THEN told'[t] = "asked" ELSE TaskOf[e.dst] = t /\ TaskOf[e.src] # t
             /\ \A e \in Nodes(done'[t]) : Finished(t, e)
  <2>1. /\ \A e \in Nodes(mail[t]) : ForTask(t, e)
        /\ \A e \in Nodes(done[t]) : Finished(t, e)
    BY DEF Addressed
  <2>. QED BY <2>1 DEF ForTask, ToldStep, MailStep, DoneStep
<1>2. ASSUME NEW t \in Task
      PROVE  /\ phase'[t] = "mail" => \A e \in Nodes(dl'[t]) :
                  IF e.kind = "exit" THEN told'[t] = "asked" ELSE TaskOf[e.dst] = t /\ TaskOf[e.src] # t
             /\ phase'[t] = "done" => \A e \in Nodes(dl'[t]) : Finished(t, e)
             /\ phase'[t] \notin {"mail", "done"} => dl'[t] = <<>>
  <2>1. /\ \A e \in Nodes(mail[t]) : ForTask(t, e)
        /\ \A e \in Nodes(done[t]) : Finished(t, e)
        /\ phase[t] = "mail" => \A e \in Nodes(dl[t]) : ForTask(t, e)
        /\ phase[t] = "done" => \A e \in Nodes(dl[t]) : Finished(t, e)
        /\ phase[t] \notin {"mail", "done"} => dl[t] = <<>>
    BY DEF Addressed
  <2>2. Nodes(<<>>) = {}
    BY DEF Nodes
  <2>. QED BY <2>1, <2>2 DEF ForTask, ToldStep, DlStep
<1>3. \A f \in Fiber : \A e \in Nodes(ev'[f]) :
          f \in Server /\ e.kind \in {"call", "post"} /\ e.dst = f
  BY DEF Addressed, EvStep
<1>4. \A f \in Server : hold'[f] # None => hold'[f].kind \in {"call", "post"} /\ hold'[f].dst = f
  <2>1. ASSUME NEW f \in Server, hold'[f] # None
        PROVE  hold'[f].kind \in {"call", "post"} /\ hold'[f].dst = f
    <3>1. CASE hold'[f] = hold[f]
      BY <2>1, <3>1 DEF Addressed
    <3>2. CASE hold'[f] \in Nodes(ev[f])
      BY <3>2, TaskFacts DEF Addressed
    <3>. QED BY <2>1, <3>1, <3>2 DEF HoldStep
  <2>. QED BY <2>1
<1>. QED BY <1>1, <1>2, <1>3, <1>4 DEF Addressed, ForTask, Finished

(* The events that are somewhere in a task.                                 *)
LEMMA EventsInDef ==
    ASSUME NEW t \in Task, NEW e
    PROVE  /\ e \in EventsIn(t) <=>
                \/ e \in Nodes(mail[t]) \/ e \in Nodes(dl[t]) \/ e \in Nodes(done[t])
                \/ \E g \in Server : /\ TaskOf[g] = t
                                     /\ e \in Nodes(ev[g]) \/ (e = hold[g] /\ e # None)
           /\ e \in EventsIn(t)' <=>
                \/ e \in Nodes(mail'[t]) \/ e \in Nodes(dl'[t]) \/ e \in Nodes(done'[t])
                \/ \E g \in Server : /\ TaskOf[g] = t
                                     /\ e \in Nodes(ev'[g]) \/ (e = hold'[g] /\ e # None)
<1>1. \A g \in Server : g \in Nodes(Tfl[t]) <=> TaskOf[g] = t
  BY TaskFacts
<1>. QED BY <1>1 DEF EventsIn

\* The event may be in task t: its sender does not wait across a border that was
\* closed.
Fits(t, e) == e.kind \in {"call", "find"} => t = TaskOf[e.src]
                                             \/ (told[TaskOf[e.src]] = "no" /\ told[t] = "no")

(* BorderQuiet, said of events.                                             *)
LEMMA BorderEvents ==
    ASSUME TypeOK
    PROVE  BorderQuiet <=> \A t \in Task : \A e \in EventsIn(t) : Fits(t, e)
<1>1. ASSUME NEW t \in Task, NEW e \in EventsIn(t) PROVE e \in Event
  <2>1. /\ mail[t] \in Seq(Event) /\ dl[t] \in Seq(Event) /\ done[t] \in Seq(Event)
        /\ \A g \in Server : ev[g] \in Seq(Event) /\ hold[g] \in Event \cup {None}
    BY TaskFacts DEF TypeOK
  <2>2. \A s \in Seq(Event) : Nodes(s) \subseteq Event
    BY DEF Nodes
  <2>. QED BY <2>1, <2>2, EventsInDef
<1>2. ASSUME BorderQuiet, NEW t \in Task, NEW e \in EventsIn(t) PROVE Fits(t, e)
  <2>1. e.kind \in {"call", "find"} => e.src \in Client
    BY <1>1, EventFacts
  <2>. QED BY <1>2, <2>1 DEF BorderQuiet, Fits, CallIn
<1>3. ASSUME \A t \in Task : \A e \in EventsIn(t) : Fits(t, e) PROVE BorderQuiet
  BY <1>3 DEF BorderQuiet, Fits, CallIn
<1>. QED BY <1>2, <1>3

LEMMA BorderKeeps ==
    ASSUME TypeOK, BorderQuiet,
           \A t \in Task : \A e \in EventsIn(t)' :
               e.kind \in {"call", "find"} =>
                   \/ /\ e \in EventsIn(t)
                      /\ told'[t] = told[t] /\ told'[TaskOf[e.src]] = told[TaskOf[e.src]]
                   \/ t = TaskOf[e.src]
                   \/ told'[TaskOf[e.src]] = "no" /\ told'[t] = "no"
    PROVE  BorderQuiet'
<1>1. ASSUME NEW f \in Client, NEW t \in Task, t # TaskOf[f], NEW e \in EventsIn(t)',
             e.kind \in {"call", "find"}, e.src = f
      PROVE  told'[TaskOf[f]] = "no" /\ told'[t] = "no"
  <2>1. CASE /\ e \in EventsIn(t)
             /\ told'[t] = told[t] /\ told'[TaskOf[e.src]] = told[TaskOf[e.src]]
    BY <1>1, <2>1, BorderEvents DEF Fits
  <2>. QED BY <1>1, <2>1
<1>. QED BY <1>1 DEF BorderQuiet, CallIn

(* A step that leaves all events where they are.                            *)
LEMMA EventsSame ==
    ASSUME Core, TypeOK', NewStep, UNCHANGED <<ev, hold, mail, done, dl, told>>,
           \A t \in Task : \/ phase'[t] = phase[t]
                           \/ /\ phase'[t] \notin {"mail", "done", "over"} /\ phase[t] # "over"
                              /\ dl[t] = <<>>,
           \A f \in Fiber : /\ pc'[f] = "wait" <=> pc[f] = "wait"
                            /\ pc'[f] = "recv" => pc[f] = "recv"
    PROVE  CallTracked' /\ NoSleepOnEvents' /\ Addressed' /\ BorderQuiet' /\ FoundIsStarted'
<1>1. TypeOK /\ CallTracked /\ NoSleepOnEvents /\ Addressed /\ BorderQuiet /\ FoundIsStarted
  BY DEF Core, EventInv, StartInv
<1>2. CallTracked'
  <2>1. \A p \in Place \ {} : ListAt(p)' = ListAt(p)
    BY OtherPlaces
  <2>. QED BY <1>1, <2>1, TaskFacts, KeepTracked
<1>3. NoSleepOnEvents'
  BY <1>1 DEF NoSleepOnEvents
<1>4. Addressed'
  <2>1. DlStep
    BY DEF DlStep
  <2>2. ToldStep /\ HoldStep
    BY DEF ToldStep, HoldStep
  <2>3. MailStep
    BY DEF MailStep
  <2>4. DoneStep
    BY DEF DoneStep
  <2>5. EvStep
    BY DEF EvStep
  <2>. QED BY <1>1, <2>1, <2>2, <2>3, <2>4, <2>5, AddressedKeeps
<1>5. BorderQuiet'
  <2>1. \A t \in Task : EventsIn(t)' = EventsIn(t)
    BY DEF EventsIn
  <2>. QED BY <1>1, <2>1, BorderKeeps
<1>6. FoundIsStarted'
  <2>1. \A t \in Task : \A e \in Back(t)' : e \in Back(t)
    BY DEF Back
  <2>. QED BY <1>1, <2>1, FoundKeeps
<1>. QED BY <1>2, <1>3, <1>4, <1>5, <1>6

-----------------------------------------------------------------------------
(* Steps that touch no event.                                               *)

(* tt_task_run() and its caller, who stores the pointer to the thread.       *)
LEMMA RunKeeps ==
    ASSUME Core, NEW t \in Task, tt_task_run(t) \/ StoreThread(t)
    PROVE  Core'
<1>1. TypeOK /\ OwnThread /\ Addressed /\ FirstRoundFresh /\ ServersStay
  BY DEF Core, EventInv, StartInv
<1>2. UNCHANGED <<turn, told, run, active, pc, ev, hold, mail, done, dl, ops, sent, got>>
  BY DEF tt_task_run, StoreThread, lists, counts
<1>3. \/ phase' = phase
      \/ phase[t] = "created" /\ phase' = [phase EXCEPT ![t] = "start"]
  BY DEF tt_task_run, StoreThread
<1>4. \/ stored' = stored \/ stored' = [stored EXCEPT ![t] = TRUE]
  BY DEF tt_task_run, StoreThread
<1>5. phase' \in [Task -> Phase] /\ stored' \in [Task -> BOOLEAN]
  BY <1>1, <1>3, <1>4 DEF TypeOK, Phase
<1>6. TypeOK'
  BY <1>1, <1>2, <1>5 DEF TypeOK
<1>7. \A u \in Task : \/ phase'[u] = phase[u]
                      \/ phase[u] = "created" /\ phase'[u] = "start" /\ dl[u] = <<>>
  BY <1>1, <1>3 DEF TypeOK, Addressed
<1>8. PcStep
  BY <1>2 DEF PcStep
<1>9. OwnThread'
  BY <1>1, <1>2, NoSwitch DEF SameReady
<1>10. FirstRoundFresh' /\ ServersStay'
  BY <1>1, <1>2, <1>7, <1>8, StartKeeps
<1>11. CallTracked' /\ NoSleepOnEvents' /\ Addressed' /\ BorderQuiet' /\ FoundIsStarted'
  BY <1>2, <1>6, <1>7, <1>8, PcStepNew, EventsSame
<1>. QED BY <1>6, <1>9, <1>10, <1>11 DEF Core, EventInv, StartInv

(* The main fiber between its rounds, and at the end of a handler.           *)
LEMMA LoopKeeps ==
    ASSUME Core, NEW t \in Task, EnterLoop(t) \/ HandlerReturns(t)
    PROVE  Core'
<1>1. TypeOK /\ OwnThread /\ Addressed /\ FirstRoundFresh /\ ServersStay
  BY DEF Core, EventInv, StartInv
<1>2. /\ UNCHANGED <<turn, stored, told, run, active, pc, ev, hold, mail, done, dl, ops, sent, got>>
      /\ phase' = [phase EXCEPT ![t] = "loop"] /\ phase[t] \in {"start", "mail", "done"}
      /\ phase[t] = "start" => turn[t] > Len(Tfl[t])
      /\ phase[t] # "start" => dl[t] = <<>>
  BY DEF EnterLoop, HandlerReturns, MainRuns, lists, counts
<1>3. phase' \in [Task -> Phase] /\ phase'[t] = "loop" /\ \A u \in Task \ {t} : phase'[u] = phase[u]
  BY <1>1, <1>2 DEF TypeOK, Phase
<1>4. TypeOK'
  BY <1>1, <1>2, <1>3 DEF TypeOK
<1>5. dl[t] = <<>>
  BY <1>1, <1>2 DEF Addressed
<1>6. PcStep
  BY <1>2 DEF PcStep
<1>7. OwnThread'
  BY <1>1, <1>2, NoSwitch DEF SameReady
<1>8. FirstRoundFresh'
  <2>1. \A f \in Nodes(Tfl[t]) : pc[f] # "new"
    <3>1. CASE phase[t] = "start"
      <4>1. \A i \in DOMAIN Tfl[t] : ~(i >= turn[t])
        BY <1>1, <1>2, <3>1, TflFacts DEF TypeOK
      <4>2. \A i \in DOMAIN Tfl[t] : pc[Tfl[t][i]] # "new"
        BY <1>1, <3>1, <4>1 DEF FirstRoundFresh
      <4>. QED BY <4>2, TflFacts
    <3>2. CASE phase[t] # "start"
      BY <1>1, <1>2, <3>2 DEF FirstRoundFresh
    <3>. QED BY <3>1, <3>2
  <2>. QED BY <1>1, <1>2, <1>3, <2>1 DEF FirstRoundFresh
<1>9. ServersStay'
  BY <1>1, <1>2, <1>3, TaskFacts DEF ServersStay
<1>10. CallTracked' /\ NoSleepOnEvents' /\ Addressed' /\ BorderQuiet' /\ FoundIsStarted'
  BY <1>2, <1>3, <1>4, <1>5, <1>6, PcStepNew, EventsSame
<1>. QED BY <1>4, <1>7, <1>8, <1>9, <1>10 DEF Core, EventInv, StartInv

(* The main fiber resumes an active fiber, a client yields, or ends.         *)
LEMMA SwitchKeeps ==
    ASSUME Core, NEW t \in Task,
           RunActive(t) \/ \E f \in Client : TaskOf[f] = t /\ (tt_fiber_yield(f) \/ ClientEnds(f))
    PROVE  Core'
<1>1. TypeOK /\ OwnThread /\ FirstRoundFresh /\ ServersStay
  BY DEF Core, EventInv, StartInv
<1>2. UNCHANGED <<phase, turn, stored, told, ev, hold, mail, done, dl, sent, got>>
  BY DEF RunActive, tt_fiber_yield, ClientEnds, control, lists, counts
<1>3. active[t] \in Seq(Fiber) /\ Distinct(active[t])
      /\ Nodes(active[t]) = {f \in Nodes(Tfl[t]) : Ready(f)}
  BY <1>1 DEF TypeOK, OwnThread, Ready
<1>4. /\ OwnThread' /\ PcStep /\ pc' \in [Fiber -> Pc]
      /\ active' \in [Task -> Seq(Fiber)] /\ run' \in [Task -> Fiber \cup {Main}]
      /\ ops' \in [Client -> Nat] /\ \A f \in Client : ops'[f] <= MaxOps[f]
      /\ \A f \in Fiber : /\ pc'[f] = "wait" <=> pc[f] = "wait"
                          /\ pc'[f] = "recv" => pc[f] = "recv"
  <2>1. CASE RunActive(t)
    <3>1. PICK fb : fb = Head(active[t])
      OBVIOUS
    <3>2. /\ run[t] = Main /\ active[t] # <<>> /\ Resume(t, fb, FALSE) /\ pc' = pc /\ ops' = ops
      BY <2>1, <3>1 DEF RunActive, MainRuns
    <3>3. fb \in Nodes(Tfl[t]) /\ Ready(fb) /\ fb # run[t]
      BY <1>3, <3>1, <3>2, HeadIsNode, TaskFacts
    <3>4. /\ OwnThread' /\ active' \in [Task -> Seq(Fiber)]
          /\ run' \in [Task -> Fiber \cup {Main}]
      BY <1>1, <3>2, <3>3, ResumeKeeps DEF Ready, SameReady
    <3>. QED BY <1>1, <3>2, <3>4 DEF TypeOK, PcStep
  <2>2. ASSUME NEW f \in Client, TaskOf[f] = t, tt_fiber_yield(f) PROVE <1>4!:
    <3>1. PICK rest, act : /\ rest = tt_list_remove(active[t], f)
                           /\ act = tt_list_push_tail(rest, f)
      OBVIOUS
    <3>2. /\ run[t] = f /\ pc[f] = "go" /\ pc' = pc
          /\ active' = [active EXCEPT ![t] = act] /\ run' = [run EXCEPT ![t] = Head(act)]
          /\ ops[f] < MaxOps[f] /\ ops' = [ops EXCEPT ![f] = @ + 1]
      BY <2>2, <3>1 DEF tt_fiber_yield, Acts
    <3>3. f \in Fiber /\ f \in Nodes(Tfl[t]) /\ Ready(f)
      BY <2>2, <3>2, TaskFacts DEF Ready
    <3>4. rest \in Seq(Fiber) /\ Distinct(rest) /\ Nodes(rest) = Nodes(active[t]) \ {f}
      BY <1>3, <3>1, RemoveNode
    <3>5. /\ act \in Seq(Fiber) /\ Nodes(act) = Nodes(rest) \cup {f} /\ Distinct(act)
          /\ act # <<>>
      <4>1. f \notin Nodes(rest)
        BY <3>4
      <4>2. /\ tt_list_push_tail(rest, f) \in Seq(Fiber)
            /\ Nodes(tt_list_push_tail(rest, f)) = Nodes(rest) \cup {f}
            /\ Distinct(tt_list_push_tail(rest, f)) /\ tt_list_push_tail(rest, f) # <<>>
        <5>1. f \in Fiber /\ f \notin Nodes(rest) /\ rest \in Seq(Fiber) /\ Distinct(rest)
          BY <3>3, <3>4, <4>1
        <5>. QED BY <5>1, PushTail
      <4>. QED BY <3>1, <4>2
    <3>6. Nodes(act) = {x \in Nodes(Tfl[t]) : pc'[x] \in {"go", "again"}}
      BY <1>3, <3>2, <3>3, <3>4, <3>5 DEF Ready
    <3>7. Head(act) \in Fiber
      BY <3>5
    <3>8. /\ OwnThread' /\ active' \in [Task -> Seq(Fiber)]
          /\ run' \in [Task -> Fiber \cup {Main}]
      BY <1>1, <3>2, <3>5, <3>6, <3>7, ThreadKeeps DEF SameReady
    <3>9. ops' \in [Client -> Nat] /\ \A x \in Client : ops'[x] <= MaxOps[x]
      BY <1>1, <2>2, <3>2, TaskFacts DEF TypeOK
    <3>. QED BY <1>1, <3>2, <3>8, <3>9 DEF TypeOK, PcStep
  <2>3. ASSUME NEW f \in Client, TaskOf[f] = t, ClientEnds(f) PROVE <1>4!:
    <3>1. PICK rest : rest = tt_list_remove(active[t], f)
      OBVIOUS
    <3>2. /\ run[t] = f /\ pc[f] = "go" /\ pc' = [pc EXCEPT ![f] = "ended"] /\ ops' = ops
          /\ active' = [active EXCEPT ![t] = rest] /\ run' = [run EXCEPT ![t] = Main]
      BY <2>3, <3>1 DEF ClientEnds
    <3>3. f \in Fiber /\ f \in Nodes(Tfl[t]) /\ f \notin Server
      BY <2>3, TaskFacts
    <3>4. rest \in Seq(Fiber) /\ Distinct(rest) /\ Nodes(rest) = Nodes(active[t]) \ {f}
      BY <1>3, <3>1, RemoveNode
    <3>5. /\ pc' \in [Fiber -> Pc] /\ pc'[f] = "ended" /\ \A x \in Fiber \ {f} : pc'[x] = pc[x]
      BY <1>1, <3>2, <3>3 DEF TypeOK, Pc
    <3>6. Nodes(rest) = {x \in Nodes(Tfl[t]) : pc'[x] \in {"go", "again"}}
      BY <1>3, <3>4, <3>5, TaskFacts DEF Ready
    <3>7. \A x \in Fiber : TaskOf[x] # t => SameReady(x)
      BY <2>3, <3>5 DEF SameReady
    <3>8. /\ OwnThread' /\ active' \in [Task -> Seq(Fiber)]
          /\ run' \in [Task -> Fiber \cup {Main}]
      BY <1>1, <3>2, <3>4, <3>6, <3>7, ThreadKeeps
    <3>9. PcStep
      BY <3>2, <3>3, <3>5 DEF PcStep
    <3>. QED BY <1>1, <3>2, <3>5, <3>8, <3>9 DEF TypeOK
  <2>. QED BY <2>1, <2>2, <2>3
<1>5. TypeOK'
  BY <1>1, <1>2, <1>4 DEF TypeOK
<1>6. FirstRoundFresh' /\ ServersStay'
  BY <1>1, <1>2, <1>4, StartKeeps
<1>7. CallTracked' /\ NoSleepOnEvents' /\ Addressed' /\ BorderQuiet' /\ FoundIsStarted'
  BY <1>2, <1>4, <1>5, PcStepNew, EventsSame
<1>. QED BY <1>4, <1>5, <1>6, <1>7 DEF Core, EventInv, StartInv

(* The first round: a fiber runs for the first time.                         *)
LEMMA FirstRoundKeeps ==
    ASSUME Core, NEW t \in Task, FirstRound(t)
    PROVE  Core'
<1>1. TypeOK /\ OwnThread /\ FirstRoundFresh /\ ServersStay
  BY DEF Core, EventInv, StartInv
<1>2. PICK k, fb : k = turn[t] /\ fb = Tfl[t][k]
  OBVIOUS
<1>3. /\ UNCHANGED <<phase, stored, told, ev, hold, mail, done, dl, ops, sent, got>>
      /\ phase[t] = "start" /\ run[t] = Main /\ k <= Len(Tfl[t])
      /\ turn' = [turn EXCEPT ![t] = k + 1]
      /\ pc' = [pc EXCEPT ![fb] = Awake(pc[fb])] /\ Resume(t, fb, FALSE)
  BY <1>2 DEF FirstRound, MainRuns, lists, counts
<1>4. k \in Nat \ {0} /\ k \in DOMAIN Tfl[t]
  BY <1>1, <1>2, <1>3, TflFacts DEF TypeOK
<1>5. fb \in Nodes(Tfl[t]) /\ fb \in Fiber /\ TaskOf[fb] = t /\ fb # Main
  BY <1>2, <1>4, TflFacts, TaskFacts
<1>6. pc[fb] = "new"
  BY <1>1, <1>2, <1>3, <1>4 DEF FirstRoundFresh
<1>7. /\ pc' \in [Fiber -> Pc] /\ pc'[fb] = "go" /\ \A f \in Fiber \ {fb} : pc'[f] = pc[f]
  BY <1>1, <1>3, <1>5, <1>6 DEF TypeOK, Awake, Pc
<1>8. /\ OwnThread' /\ active' \in [Task -> Seq(Fiber)] /\ run' \in [Task -> Fiber \cup {Main}]
  BY <1>1, <1>3, <1>5, <1>7, ResumeKeeps DEF SameReady
<1>9. turn' \in [Task -> Nat \ {0}] /\ turn'[t] = k + 1 /\ \A u \in Task \ {t} : turn'[u] = turn[u]
  BY <1>1, <1>3, <1>4 DEF TypeOK
<1>10. TypeOK'
  BY <1>1, <1>3, <1>7, <1>8, <1>9 DEF TypeOK
<1>11. FirstRoundFresh'
  <2>1. ASSUME NEW u \in Task
        PROVE  IF phase[u] \in {"created", "start"}
               THEN \A i \in DOMAIN Tfl[u] : pc'[Tfl[u][i]] = "new" <=> i >= turn'[u]
               ELSE \A f \in Nodes(Tfl[u]) : pc'[f] # "new"
    <3>1. CASE u = t
      <4>1. ASSUME NEW i \in DOMAIN Tfl[t]
            PROVE  pc'[Tfl[t][i]] = "new" <=> i >= k + 1
        <5>1. pc[Tfl[t][i]] = "new" <=> i >= k
          BY <1>1, <1>2, <1>3 DEF FirstRoundFresh
        <5>2. Tfl[t][i] \in Fiber /\ i \in Nat
          BY TflFacts, TaskFacts
        <5>3. CASE i = k
          BY <1>2, <1>4, <1>7, <5>3
        <5>4. CASE i # k
          <6>1. Tfl[t][i] # fb
            BY <1>2, <1>4, <5>4, TflFacts DEF Distinct
          <6>. QED BY <1>4, <1>7, <5>1, <5>2, <5>4, <6>1
        <5>. QED BY <5>3, <5>4
      <4>. QED BY <1>3, <1>9, <3>1, <4>1
    <3>2. CASE u # t
      <4>1. \A f \in Nodes(Tfl[u]) : pc'[f] = pc[f]
        BY <1>5, <1>7, <3>2, TaskFacts
      <4>2. \A i \in DOMAIN Tfl[u] : pc'[Tfl[u][i]] = pc[Tfl[u][i]]
        BY <4>1, TflFacts
      <4>. QED BY <1>1, <1>9, <3>2, <4>1, <4>2 DEF FirstRoundFresh
    <3>. QED BY <3>1, <3>2
  <2>. QED BY <1>3, <2>1 DEF FirstRoundFresh
<1>12. ServersStay'
  <2>1. \A f \in Fiber : phase[TaskOf[f]] = "over" => pc'[f] = "ended"
    BY <1>1, <1>3, <1>5, <1>7 DEF ServersStay
  <2>2. \A f \in Server : pc'[f] = "ended" => pc[f] = "ended"
    BY <1>5, <1>7, TaskFacts
  <2>. QED BY <1>1, <1>3, <2>1, <2>2 DEF ServersStay
<1>13. NewStep
  BY <1>5, <1>7, TaskFacts DEF NewStep
<1>14. \A f \in Fiber : /\ pc'[f] = "wait" <=> pc[f] = "wait"
                        /\ pc'[f] = "recv" => pc[f] = "recv"
  BY <1>6, <1>7
<1>15. CallTracked' /\ NoSleepOnEvents' /\ Addressed' /\ BorderQuiet' /\ FoundIsStarted'
  BY <1>3, <1>10, <1>13, <1>14, EventsSame
<1>. QED BY <1>8, <1>10, <1>11, <1>12, <1>15 DEF Core, EventInv, StartInv

-----------------------------------------------------------------------------
(* Sending.                                                                 *)

(* A channel or a list of events with one more at its end.                  *)
LEMMA AppendEvent ==
    ASSUME NEW s \in Seq(Event), NEW e \in Event
    PROVE  /\ Append(s, e) \in Seq(Event) /\ tt_list_push_tail(s, e) = Append(s, e)
           /\ Nodes(Append(s, e)) = Nodes(s) \cup {e}
  BY PushTail DEF tt_list_push_tail

(* tt_fiber_send_ev(): who runs next, and who is woken up.                  *)
LEMMA SendSwitch ==
    ASSUME TypeOK, OwnThread, NEW f \in Client, NEW g \in Server, NEW e \in Event,
           NEW w \in BOOLEAN, pc[f] = "go", run[TaskOf[f]] = f, tt_fiber_send_ev(f, g, e, w)
    PROVE  /\ OwnThread' /\ active' \in [Task -> Seq(Fiber)]
           /\ run' \in [Task -> Fiber \cup {Main}] /\ pc' \in [Fiber -> Pc]
           /\ pc'[f] = (IF w THEN "wait" ELSE "go")
           /\ pc'[g] = (IF SameSched(f, g) /\ pc[g] = "recv" THEN "again" ELSE pc[g])
           /\ \A x \in Fiber \ {f, g} : pc'[x] = pc[x]
           /\ \/ /\ SameSched(f, g) /\ mail' = mail
                 /\ ev' = [ev EXCEPT ![g] = Append(ev[g], e)]
              \/ /\ ~SameSched(f, g) /\ ev' = ev
                 /\ mail' = [mail EXCEPT ![TaskOf[g]] = Append(mail[TaskOf[g]], e)]
<1>1. PICK t : t = TaskOf[f]
  OBVIOUS
<1>2. /\ f \in Fiber /\ g \in Fiber /\ f # g /\ t \in Task /\ f \in Nodes(Tfl[t]) /\ f # Main
      /\ run[t] = f /\ TaskOf[g] \in Task
  BY <1>1, TaskFacts
<1>3. PICK pcf : pcf = IF w THEN [pc EXCEPT ![f] = "wait"] ELSE pc
  OBVIOUS
<1>4. /\ pcf \in [Fiber -> Pc] /\ pcf[f] = (IF w THEN "wait" ELSE "go")
      /\ \A x \in Fiber \ {f} : pcf[x] = pc[x]
  BY <1>2, <1>3 DEF TypeOK, Pc
<1>5. \/ /\ SameSched(f, g) /\ mail' = mail
         /\ ev' = [ev EXCEPT ![g] = Append(ev[g], e)]
      \/ /\ ~SameSched(f, g) /\ ev' = ev
         /\ mail' = [mail EXCEPT ![TaskOf[g]] = Append(mail[TaskOf[g]], e)]
  BY <1>2 DEF tt_fiber_send_ev, AddEv, tt_list_push_tail, TypeOK
<1>6. CASE SameSched(f, g) /\ pc[g] = "recv"
  <2>1. pc' = [pcf EXCEPT ![g] = Awake(pcf[g])] /\ Resume(t, g, w)
    BY <1>1, <1>3, <1>6 DEF tt_fiber_send_ev, Recving
  <2>2. /\ pc' \in [Fiber -> Pc] /\ pc'[f] = pcf[f] /\ pc'[g] = "again"
        /\ \A x \in Fiber \ {f, g} : pc'[x] = pc[x]
    BY <1>2, <1>4, <1>6, <2>1 DEF Awake, Pc
  <2>3. g \in Nodes(Tfl[t])
    BY <1>1, <1>2, <1>6, TaskFacts DEF SameSched
  <2>4. pc'[run[t]] \in {"go", "again"} <=> ~w
    BY <1>2, <1>4, <2>2
  <2>5. /\ OwnThread' /\ active' \in [Task -> Seq(Fiber)] /\ run' \in [Task -> Fiber \cup {Main}]
    BY <1>2, <2>1, <2>2, <2>3, <2>4, ResumeKeeps DEF SameReady
  <2>. QED BY <1>4, <1>5, <1>6, <2>2, <2>5
<1>7. CASE ~(SameSched(f, g) /\ pc[g] = "recv") /\ w
  <2>1. pc' = pcf /\ Suspend(t)
    BY <1>1, <1>3, <1>7 DEF tt_fiber_send_ev, Recving
  <2>2. pc'[run[t]] \notin {"go", "again"} /\ \A x \in Fiber \ {run[t]} : SameReady(x)
    BY <1>2, <1>4, <1>7, <2>1 DEF SameReady
  <2>3. /\ OwnThread' /\ active' \in [Task -> Seq(Fiber)] /\ run' \in [Task -> Fiber \cup {Main}]
    BY <1>2, <2>1, <2>2, SuspendKeeps
  <2>. QED BY <1>2, <1>4, <1>5, <1>7, <2>1, <2>3
<1>8. CASE ~(SameSched(f, g) /\ pc[g] = "recv") /\ ~w
  <2>1. pc' = pc /\ active' = active /\ run' = run
    BY <1>1, <1>8 DEF tt_fiber_send_ev, Recving
  <2>2. OwnThread'
    BY <2>1, NoSwitch DEF SameReady
  <2>. QED BY <1>2, <1>5, <1>8, <2>1, <2>2 DEF TypeOK
<1>. QED BY <1>6, <1>7, <1>8

(* A task with a server that has not been told to exit is not over.         *)
LEMMA ServesOn ==
    ASSUME TypeOK, ServersStay, NEW g \in Server, told[TaskOf[g]] = "no" \/ pc[g] # "ended"
    PROVE  phase[TaskOf[g]] # "over"
  BY TaskFacts DEF ServersStay

(* A client counts its operation.                                           *)
LEMMA OpsTyped ==
    ASSUME TypeOK, NEW f \in Client, Acts(f)
    PROVE  /\ ops' \in [Client -> Nat] /\ \A x \in Client : ops'[x] <= MaxOps[x]
           /\ pc[f] = "go" /\ run[TaskOf[f]] = f /\ ops[f] < MaxOps[f]
<1>1. /\ ops' = [ops EXCEPT ![f] = ops[f] + 1] /\ ops[f] < MaxOps[f]
      /\ pc[f] = "go" /\ run[TaskOf[f]] = f
  BY DEF Acts
<1>2. ops \in [Client -> Nat] /\ MaxOps[f] \in Nat /\ \A x \in Client : ops[x] <= MaxOps[x]
  BY TaskFacts DEF TypeOK
<1>. QED BY <1>1, <1>2

(* A call or a post.                                                        *)
LEMMA SendKeeps ==
    ASSUME Core, NEW f \in Client, NEW g \in Server, NEW e \in Event, NEW w \in BOOLEAN,
           Acts(f), Usable(f, g), tt_fiber_send_ev(f, g, e, w),
           e.kind = (IF w THEN "call" ELSE "post"), e.src = f, e.dst = g,
           UNCHANGED <<phase, turn, stored, told, hold, done, dl, got>>, sent' \in [Pair -> Nat]
    PROVE  Core'
<1>1. /\ TypeOK /\ OwnThread /\ CallTracked /\ NoSleepOnEvents /\ Addressed /\ BorderQuiet
      /\ FirstRoundFresh /\ ServersStay /\ FoundIsStarted
  BY DEF Core, EventInv, StartInv
<1>2. /\ ops' \in [Client -> Nat] /\ \A x \in Client : ops'[x] <= MaxOps[x]
      /\ pc[f] = "go" /\ run[TaskOf[f]] = f
  BY <1>1, OpsTyped
<1>3. f \in Fiber /\ g \in Fiber /\ f # g /\ TaskOf[f] \in Task /\ TaskOf[g] \in Task
      /\ f \notin Server /\ g \notin Client
  BY TaskFacts
<1>4. /\ OwnThread' /\ active' \in [Task -> Seq(Fiber)]
      /\ run' \in [Task -> Fiber \cup {Main}] /\ pc' \in [Fiber -> Pc]
      /\ pc'[f] = (IF w THEN "wait" ELSE "go")
      /\ pc'[g] = (IF SameSched(f, g) /\ pc[g] = "recv" THEN "again" ELSE pc[g])
      /\ \A x \in Fiber \ {f, g} : pc'[x] = pc[x]
  BY <1>1, <1>2, SendSwitch
<1>5. \/ /\ SameSched(f, g) /\ mail' = mail
         /\ ev' = [ev EXCEPT ![g] = Append(ev[g], e)]
      \/ /\ ~SameSched(f, g) /\ ev' = ev
         /\ mail' = [mail EXCEPT ![TaskOf[g]] = Append(mail[TaskOf[g]], e)]
  BY <1>1, <1>2, SendSwitch
<1>6. /\ ev \in [Fiber -> Seq(Event)] /\ mail \in [Task -> Seq(Event)]
      /\ ev[g] \in Seq(Event) /\ mail[TaskOf[g]] \in Seq(Event)
  BY <1>1, <1>3 DEF TypeOK
<1>7. /\ ev' \in [Fiber -> Seq(Event)] /\ mail' \in [Task -> Seq(Event)]
      /\ \A x \in Fiber : Nodes(ev'[x]) \subseteq Nodes(ev[x]) \cup (IF x = g THEN {e} ELSE {})
      /\ \A u \in Task : Nodes(mail'[u]) \subseteq
                            Nodes(mail[u]) \cup (IF u = TaskOf[g] THEN {e} ELSE {})
      /\ SameSched(f, g) => mail' = mail
      /\ ~SameSched(f, g) => ev' = ev
  <2>1. /\ Append(ev[g], e) \in Seq(Event) /\ Nodes(Append(ev[g], e)) = Nodes(ev[g]) \cup {e}
    BY <1>6, AppendEvent
  <2>2. /\ Append(mail[TaskOf[g]], e) \in Seq(Event)
        /\ Nodes(Append(mail[TaskOf[g]], e)) = Nodes(mail[TaskOf[g]]) \cup {e}
    BY <1>6, AppendEvent
  <2>3. CASE SameSched(f, g)
    BY <1>3, <1>5, <1>6, <2>1, <2>3
  <2>4. CASE ~SameSched(f, g)
    BY <1>3, <1>5, <1>6, <2>2, <2>4
  <2>. QED BY <2>3, <2>4
<1>8. TypeOK'
  BY <1>1, <1>2, <1>4, <1>7 DEF TypeOK
<1>9. PcStep
  BY <1>2, <1>3, <1>4 DEF PcStep
<1>10. FirstRoundFresh' /\ ServersStay'
  BY <1>1, <1>9, StartKeeps
<1>11. FoundIsStarted'
  <2>1. \A t \in Task : Back(t)' = Back(t)
    BY DEF Back
  <2>. QED BY <1>1, <1>8, <1>9, <2>1, PcStepNew, FoundKeeps
<1>12. NoSleepOnEvents'
  <2>1. ASSUME NEW x \in Fiber, pc'[x] = "recv" PROVE ev'[x] = <<>>
    <3>1. x # f /\ pc[x] = "recv" /\ ev[x] = <<>>
      BY <1>1, <1>3, <1>4, <2>1 DEF NoSleepOnEvents
    <3>2. CASE x = g
      BY <1>4, <1>7, <2>1, <3>1, <3>2
    <3>3. CASE x # g
      BY <1>3, <1>5, <1>6, <3>1, <3>3
    <3>. QED BY <3>2, <3>3
  <2>. QED BY <2>1 DEF NoSleepOnEvents
<1>13. Addressed'
  <2>1. ToldStep /\ HoldStep
    BY DEF ToldStep, HoldStep
  <2>2. MailStep
    <3>1. \A t \in Task : \A x \in Nodes(mail'[t]) :
              x \in Nodes(mail[t]) \/ (x = e /\ t = TaskOf[g] /\ ~SameSched(f, g))
      BY <1>7
    <3>. QED BY <3>1 DEF MailStep, SameSched
  <2>3. DoneStep
    BY DEF DoneStep
  <2>4. DlStep
    BY DEF DlStep
  <2>5. EvStep
    BY <1>7 DEF EvStep
  <2>. QED BY <1>1, <2>1, <2>2, <2>3, <2>4, <2>5, AddressedKeeps
<1>14. phase[TaskOf[g]] # "over"
  <2>1. CASE SameSched(f, g)
    BY <1>1, <1>2, <1>3, <2>1 DEF ServersStay, SameSched
  <2>2. CASE ~SameSched(f, g)
    <3>1. told[TaskOf[g]] = "no"
      BY <2>2 DEF Usable, SameSched
    <3>. QED BY <1>1, <3>1, ServesOn
  <2>. QED BY <2>1, <2>2
<1>15. BorderQuiet'
  <2>1. ASSUME NEW t \in Task, NEW x \in EventsIn(t)', x.kind \in {"call", "find"}
        PROVE  \/ x \in EventsIn(t)
               \/ t = TaskOf[x.src]
               \/ told'[TaskOf[x.src]] = "no" /\ told'[t] = "no"
    <3>1. \/ x = e /\ t = TaskOf[g]
          \/ x \in EventsIn(t)
      <4>1. \/ x \in Nodes(mail'[t]) \/ x \in Nodes(dl'[t]) \/ x \in Nodes(done'[t])
            \/ \E y \in Server : /\ TaskOf[y] = t
                                 /\ x \in Nodes(ev'[y]) \/ (x = hold'[y] /\ x # None)
        BY <2>1, EventsInDef
      <4>2. CASE x \in Nodes(mail'[t])
        BY <1>7, <4>2, EventsInDef
      <4>3. CASE x \in Nodes(dl'[t]) \/ x \in Nodes(done'[t])
        BY <4>3, EventsInDef
      <4>4. ASSUME NEW y \in Server, TaskOf[y] = t, x \in Nodes(ev'[y])
            PROVE  <3>1!:
        <5>1. y \in Fiber
          BY TaskFacts
        <5>2. x \in Nodes(ev[y]) \/ (x = e /\ y = g)
          BY <1>7, <4>4, <5>1
        <5>. QED BY <4>4, <5>2, EventsInDef
      <4>5. ASSUME NEW y \in Server, TaskOf[y] = t, x = hold'[y], x # None
            PROVE  <3>1!:
        BY <4>5, EventsInDef
      <4>. QED BY <4>1, <4>2, <4>3, <4>4, <4>5
    <3>2. CASE x = e /\ t = TaskOf[g]
      BY <3>2 DEF Usable
    <3>. QED BY <3>1, <3>2
  <2>. QED BY <1>1, <2>1, BorderKeeps
<1>16. CallTracked'
  <2>1. \A x \in Client : IF Mine(x, e) THEN pc[x] # "wait" /\ pc'[x] = "wait"
                          ELSE pc'[x] = "wait" <=> pc[x] = "wait"
    BY <1>2, <1>3, <1>4, TaskFacts DEF Mine
  <2>2. CASE SameSched(f, g)
    <3>1. PICK q : q = <<"ev", g>>
      OBVIOUS
    <3>2. ListAt(q)' = Append(ListAt(q), e) /\ q \in Place
      <4>1. ListAt(q) = ev[g] /\ ListAt(q)' = ev'[g] /\ q \in Place
        BY <3>1, PlaceLists
      <4>2. ev'[g] = Append(ev[g], e)
        BY <1>3, <1>5, <1>6, <2>2
      <4>. QED BY <4>1, <4>2
    <3>3. \A y \in Server : <<"ev", y>> \in {q} \/ ev'[y] = ev[y]
      BY <1>3, <1>5, <1>6, <2>2, <3>1, TaskFacts
    <3>4. \A p \in Place \ {q} : ListAt(p)' = ListAt(p)
      BY <1>7, <2>2, <3>3, OtherPlaces
    <3>. QED BY <1>1, <2>1, <3>2, <3>4, AddTracked
  <2>3. CASE ~SameSched(f, g)
    <3>1. PICK q : q = <<"mail", TaskOf[g]>>
      OBVIOUS
    <3>2. ListAt(q) = mail[TaskOf[g]] /\ ListAt(q)' = mail'[TaskOf[g]] /\ q \in Place
      BY <1>3, <1>14, <3>1, PlaceLists
    <3>3. ListAt(q)' = Append(ListAt(q), e)
      BY <1>3, <1>5, <1>6, <2>3, <3>2
    <3>4. \A u \in Task : <<"mail", u>> \in {q} \/ mail'[u] = mail[u]
      BY <1>3, <1>5, <1>6, <2>3, <3>1
    <3>5. \A p \in Place \ {q} : ListAt(p)' = ListAt(p)
      BY <1>7, <2>3, <3>4, OtherPlaces
    <3>. QED BY <1>1, <2>1, <3>2, <3>3, <3>5, AddTracked
  <2>. QED BY <2>2, <2>3
<1>. QED BY <1>4, <1>8, <1>10, <1>11, <1>12, <1>13, <1>15, <1>16 DEF Core, EventInv, StartInv

LEMMA CallKeeps ==
    ASSUME Core, NEW f \in Client, NEW g \in Server, Call(f, g) \/ Post(f, g)
    PROVE  Core'
<1>1. TypeOK
  BY DEF Core, EventInv
<1>2. CASE Call(f, g)
  <2>1. /\ Acts(f) /\ Usable(f, g) /\ tt_fiber_send_ev(f, g, CallEv(f, g), TRUE)
        /\ UNCHANGED <<phase, turn, stored, told, hold, done, dl, got>> /\ sent' = sent
    BY <1>2 DEF Call, control, counts
  <2>2. sent' \in [Pair -> Nat]
    BY <1>1, <2>1 DEF TypeOK
  <2>3. PICK e : e = CallEv(f, g)
    OBVIOUS
  <2>4. e \in Event /\ e.kind = "call" /\ e.src = f /\ e.dst = g
    BY <2>3, EventFacts
  <2>5. tt_fiber_send_ev(f, g, e, TRUE)
    BY <2>1, <2>3
  <2>. QED BY <2>1, <2>2, <2>4, <2>5, SendKeeps
<1>3. CASE Post(f, g)
  <2>1. PICK n : n = sent[<<f, g>>] + 1
    OBVIOUS
  <2>2. /\ Acts(f) /\ Usable(f, g) /\ tt_fiber_send_ev(f, g, PostEv(f, g, n), FALSE)
        /\ UNCHANGED <<phase, turn, stored, told, hold, done, dl, got>>
        /\ sent' = [sent EXCEPT ![<<f, g>>] = n]
    BY <1>3, <2>1 DEF Post, control
  <2>3. n \in Nat /\ sent' \in [Pair -> Nat]
    BY <1>1, <2>1, <2>2 DEF TypeOK, Pair
  <2>4. PICK e : e = PostEv(f, g, n)
    OBVIOUS
  <2>5. e \in Event /\ e.kind = "post" /\ e.src = f /\ e.dst = g
    BY <2>3, <2>4, EventFacts
  <2>6. tt_fiber_send_ev(f, g, e, FALSE)
    BY <2>2, <2>4
  <2>. QED BY <2>2, <2>3, <2>5, <2>6, SendKeeps
<1>. QED BY <1>2, <1>3

(* A lookup in another task.                                                *)
LEMMA FindKeeps ==
    ASSUME Core, NEW f \in Client, NEW g \in Findable, tt_task_find_fiber(f, g)
    PROVE  Core'
<1>1. /\ TypeOK /\ OwnThread /\ CallTracked /\ NoSleepOnEvents /\ Addressed /\ BorderQuiet
      /\ FirstRoundFresh /\ ServersStay /\ FoundIsStarted
  BY DEF Core, EventInv, StartInv
<1>2. PICK t, u, e : t = TaskOf[f] /\ u = TaskOf[g] /\ e = FindEv(f, g)
  OBVIOUS
<1>3. /\ Acts(f) /\ u # t /\ Usable(f, g)
      /\ mail' = [mail EXCEPT ![u] = Append(mail[u], e)]
      /\ pc' = [pc EXCEPT ![f] = "wait"] /\ Suspend(t)
      /\ UNCHANGED <<phase, turn, stored, told, ev, hold, done, dl, sent, got>>
  BY <1>2 DEF tt_task_find_fiber, control, counts, tt_list_push_tail
<1>4. /\ ops' \in [Client -> Nat] /\ \A x \in Client : ops'[x] <= MaxOps[x]
      /\ pc[f] = "go" /\ run[t] = f
  BY <1>1, <1>2, <1>3, OpsTyped
<1>5. f \in Fiber /\ t \in Task /\ u \in Task /\ f \notin Server /\ f # Main
  BY <1>2, TaskFacts DEF Findable
<1>6. e \in Event /\ e.kind = "find" /\ e.src = f /\ e.dst = g
  BY <1>2, EventFacts
<1>7. told[u] = "no" /\ told[t] = "no" /\ phase[u] # "over"
  <2>1. told[u] = "no" /\ told[t] = "no"
    BY <1>2, <1>3 DEF Usable
  <2>2. PICK s \in Server : TaskOf[s] = u
    BY <1>2 DEF Findable
  <2>. QED BY <1>1, <2>1, <2>2, ServesOn
<1>8. pc' \in [Fiber -> Pc] /\ pc'[f] = "wait" /\ \A x \in Fiber \ {f} : pc'[x] = pc[x]
  BY <1>1, <1>3, <1>5 DEF TypeOK, Pc
<1>9. /\ OwnThread' /\ active' \in [Task -> Seq(Fiber)] /\ run' \in [Task -> Fiber \cup {Main}]
  BY <1>1, <1>3, <1>4, <1>5, <1>8, SuspendKeeps DEF SameReady
<1>10. /\ mail' \in [Task -> Seq(Event)] /\ mail[u] \in Seq(Event)
       /\ mail'[u] = Append(mail[u], e) /\ \A v \in Task \ {u} : mail'[v] = mail[v]
       /\ Nodes(mail'[u]) = Nodes(mail[u]) \cup {e}
  <2>1. mail \in [Task -> Seq(Event)] /\ mail[u] \in Seq(Event)
    BY <1>1, <1>5 DEF TypeOK
  <2>2. Append(mail[u], e) \in Seq(Event) /\ Nodes(Append(mail[u], e)) = Nodes(mail[u]) \cup {e}
    BY <1>6, <2>1, AppendEvent
  <2>. QED BY <1>3, <1>5, <2>1, <2>2
<1>11. TypeOK'
  BY <1>1, <1>3, <1>4, <1>8, <1>9, <1>10 DEF TypeOK
<1>12. PcStep
  BY <1>4, <1>5, <1>8 DEF PcStep
<1>13. FirstRoundFresh' /\ ServersStay'
  BY <1>1, <1>3, <1>12, StartKeeps
<1>14. FoundIsStarted'
  <2>1. \A v \in Task : Back(v)' = Back(v)
    BY <1>3 DEF Back
  <2>. QED BY <1>1, <1>3, <1>11, <1>12, <2>1, PcStepNew, FoundKeeps
<1>15. NoSleepOnEvents'
  BY <1>1, <1>3, <1>8 DEF NoSleepOnEvents
<1>16. Addressed'
  <2>1. ToldStep /\ HoldStep
    BY <1>3 DEF ToldStep, HoldStep
  <2>2. MailStep
    BY <1>2, <1>3, <1>6, <1>10 DEF MailStep
  <2>3. DoneStep
    BY <1>3 DEF DoneStep
  <2>4. DlStep
    BY <1>3 DEF DlStep
  <2>5. EvStep
    BY <1>3 DEF EvStep
  <2>. QED BY <1>1, <2>1, <2>2, <2>3, <2>4, <2>5, AddressedKeeps
<1>17. BorderQuiet'
  <2>1. ASSUME NEW v \in Task, NEW x \in EventsIn(v)' PROVE x \in EventsIn(v) \/ (x = e /\ v = u)
    <3>1. Nodes(mail'[v]) \subseteq Nodes(mail[v]) \cup (IF v = u THEN {e} ELSE {})
      BY <1>10
    <3>2. \/ x \in Nodes(mail'[v]) \/ x \in Nodes(dl[v]) \/ x \in Nodes(done[v])
          \/ \E y \in Server : /\ TaskOf[y] = v
                               /\ x \in Nodes(ev[y]) \/ (x = hold[y] /\ x # None)
      BY <1>3, <2>1, EventsInDef
    <3>. QED BY <3>1, <3>2, EventsInDef
  <2>2. \A v \in Task : \A x \in EventsIn(v)' : x.kind \in {"call", "find"} =>
                   \/ x \in EventsIn(v)
                   \/ told'[TaskOf[x.src]] = "no" /\ told'[v] = "no"
    BY <1>2, <1>3, <1>6, <1>7, <2>1
  <2>. QED BY <1>1, <1>3, <2>2, BorderKeeps
<1>18. CallTracked'
  <2>1. \A x \in Client : IF Mine(x, e) THEN pc[x] # "wait" /\ pc'[x] = "wait"
                          ELSE pc'[x] = "wait" <=> pc[x] = "wait"
    BY <1>4, <1>6, <1>8, TaskFacts DEF Mine
  <2>2. PICK q : q = <<"mail", u>>
    OBVIOUS
  <2>3. ListAt(q) = mail[u] /\ ListAt(q)' = mail'[u] /\ q \in Place
    BY <1>3, <1>5, <1>7, <2>2, PlaceLists
  <2>4. \A v \in Task : <<"mail", v>> \in {q} \/ mail'[v] = mail[v]
    BY <1>10, <2>2
  <2>5. \A p \in Place \ {q} : ListAt(p)' = ListAt(p)
    BY <1>3, <2>4, OtherPlaces
  <2>. QED BY <1>1, <1>6, <1>10, <2>1, <2>3, <2>5, AddTracked
<1>. QED BY <1>9, <1>11, <1>13, <1>14, <1>15, <1>16, <1>17, <1>18 DEF Core, EventInv, StartInv

(* tt_task_exit(): nobody waits across the border of the task.              *)
LEMMA ExitKeeps ==
    ASSUME Core, NEW f \in Client, NEW u \in Task, tt_task_exit(f, u)
    PROVE  Core'
<1>1. /\ TypeOK /\ OwnThread /\ CallTracked /\ NoSleepOnEvents /\ Addressed /\ BorderQuiet
      /\ FirstRoundFresh /\ ServersStay /\ FoundIsStarted
  BY DEF Core, EventInv, StartInv
<1>2. /\ Acts(f) /\ told[u] = "no" /\ Quiet(u)
      /\ UNCHANGED <<phase, turn, stored, run, active, pc, ev, hold, done, dl, sent, got>>
      /\ \/ /\ told' = [told EXCEPT ![u] = "asked"]
            /\ mail' = [mail EXCEPT ![u] = Append(mail[u], ExitEv)]
         \/ /\ told' = [told EXCEPT ![u] = "ignored"] /\ mail' = mail
  BY DEF tt_task_exit, counts, tt_list_push_tail
<1>3. /\ ops' \in [Client -> Nat] /\ \A x \in Client : ops'[x] <= MaxOps[x]
  BY <1>1, <1>2, OpsTyped
<1>4. ExitEv \in Event /\ ExitEv.kind = "exit"
  BY EventFacts
<1>5. /\ mail' \in [Task -> Seq(Event)] /\ mail[u] \in Seq(Event)
      /\ mail'[u] = mail[u] \/ (mail'[u] = Append(mail[u], ExitEv) /\ told'[u] = "asked")
      /\ \A v \in Task \ {u} : mail'[v] = mail[v]
      /\ Nodes(mail'[u]) \subseteq Nodes(mail[u]) \cup {ExitEv}
      /\ told' \in [Task -> {"no", "asked", "ignored"}] /\ told'[u] # "no"
      /\ \A v \in Task \ {u} : told'[v] = told[v]
  <2>1. mail \in [Task -> Seq(Event)] /\ mail[u] \in Seq(Event)
        /\ told \in [Task -> {"no", "asked", "ignored"}]
    BY <1>1 DEF TypeOK
  <2>2. /\ Append(mail[u], ExitEv) \in Seq(Event)
        /\ Nodes(Append(mail[u], ExitEv)) = Nodes(mail[u]) \cup {ExitEv}
    BY <1>4, <2>1, AppendEvent
  <2>. QED BY <1>2, <2>1, <2>2
<1>6. TypeOK'
  BY <1>1, <1>2, <1>3, <1>5 DEF TypeOK
<1>7. PcStep
  BY <1>2 DEF PcStep
<1>8. OwnThread'
  BY <1>1, <1>2, NoSwitch DEF SameReady
<1>9. ToldStep /\ \A v \in Task : told'[v] = "no" => told[v] = "no"
  BY <1>2, <1>5 DEF ToldStep
<1>10. FirstRoundFresh' /\ ServersStay'
  BY <1>1, <1>2, <1>7, <1>9, StartKeeps DEF ToldStep
<1>11. FoundIsStarted'
  <2>1. \A v \in Task : Back(v)' = Back(v)
    BY <1>2 DEF Back
  <2>. QED BY <1>1, <1>6, <1>7, <1>9, <2>1, PcStepNew, FoundKeeps
<1>12. NoSleepOnEvents'
  BY <1>1, <1>2 DEF NoSleepOnEvents
<1>13. Addressed'
  <2>1. HoldStep
    BY <1>2 DEF HoldStep
  <2>2. MailStep
    <3>1. ASSUME NEW v \in Task, NEW e \in Nodes(mail'[v])
          PROVE  e \in Nodes(mail[v]) \/ (e.kind = "exit" /\ told'[v] = "asked")
      BY <1>4, <1>5, <3>1
    <3>. QED BY <3>1 DEF MailStep
  <2>3. DoneStep
    BY <1>2 DEF DoneStep
  <2>4. DlStep
    BY <1>2 DEF DlStep
  <2>5. EvStep
    BY <1>2 DEF EvStep
  <2>. QED BY <1>1, <1>9, <2>1, <2>2, <2>3, <2>4, <2>5, AddressedKeeps
<1>14. BorderQuiet'
  <2>1. ASSUME NEW v \in Task, NEW x \in EventsIn(v)', x.kind \in {"call", "find"}
        PROVE  x \in EventsIn(v)
    <3>1. Nodes(mail'[v]) \subseteq Nodes(mail[v]) \cup {ExitEv}
      BY <1>5
    <3>2. \/ x \in Nodes(mail'[v]) \/ x \in Nodes(dl[v]) \/ x \in Nodes(done[v])
          \/ \E y \in Server : /\ TaskOf[y] = v
                               /\ x \in Nodes(ev[y]) \/ (x = hold[y] /\ x # None)
      BY <1>2, <2>1, EventsInDef
    <3>3. x # ExitEv
      BY <1>4, <2>1
    <3>. QED BY <3>1, <3>2, <3>3, EventsInDef
  <2>2. ASSUME NEW y \in Client, NEW v \in Task, v # TaskOf[y], NEW x \in EventsIn(v)',
               x.kind \in {"call", "find"}, x.src = y
        PROVE  told'[TaskOf[y]] = "no" /\ told'[v] = "no"
    <3>1. CallIn(y, v)
      BY <2>1, <2>2 DEF CallIn
    <3>2. v # u /\ TaskOf[y] # u
      BY <1>2, <2>2, <3>1 DEF Quiet
    <3>3. told[TaskOf[y]] = "no" /\ told[v] = "no" /\ TaskOf[y] \in Task
      BY <1>1, <2>2, <3>1, TaskFacts DEF BorderQuiet
    <3>. QED BY <1>5, <3>2, <3>3
  <2>. QED BY <2>2 DEF BorderQuiet, CallIn
<1>15. CallTracked'
  <2>1. PICK q : q = <<"mail", u>>
    OBVIOUS
  <2>2. \A v \in Task : <<"mail", v>> \in {q} \/ mail'[v] = mail[v]
    BY <1>5, <2>1
  <2>3. \A p \in Place \ {q} : ListAt(p)' = ListAt(p)
    BY <1>2, <2>2, OtherPlaces
  <2>4. ASSUME NEW x \in Client
        PROVE  /\ NoneIn(x, ListAt(q)) => NoneIn(x, ListAt(q)')
               /\ OneIn(x, ListAt(q)) => OneIn(x, ListAt(q)')
    <3>1. /\ ListAt(q) = (IF phase[u] = "over" THEN <<>> ELSE mail[u])
          /\ ListAt(q)' = (IF phase[u] = "over" THEN <<>> ELSE mail'[u])
      BY <1>2, <2>1, PlaceLists
    <3>2. ~Mine(x, ExitEv)
      BY <1>4 DEF Mine
    <3>3. /\ NoneIn(x, mail[u]) => NoneIn(x, mail'[u])
          /\ OneIn(x, mail[u]) => OneIn(x, mail'[u])
      <4>1. \A m \in Seq(Event) : /\ NoneIn(x, m) => NoneIn(x, Append(m, ExitEv))
                                  /\ OneIn(x, m) => OneIn(x, Append(m, ExitEv))
        BY <1>4, <3>2, AppendMine
      <4>2. CASE mail'[u] = mail[u]
        BY <4>2 DEF NoneIn, OneIn
      <4>3. CASE mail'[u] = Append(mail[u], ExitEv)
        BY <1>5, <4>1, <4>3
      <4>. QED BY <1>5, <4>2, <4>3
    <3>. QED BY <3>1, <3>3
  <2>5. \A x \in Client : /\ pc'[x] = "wait" <=> pc[x] = "wait"
                          /\ \A p \in Place : /\ NoneIn(x, ListAt(p)) => NoneIn(x, ListAt(p)')
                                              /\ OneIn(x, ListAt(p)) => OneIn(x, ListAt(p)')
    BY <1>2, <2>3, <2>4
  <2>. QED BY <1>1, <2>5, KeepTracked
<1>. QED BY <1>6, <1>8, <1>10, <1>11, <1>12, <1>13, <1>14, <1>15 DEF Core, EventInv, StartInv

-----------------------------------------------------------------------------
(* Receiving and finishing.                                                 *)

(* A server finds its list empty and is suspended.                          *)
LEMMA RecvSleepKeeps ==
    ASSUME Core, NEW f \in Server, tt_fiber_recv_ev(f), ~HasEvent(f)
    PROVE  Core'
<1>1. /\ TypeOK /\ OwnThread /\ NoSleepOnEvents /\ FirstRoundFresh /\ ServersStay
  BY DEF Core, EventInv, StartInv
<1>2. PICK t : t = TaskOf[f]
  OBVIOUS
<1>3. /\ run[t] = f /\ pc[f] \in {"go", "again"} /\ ev[f] = <<>>
      /\ pc' = [pc EXCEPT ![f] = "recv"] /\ Suspend(t)
      /\ UNCHANGED <<phase, turn, stored, told, ev, hold, mail, done, dl, ops, sent, got>>
  BY <1>2 DEF tt_fiber_recv_ev, HasEvent, control, lists
<1>4. f \in Fiber /\ t \in Task /\ f \notin Client /\ f # Main
  BY <1>2, TaskFacts
<1>5. pc' \in [Fiber -> Pc] /\ pc'[f] = "recv" /\ \A x \in Fiber \ {f} : pc'[x] = pc[x]
  BY <1>1, <1>3, <1>4 DEF TypeOK, Pc
<1>6. /\ OwnThread' /\ active' \in [Task -> Seq(Fiber)] /\ run' \in [Task -> Fiber \cup {Main}]
  BY <1>1, <1>3, <1>4, <1>5, SuspendKeeps DEF SameReady
<1>7. TypeOK'
  BY <1>1, <1>3, <1>5, <1>6 DEF TypeOK
<1>8. PcStep
  BY <1>3, <1>4, <1>5 DEF PcStep
<1>9. FirstRoundFresh' /\ ServersStay'
  BY <1>1, <1>3, <1>8, StartKeeps
<1>10. NoSleepOnEvents'
  BY <1>1, <1>3, <1>5 DEF NoSleepOnEvents
<1>11. CallTracked' /\ Addressed' /\ BorderQuiet' /\ FoundIsStarted'
  <2>1. TypeOK /\ CallTracked /\ Addressed /\ BorderQuiet /\ FoundIsStarted
    BY DEF Core, EventInv, StartInv
  <2>2. \A p \in Place \ {} : ListAt(p)' = ListAt(p)
    BY <1>3, OtherPlaces
  <2>3. \A x \in Client : pc'[x] = "wait" <=> pc[x] = "wait"
    BY <1>4, <1>5, TaskFacts
  <2>4. CallTracked'
    BY <2>1, <2>2, <2>3, KeepTracked
  <2>5. Addressed'
    BY <1>3, <2>1 DEF Addressed, ForTask, Finished
  <2>6. \A u \in Task : EventsIn(u)' = EventsIn(u) /\ Back(u)' = Back(u)
    BY <1>3 DEF EventsIn, Back
  <2>7. BorderQuiet'
    BY <1>3, <2>1, <2>6, BorderKeeps
  <2>8. FoundIsStarted'
    BY <1>3, <1>7, <1>8, <2>1, <2>6, PcStepNew, FoundKeeps
  <2>. QED BY <2>4, <2>5, <2>7, <2>8
<1>. QED BY <1>6, <1>7, <1>9, <1>10, <1>11 DEF Core, EventInv, StartInv

(* A server takes the first event of its list.                              *)
LEMMA RecvTakeKeeps ==
    ASSUME Core, NEW f \in Server, tt_fiber_recv_ev(f), HasEvent(f)
    PROVE  Core'
<1>1. /\ TypeOK /\ OwnThread /\ CallTracked /\ NoSleepOnEvents /\ Addressed /\ BorderQuiet
      /\ FirstRoundFresh /\ ServersStay /\ FoundIsStarted
  BY DEF Core, EventInv, StartInv
<1>2. PICK t, s, e : t = TaskOf[f] /\ s = ev[f] /\ e = Head(s)
  OBVIOUS
<1>3. /\ run[t] = f /\ pc[f] \in {"go", "again"} /\ hold[f] = None /\ s # <<>>
      /\ hold' = [hold EXCEPT ![f] = e] /\ ev' = [ev EXCEPT ![f] = Tail(s)]
      /\ pc' = [pc EXCEPT ![f] = "go"]
      /\ got' = (IF e.kind = "post" THEN [got EXCEPT ![<<e.src, f>>] = e.n] ELSE got)
      /\ UNCHANGED <<phase, turn, stored, told, run, active, mail, done, dl, ops, sent>>
  BY <1>2 DEF tt_fiber_recv_ev, HasEvent, control, lists
<1>4. f \in Fiber /\ t \in Task /\ f \notin Client /\ f # Main
  BY <1>2, TaskFacts
<1>5. s \in Seq(Event)
  BY <1>1, <1>2, <1>4 DEF TypeOK
<1>6. e \in Event /\ Tail(s) \in Seq(Event) /\ Nodes(Tail(s)) \subseteq Nodes(s) /\ e \in Nodes(s)
  BY <1>2, <1>3, <1>5, TailNodes, HeadIsNode
<1>7. e # None
  BY <1>6, EventFacts
<1>8. pc' \in [Fiber -> Pc] /\ pc'[f] = "go" /\ \A x \in Fiber \ {f} : pc'[x] = pc[x]
  BY <1>1, <1>3, <1>4 DEF TypeOK, Pc
<1>9. /\ hold' \in [Server -> Event \cup {None}] /\ hold'[f] = e
      /\ \A x \in Server \ {f} : hold'[x] = hold[x]
      /\ ev' \in [Fiber -> Seq(Event)] /\ ev'[f] = Tail(s) /\ \A x \in Fiber \ {f} : ev'[x] = ev[x]
  BY <1>1, <1>3, <1>4, <1>6 DEF TypeOK
<1>10. got' \in [Pair -> Nat]
  <2>1. got \in [Pair -> Nat]
    BY <1>1 DEF TypeOK
  <2>2. e.kind = "post" => e.n \in Nat
    BY <1>6, EventFacts
  <2>. QED BY <1>3, <2>1, <2>2
<1>11. TypeOK'
  BY <1>1, <1>3, <1>8, <1>9, <1>10 DEF TypeOK
<1>12. PcStep
  BY <1>3, <1>4, <1>8 DEF PcStep
<1>13. OwnThread'
  BY <1>1, <1>3, <1>8, NoSwitch DEF SameReady
<1>14. FirstRoundFresh' /\ ServersStay'
  BY <1>1, <1>3, <1>12, StartKeeps
<1>15. FoundIsStarted'
  <2>1. \A u \in Task : Back(u)' = Back(u)
    BY <1>3 DEF Back
  <2>. QED BY <1>1, <1>3, <1>11, <1>12, <2>1, PcStepNew, FoundKeeps
<1>16. NoSleepOnEvents'
  BY <1>1, <1>8, <1>9 DEF NoSleepOnEvents
<1>17. Addressed'
  <2>1. ToldStep
    BY <1>3 DEF ToldStep
  <2>2. MailStep
    BY <1>3 DEF MailStep
  <2>3. DoneStep
    BY <1>3 DEF DoneStep
  <2>4. DlStep
    BY <1>3 DEF DlStep
  <2>5. EvStep
    BY <1>2, <1>6, <1>9 DEF EvStep
  <2>6. HoldStep
    BY <1>2, <1>6, <1>9 DEF HoldStep
  <2>. QED BY <1>1, <2>1, <2>2, <2>3, <2>4, <2>5, <2>6, AddressedKeeps
<1>18. BorderQuiet'
  <2>1. ASSUME NEW u \in Task, NEW x \in EventsIn(u)' PROVE x \in EventsIn(u)
    <3>1. \/ x \in Nodes(mail[u]) \/ x \in Nodes(dl[u]) \/ x \in Nodes(done[u])
          \/ \E y \in Server : /\ TaskOf[y] = u
                               /\ x \in Nodes(ev'[y]) \/ (x = hold'[y] /\ x # None)
      BY <1>3, <2>1, EventsInDef
    <3>2. ASSUME NEW y \in Server, x \in Nodes(ev'[y]) \/ (x = hold'[y] /\ x # None)
          PROVE  x \in Nodes(ev[y]) \/ (x = hold[y] /\ x # None)
      <4>1. CASE y = f
        BY <1>2, <1>6, <1>9, <3>2, <4>1
      <4>2. CASE y # f
        <5>1. ev'[y] = ev[y] /\ hold'[y] = hold[y]
          BY <1>9, <4>2, TaskFacts
        <5>. QED BY <3>2, <5>1
      <4>. QED BY <4>1, <4>2
    <3>. QED BY <3>1, <3>2, EventsInDef
  <2>. QED BY <1>1, <1>3, <2>1, BorderKeeps
<1>19. CallTracked'
  <2>1. PICK p, q : p = <<"ev", f>> /\ q = <<"hold", f>>
    OBVIOUS
  <2>2. /\ p \in Place /\ q \in Place /\ p # q
        /\ ListAt(p) = s /\ ListAt(p)' = Tail(s)
    BY <1>2, <1>9, <2>1, PlaceLists
  <2>3. ListAt(q) = <<>> /\ ListAt(q)' = <<e>>
    BY <1>3, <1>7, <1>9, <2>1, PlaceLists
  <2>4. ListAt(q)' = Append(ListAt(q), e)
    BY <2>3
  <2>5. \A y \in Server : /\ <<"ev", y>> \in {p, q} \/ ev'[y] = ev[y]
                          /\ <<"hold", y>> \in {p, q} \/ hold'[y] = hold[y]
    BY <1>9, <2>1, TaskFacts
  <2>6. \A x \in Place \ {p, q} : ListAt(x)' = ListAt(x)
    BY <1>3, <2>5, OtherPlaces
  <2>7. \A x \in Client : pc'[x] = "wait" <=> pc[x] = "wait"
    BY <1>4, <1>8, TaskFacts
  <2>. QED BY <1>1, <1>2, <1>3, <2>2, <2>4, <2>6, <2>7, MoveTracked
<1>. QED BY <1>11, <1>13, <1>14, <1>15, <1>16, <1>17, <1>18, <1>19 DEF Core, EventInv, StartInv

(* A step that moves events between lists of the tasks they belong to.      *)
LEMMA MoveKeeps ==
    ASSUME Core, TypeOK', OwnThread', CallTracked', NoSleepOnEvents', FoundIsStarted', PcStep,
           turn' = turn, told' = told,
           \A t \in Task : /\ phase'[t] \in {"created", "start"} <=> phase[t] \in {"created", "start"}
                           /\ phase'[t] = "over" <=> phase[t] = "over",
           MailStep, DoneStep, DlStep, EvStep, HoldStep,
           \A t \in Task : \A e \in EventsIn(t)' :
               e.kind \in {"call", "find"} => e \in EventsIn(t) \/ t = TaskOf[e.src]
    PROVE  Core'
<1>1. TypeOK /\ Addressed /\ BorderQuiet /\ FirstRoundFresh /\ ServersStay
  BY DEF Core, EventInv, StartInv
<1>2. FirstRoundFresh' /\ ServersStay'
  BY <1>1, StartKeeps
<1>3. ToldStep
  BY DEF ToldStep
<1>4. Addressed'
  BY <1>1, <1>3, AddressedKeeps
<1>5. BorderQuiet'
  BY <1>1, BorderKeeps
<1>. QED BY <1>2, <1>4, <1>5 DEF Core, EventInv, StartInv

(* The source of an event that waits somewhere waits as well.               *)
LEMMA SourceWaits ==
    ASSUME TypeOK, CallTracked, ServersStay, NEW p \in Place, NEW e \in Nodes(ListAt(p)),
           e.kind \in {"call", "find"}
    PROVE  e.src \in Client /\ pc[e.src] = "wait" /\ phase[TaskOf[e.src]] # "over"
<1>1. ListAt(p) \in Seq(Event)
  BY ListsTyped
<1>2. e \in Event
  BY <1>1 DEF Nodes
<1>3. e.src \in Client /\ e.src \in Fiber
  BY <1>2, EventFacts, TaskFacts
<1>4. ~NoneIn(e.src, ListAt(p))
  BY DEF Nodes, NoneIn, Mine
<1>5. pc[e.src] = "wait"
  BY <1>3, <1>4 DEF CallTracked
<1>. QED BY <1>3, <1>5 DEF ServersStay

(* tt_fiber_finish().                                                       *)
LEMMA FinishKeeps ==
    ASSUME Core, NEW f \in Server, tt_fiber_finish(f)
    PROVE  Core'
<1>1. /\ TypeOK /\ OwnThread /\ CallTracked /\ NoSleepOnEvents /\ Addressed
      /\ FirstRoundFresh /\ ServersStay /\ FoundIsStarted
  BY DEF Core, EventInv, StartInv
<1>2. PICK t, e, c, u : t = TaskOf[f] /\ e = hold[f] /\ c = e.src /\ u = TaskOf[c]
  OBVIOUS
<1>3. /\ run[t] = f /\ pc[f] = "go" /\ e # None /\ hold' = [hold EXCEPT ![f] = None]
      /\ UNCHANGED <<phase, turn, stored, told, ev, mail, dl, ops, sent, got>>
      /\ IF e.kind = "call" /\ t = u
         THEN pc' = [pc EXCEPT ![c] = Awake(pc[c])] /\ Resume(t, c, FALSE)
         ELSE UNCHANGED <<pc, active, run>>
      /\ done' = IF e.kind = "call" /\ t # u
                 THEN [done EXCEPT ![u] = Append(done[u], e)] ELSE done
  BY <1>2 DEF tt_fiber_finish, control, counts, tt_list_push_tail, SameSched
<1>4. f \in Fiber /\ t \in Task /\ f \notin Client /\ f # Main
  BY <1>2, TaskFacts
<1>5. e \in Event /\ e.kind \in {"call", "post"}
  BY <1>1, <1>2, <1>3 DEF TypeOK, Addressed
<1>6. c \in Client /\ c \in Fiber /\ c \notin Server /\ c # f /\ u \in Task /\ c \in Nodes(Tfl[u])
  BY <1>2, <1>4, <1>5, EventFacts, TaskFacts
<1>7. /\ hold' \in [Server -> Event \cup {None}] /\ hold'[f] = None
      /\ \A x \in Server \ {f} : hold'[x] = hold[x]
  BY <1>1, <1>3 DEF TypeOK
<1>8. PICK p : p = <<"hold", f>>
  OBVIOUS
<1>9. /\ p \in Place /\ ListAt(p) = <<e>> /\ ListAt(p)' = <<>>
  BY <1>2, <1>3, <1>7, <1>8, PlaceLists
<1>10. ListAt(p) # <<>> /\ Head(ListAt(p)) = e /\ ListAt(p)' = Tail(ListAt(p))
  BY <1>9
<1>11. e.kind = "call" => pc[c] = "wait" /\ phase[u] # "over"
  <2>1. e \in Nodes(ListAt(p))
    BY <1>9 DEF Nodes
  <2>. QED BY <1>1, <1>2, <1>9, <2>1, SourceWaits
<1>12. /\ pc' \in [Fiber -> Pc] /\ \A x \in Fiber \ {c} : pc'[x] = pc[x]
       /\ pc'[c] = (IF e.kind = "call" /\ t = u THEN "go" ELSE pc[c])
  BY <1>1, <1>3, <1>6, <1>11 DEF TypeOK, Awake, Pc
<1>13. /\ OwnThread' /\ active' \in [Task -> Seq(Fiber)] /\ run' \in [Task -> Fiber \cup {Main}]
  <2>1. CASE e.kind = "call" /\ t = u
    <3>1. Resume(t, c, FALSE) /\ pc'[c] = "go" /\ pc'[run[t]] = "go" /\ c # run[t]
      BY <1>3, <1>4, <1>6, <1>12, <2>1
    <3>2. c \in Nodes(Tfl[t])
      BY <1>6, <2>1
    <3>. QED BY <1>1, <1>4, <1>12, <3>1, <3>2, ResumeKeeps DEF SameReady
  <2>2. CASE ~(e.kind = "call" /\ t = u)
    <3>1. pc' = pc /\ active' = active /\ run' = run
      BY <1>3, <2>2
    <3>. QED BY <1>1, <3>1, NoSwitch DEF SameReady, TypeOK
  <2>. QED BY <2>1, <2>2
<1>14. /\ done' \in [Task -> Seq(Event)] /\ done[u] \in Seq(Event)
       /\ \A v \in Task \ {u} : done'[v] = done[v]
       /\ IF e.kind = "call" /\ t # u
          THEN done'[u] = Append(done[u], e) /\ Nodes(done'[u]) = Nodes(done[u]) \cup {e}
          ELSE done'[u] = done[u]
  <2>1. done \in [Task -> Seq(Event)] /\ done[u] \in Seq(Event)
    BY <1>1, <1>6 DEF TypeOK
  <2>2. Append(done[u], e) \in Seq(Event) /\ Nodes(Append(done[u], e)) = Nodes(done[u]) \cup {e}
    BY <1>5, <2>1, AppendEvent
  <2>. QED BY <1>3, <1>6, <2>1, <2>2
<1>15. TypeOK'
  BY <1>1, <1>3, <1>7, <1>12, <1>13, <1>14 DEF TypeOK
<1>16. PcStep
  BY <1>6, <1>11, <1>12 DEF PcStep
<1>17. \A v \in Task : \A x \in Nodes(done'[v]) :
           x \in Nodes(done[v]) \/ (x = e /\ v = u /\ e.kind = "call")
  BY <1>14
<1>18. FoundIsStarted'
  <2>1. \A v \in Task : \A x \in Back(v)' : x.kind = "find" => x \in Back(v)
    <3>1. ASSUME NEW v \in Task, NEW x \in Back(v)', x.kind = "find" PROVE x \in Back(v)
      <4>1. x \in Nodes(done'[v]) \cup (IF phase[v] = "done" THEN Nodes(dl[v]) ELSE {})
        BY <1>3, <3>1 DEF Back
      <4>. QED BY <1>17, <3>1, <4>1 DEF Back
    <3>. QED BY <3>1
  <2>. QED BY <1>1, <1>3, <1>15, <1>16, <2>1, PcStepNew, FoundKeeps
<1>19. NoSleepOnEvents'
  BY <1>1, <1>3, <1>12 DEF NoSleepOnEvents
<1>20. MailStep /\ DlStep /\ EvStep
  <2>1. MailStep
    BY <1>3 DEF MailStep
  <2>2. DlStep
    BY <1>3 DEF DlStep
  <2>3. EvStep
    BY <1>3 DEF EvStep
  <2>. QED BY <2>1, <2>2, <2>3
<1>21. DoneStep
  BY <1>2, <1>17 DEF DoneStep, Finished
<1>22. HoldStep
  BY <1>7 DEF HoldStep
<1>23. \A v \in Task : \A x \in EventsIn(v)' : x \in EventsIn(v) \/ v = TaskOf[x.src]
  <2>1. ASSUME NEW v \in Task, NEW x \in EventsIn(v)' PROVE x \in EventsIn(v) \/ v = TaskOf[x.src]
    <3>1. \/ x \in Nodes(mail[v]) \/ x \in Nodes(dl[v]) \/ x \in Nodes(done'[v])
          \/ \E y \in Server : /\ TaskOf[y] = v
                               /\ x \in Nodes(ev[y]) \/ (x = hold'[y] /\ x # None)
      BY <1>3, <2>1, EventsInDef
    <3>2. \A y \in Server : x = hold'[y] /\ x # None => x = hold[y]
      BY <1>7
    <3>. QED BY <1>2, <1>17, <3>1, <3>2, EventsInDef
  <2>. QED BY <2>1
<1>24. CallTracked'
  <2>1. \A y \in Server : <<"hold", y>> \in {p} \/ hold'[y] = hold[y]
    BY <1>7, <1>8
  <2>2. CASE e.kind = "call" /\ t # u
    <3>1. PICK q : q = <<"done", u>>
      OBVIOUS
    <3>2. q \in Place /\ p # q /\ ListAt(q) = done[u] /\ ListAt(q)' = done'[u]
      BY <1>3, <1>6, <1>8, <1>11, <2>2, <3>1, PlaceLists
    <3>3. ListAt(q)' = Append(ListAt(q), e)
      BY <1>14, <2>2, <3>2
    <3>4. /\ \A v \in Task : <<"done", v>> \in {p, q} \/ done'[v] = done[v]
          /\ \A y \in Server : <<"hold", y>> \in {p, q} \/ hold'[y] = hold[y]
      BY <1>14, <2>1, <3>1
    <3>5. \A x \in Place \ {p, q} : ListAt(x)' = ListAt(x)
      BY <1>3, <3>4, OtherPlaces
    <3>6. \A x \in Client : pc'[x] = "wait" <=> pc[x] = "wait"
      BY <1>3, <2>2
    <3>. QED BY <1>1, <1>9, <1>10, <3>2, <3>3, <3>5, <3>6, MoveTracked
  <2>3. CASE ~(e.kind = "call" /\ t # u)
    <3>1. \A v \in Task : done'[v] = done[v]
      BY <1>14, <2>3
    <3>2. \A x \in Place \ {p} : ListAt(x)' = ListAt(x)
      BY <1>3, <2>1, <3>1, OtherPlaces
    <3>3. \A x \in Client : IF Mine(x, e) THEN pc'[x] # "wait"
                            ELSE pc'[x] = "wait" <=> pc[x] = "wait"
      <4>1. ASSUME NEW x \in Client
            PROVE  IF Mine(x, e) THEN pc'[x] # "wait" ELSE pc'[x] = "wait" <=> pc[x] = "wait"
        <5>1. x \in Fiber
          BY TaskFacts
        <5>2. CASE e.kind = "call"
          <6>1. Mine(x, e) <=> x = c
            BY <1>2, <5>2 DEF Mine
          <6>. QED BY <1>12, <2>3, <5>1, <5>2, <6>1
        <5>3. CASE e.kind # "call"
          <6>1. ~Mine(x, e)
            BY <1>5, <5>3 DEF Mine
          <6>. QED BY <1>3, <5>3, <6>1
        <5>. QED BY <5>2, <5>3
      <4>. QED BY <4>1
    <3>. QED BY <1>1, <1>9, <1>10, <3>2, <3>3, DropTracked
  <2>. QED BY <2>2, <2>3
<1>. QED BY <1>3, <1>13, <1>15, <1>16, <1>18, <1>19, <1>20, <1>21, <1>22, <1>23, <1>24, MoveKeeps

-----------------------------------------------------------------------------
(* The handlers of the poller.                                              *)

(* tt_io_poller_run() takes the list of a channel.                          *)
LEMMA PollKeeps ==
    ASSUME Core, NEW t \in Task, PollMail(t) \/ PollDone(t)
    PROVE  Core'
<1>1. /\ TypeOK /\ OwnThread /\ CallTracked /\ NoSleepOnEvents /\ Addressed /\ FoundIsStarted
  BY DEF Core, EventInv, StartInv
<1>2. PICK ch, list :
        /\ phase[t] = "loop" /\ phase' = [phase EXCEPT ![t] = ch] /\ dl' = [dl EXCEPT ![t] = list]
        /\ UNCHANGED <<turn, stored, told, run, active, pc, ev, hold, ops, sent, got>>
        /\ \/ /\ ch = "mail" /\ list = mail[t]
              /\ mail' = [mail EXCEPT ![t] = <<>>] /\ done' = done
           \/ /\ ch = "done" /\ list = done[t]
              /\ done' = [done EXCEPT ![t] = <<>>] /\ mail' = mail
  <2>1. CASE PollMail(t)
    BY <2>1 DEF PollMail, Poll, Polls, MainRuns, counts
  <2>2. CASE PollDone(t)
    BY <2>2 DEF PollDone, Poll, Polls, MainRuns, counts
  <2>. QED BY <2>1, <2>2
<1>3. /\ phase' \in [Task -> Phase] /\ phase'[t] = ch /\ ch \in {"mail", "done"}
      /\ \A v \in Task \ {t} : phase'[v] = phase[v]
  BY <1>1, <1>2 DEF TypeOK, Phase
<1>4. /\ mail \in [Task -> Seq(Event)] /\ done \in [Task -> Seq(Event)] /\ dl \in [Task -> Seq(Event)]
      /\ list \in Seq(Event) /\ <<>> \in Seq(Event) /\ Nodes(<<>>) = {}
  BY <1>1, <1>2 DEF TypeOK, Nodes
<1>5. /\ mail' \in [Task -> Seq(Event)] /\ done' \in [Task -> Seq(Event)]
      /\ dl' \in [Task -> Seq(Event)] /\ dl'[t] = list
      /\ \A v \in Task \ {t} : mail'[v] = mail[v] /\ done'[v] = done[v] /\ dl'[v] = dl[v]
      /\ \/ ch = "mail" /\ list = mail[t] /\ mail'[t] = <<>> /\ done'[t] = done[t]
         \/ ch = "done" /\ list = done[t] /\ done'[t] = <<>> /\ mail'[t] = mail[t]
  BY <1>2, <1>4
<1>6. TypeOK'
  BY <1>1, <1>2, <1>3, <1>5 DEF TypeOK
<1>7. PcStep
  BY <1>2 DEF PcStep
<1>8. OwnThread'
  BY <1>1, <1>2, NoSwitch DEF SameReady
<1>9. NoSleepOnEvents'
  BY <1>1, <1>2 DEF NoSleepOnEvents
<1>10. dl[t] = <<>>
  BY <1>1, <1>2 DEF Addressed
<1>11. \A v \in Task : /\ Nodes(mail'[v]) \subseteq Nodes(mail[v])
                       /\ Nodes(done'[v]) \subseteq Nodes(done[v])
                       /\ Nodes(dl'[v]) \subseteq Nodes(dl[v]) \cup Nodes(mail[v]) \cup Nodes(done[v])
  BY <1>4, <1>5
<1>12. FoundIsStarted'
  <2>1. ASSUME NEW v \in Task, NEW x \in Back(v)' PROVE x \in Back(v)
    <3>1. x \in Nodes(done'[v]) \cup (IF phase'[v] = "done" THEN Nodes(dl'[v]) ELSE {})
      BY <2>1 DEF Back
    <3>2. CASE v = t
      BY <1>3, <1>4, <1>5, <3>1, <3>2 DEF Back
    <3>3. CASE v # t
      BY <1>3, <1>5, <3>1, <3>3 DEF Back
    <3>. QED BY <3>2, <3>3
  <2>. QED BY <1>1, <1>2, <1>6, <1>7, <2>1, PcStepNew, FoundKeeps
<1>13. MailStep /\ DoneStep
  BY <1>11 DEF MailStep, DoneStep
<1>14. DlStep
  BY <1>3, <1>5 DEF DlStep
<1>15. EvStep /\ HoldStep
  BY <1>2 DEF EvStep, HoldStep
<1>16. \A v \in Task : \A x \in EventsIn(v)' : x \in EventsIn(v)
  <2>1. ASSUME NEW v \in Task, NEW x \in EventsIn(v)' PROVE x \in EventsIn(v)
    <3>1. \/ x \in Nodes(mail'[v]) \/ x \in Nodes(dl'[v]) \/ x \in Nodes(done'[v])
          \/ \E y \in Server : /\ TaskOf[y] = v
                               /\ x \in Nodes(ev[y]) \/ (x = hold[y] /\ x # None)
      BY <1>2, <2>1, EventsInDef
    <3>. QED BY <1>11, <3>1, EventsInDef
  <2>. QED BY <2>1
<1>17. CallTracked'
  <2>1. PICK p, q : p = <<ch, t>> /\ q = <<"dl", t>>
    OBVIOUS
  <2>2. phase[t] # "over" /\ phase'[t] # "over"
    BY <1>2, <1>3
  <2>3. q \in Place /\ ListAt(q) = <<>> /\ ListAt(q)' = list
    BY <1>5, <1>10, <2>1, <2>2, PlaceLists
  <2>4. p \in Place /\ ListAt(p) = list /\ ListAt(p)' = <<>> /\ p # q
    <3>1. CASE ch = "mail"
      BY <1>5, <2>1, <2>2, <3>1, PlaceLists
    <3>2. CASE ch = "done"
      BY <1>5, <2>1, <2>2, <3>2, PlaceLists
    <3>. QED BY <1>3, <3>1, <3>2
  <2>5. \A v \in Task : /\ <<"mail", v>> \in {p, q} \/ mail'[v] = mail[v]
                        /\ <<"done", v>> \in {p, q} \/ done'[v] = done[v]
                        /\ <<"dl", v>> \in {p, q} \/ dl'[v] = dl[v]
    BY <1>5, <2>1
  <2>6. \A v \in Task : phase'[v] = "over" <=> phase[v] = "over"
    BY <1>3, <2>2
  <2>7. \A x \in Place \ {p, q} : ListAt(x)' = ListAt(x)
    BY <1>2, <2>5, <2>6, OtherPlaces
  <2>8. ListAt(q)' = ListAt(p)
    BY <2>3, <2>4
  <2>9. \A x \in Client : pc'[x] = "wait" <=> pc[x] = "wait"
    BY <1>2
  <2>. QED BY <1>1, <2>3, <2>4, <2>7, <2>8, <2>9, ShiftTracked
<1>18. \A v \in Task : /\ phase'[v] \in {"created", "start"} <=> phase[v] \in {"created", "start"}
                       /\ phase'[v] = "over" <=> phase[v] = "over"
  BY <1>2, <1>3
<1>. QED BY <1>2, <1>6, <1>7, <1>8, <1>9, <1>12, <1>13, <1>14, <1>15, <1>16, <1>17, <1>18, MoveKeeps

(* __poller_io() gives an event to a fiber of its task.                     *)
LEMMA DeliverKeeps ==
    ASSUME Core, NEW t \in Task, DeliverMail(t)
    PROVE  Core'
<1>1. /\ TypeOK /\ OwnThread /\ CallTracked /\ NoSleepOnEvents /\ Addressed /\ FoundIsStarted
  BY DEF Core, EventInv, StartInv
<1>2. PICK s, e, g : s = dl[t] /\ e = Head(s) /\ g = e.dst
  OBVIOUS
<1>3. /\ phase[t] = "mail" /\ run[t] = Main /\ s # <<>> /\ e.kind \in {"call", "post"}
      /\ dl' = [dl EXCEPT ![t] = Tail(s)] /\ ev' = [ev EXCEPT ![g] = Append(ev[g], e)]
      /\ IF pc[g] = "recv"
         THEN pc' = [pc EXCEPT ![g] = Awake(pc[g])] /\ Resume(t, g, FALSE)
         ELSE UNCHANGED <<pc, active, run>>
      /\ UNCHANGED <<phase, turn, stored, told, hold, mail, done, ops, sent, got>>
  BY <1>2 DEF DeliverMail, Takes, MainRuns, AddEv, Recving, control, counts, tt_list_push_tail
<1>4. s \in Seq(Event)
  BY <1>1, <1>2 DEF TypeOK
<1>5. e \in Event /\ e \in Nodes(s) /\ Tail(s) \in Seq(Event) /\ Nodes(Tail(s)) \subseteq Nodes(s)
  BY <1>2, <1>3, <1>4, TailNodes, HeadIsNode
<1>6. g \in Server /\ TaskOf[g] = t
  BY <1>1, <1>2, <1>3, <1>5, EventFacts DEF Addressed, ForTask
<1>7. g \in Fiber /\ g \notin Client /\ g # Main /\ g \in Nodes(Tfl[t])
  BY <1>6, TaskFacts
<1>8. /\ pc' \in [Fiber -> Pc] /\ \A x \in Fiber \ {g} : pc'[x] = pc[x]
      /\ pc'[g] = (IF pc[g] = "recv" THEN "again" ELSE pc[g])
  BY <1>1, <1>3, <1>7 DEF TypeOK, Awake, Pc
<1>9. /\ OwnThread' /\ active' \in [Task -> Seq(Fiber)] /\ run' \in [Task -> Fiber \cup {Main}]
  <2>1. CASE pc[g] = "recv"
    <3>1. Resume(t, g, FALSE) /\ pc'[g] = "again" /\ g # run[t]
      BY <1>3, <1>7, <1>8, <2>1
    <3>. QED BY <1>1, <1>3, <1>7, <1>8, <3>1, ResumeKeeps DEF SameReady
  <2>2. CASE pc[g] # "recv"
    <3>1. pc' = pc /\ active' = active /\ run' = run
      BY <1>3, <2>2
    <3>. QED BY <1>1, <3>1, NoSwitch DEF SameReady, TypeOK
  <2>. QED BY <2>1, <2>2
<1>10. /\ dl' \in [Task -> Seq(Event)] /\ dl'[t] = Tail(s) /\ \A v \in Task \ {t} : dl'[v] = dl[v]
  BY <1>1, <1>3, <1>5 DEF TypeOK
<1>11. /\ ev' \in [Fiber -> Seq(Event)] /\ ev'[g] = Append(ev[g], e)
       /\ Nodes(ev'[g]) = Nodes(ev[g]) \cup {e} /\ \A x \in Fiber \ {g} : ev'[x] = ev[x]
  <2>1. ev \in [Fiber -> Seq(Event)] /\ ev[g] \in Seq(Event)
    BY <1>1, <1>7 DEF TypeOK
  <2>2. Append(ev[g], e) \in Seq(Event) /\ Nodes(Append(ev[g], e)) = Nodes(ev[g]) \cup {e}
    BY <1>5, <2>1, AppendEvent
  <2>. QED BY <1>3, <1>7, <2>1, <2>2
<1>12. TypeOK'
  BY <1>1, <1>3, <1>8, <1>9, <1>10, <1>11 DEF TypeOK
<1>13. PcStep
  BY <1>8 DEF PcStep
<1>14. NoSleepOnEvents'
  BY <1>1, <1>8, <1>11 DEF NoSleepOnEvents
<1>15. \A v \in Task : Nodes(dl'[v]) \subseteq Nodes(dl[v])
  BY <1>2, <1>5, <1>10
<1>16. FoundIsStarted'
  <2>1. \A v \in Task : \A x \in Back(v)' : x \in Back(v)
    BY <1>3, <1>15 DEF Back
  <2>. QED BY <1>1, <1>3, <1>12, <1>13, <2>1, PcStepNew, FoundKeeps
<1>17. MailStep /\ DoneStep /\ HoldStep
  BY <1>3 DEF MailStep, DoneStep, HoldStep
<1>18. DlStep
  BY <1>3, <1>10, <1>15 DEF DlStep
<1>19. EvStep
  BY <1>2, <1>3, <1>6, <1>11 DEF EvStep
<1>20. \A v \in Task : \A x \in EventsIn(v)' : x \in EventsIn(v)
  <2>1. ASSUME NEW v \in Task, NEW x \in EventsIn(v)' PROVE x \in EventsIn(v)
    <3>1. \/ x \in Nodes(mail[v]) \/ x \in Nodes(dl'[v]) \/ x \in Nodes(done[v])
          \/ \E y \in Server : /\ TaskOf[y] = v
                               /\ x \in Nodes(ev'[y]) \/ (x = hold[y] /\ x # None)
      BY <1>3, <2>1, EventsInDef
    <3>2. \A y \in Server : x \in Nodes(ev'[y]) => x \in Nodes(ev[y]) \/ (y = g /\ x \in Nodes(dl[t]))
      <4>1. \A y \in Server \ {g} : ev'[y] = ev[y]
        BY <1>11, TaskFacts
      <4>2. x \in Nodes(ev'[g]) => x \in Nodes(ev[g]) \/ x \in Nodes(dl[t])
        BY <1>2, <1>5, <1>11
      <4>3. ASSUME NEW y \in Server, x \in Nodes(ev'[y])
            PROVE  x \in Nodes(ev[y]) \/ (y = g /\ x \in Nodes(dl[t]))
        <5>1. CASE y = g
          BY <4>2, <4>3, <5>1
        <5>2. CASE y # g
          <6>1. ev'[y] = ev[y]
            BY <4>1, <5>2
          <6>. QED BY <4>3, <6>1
        <5>. QED BY <5>1, <5>2
      <4>. QED BY <4>3
    <3>. QED BY <1>6, <1>15, <3>1, <3>2, EventsInDef
  <2>. QED BY <2>1
<1>21. CallTracked'
  <2>1. PICK p, q : p = <<"dl", t>> /\ q = <<"ev", g>>
    OBVIOUS
  <2>2. p \in Place /\ ListAt(p) = s /\ ListAt(p)' = Tail(s)
    BY <1>2, <1>3, <1>10, <2>1, PlaceLists
  <2>3. q \in Place /\ ListAt(q) = ev[g] /\ ListAt(q)' = ev'[g] /\ p # q
    BY <1>6, <2>1, PlaceLists
  <2>4. ListAt(q)' = Append(ListAt(q), e)
    BY <1>11, <2>3
  <2>5. /\ \A v \in Task : <<"dl", v>> \in {p, q} \/ dl'[v] = dl[v]
        /\ \A y \in Server : <<"ev", y>> \in {p, q} \/ ev'[y] = ev[y]
    BY <1>10, <1>11, <2>1, TaskFacts
  <2>6. \A x \in Place \ {p, q} : ListAt(x)' = ListAt(x)
    BY <1>3, <2>5, OtherPlaces
  <2>7. \A x \in Client : pc'[x] = "wait" <=> pc[x] = "wait"
    BY <1>7, <1>8, TaskFacts
  <2>. QED BY <1>1, <1>2, <1>3, <2>2, <2>3, <2>4, <2>6, <2>7, MoveTracked
<1>. QED BY <1>3, <1>9, <1>12, <1>13, <1>14, <1>16, <1>17, <1>18, <1>19, <1>20, <1>21, MoveKeeps

(* tt_task_poller_io() answers a lookup.                                    *)
LEMMA DoFindKeeps ==
    ASSUME Core, NEW t \in Task, __do_find_fiber(t)
    PROVE  Core'
<1>1. /\ TypeOK /\ OwnThread /\ CallTracked /\ NoSleepOnEvents /\ Addressed
      /\ FirstRoundFresh /\ ServersStay /\ FoundIsStarted
  BY DEF Core, EventInv, StartInv
<1>2. PICK s, e, u : s = dl[t] /\ e = Head(s) /\ u = TaskOf[e.src]
  OBVIOUS
<1>3. /\ phase[t] = "mail" /\ s # <<>> /\ e.kind = "find"
      /\ dl' = [dl EXCEPT ![t] = Tail(s)] /\ done' = [done EXCEPT ![u] = Append(done[u], e)]
      /\ UNCHANGED <<phase, turn, stored, told, run, active, pc, ev, hold, mail, ops, sent, got>>
  BY <1>2 DEF __do_find_fiber, Takes, MainRuns, control, counts, tt_list_push_tail
<1>4. s \in Seq(Event)
  BY <1>1, <1>2 DEF TypeOK
<1>5. e \in Event /\ e \in Nodes(s) /\ Tail(s) \in Seq(Event) /\ Nodes(Tail(s)) \subseteq Nodes(s)
  BY <1>2, <1>3, <1>4, TailNodes, HeadIsNode
<1>6. PICK p : p = <<"dl", t>>
  OBVIOUS
<1>7. /\ dl' \in [Task -> Seq(Event)] /\ dl'[t] = Tail(s) /\ \A v \in Task \ {t} : dl'[v] = dl[v]
  BY <1>1, <1>3, <1>5 DEF TypeOK
<1>8. p \in Place /\ ListAt(p) = s /\ ListAt(p)' = Tail(s)
  BY <1>2, <1>3, <1>6, <1>7, PlaceLists
<1>9. e.src \in Client /\ u \in Task /\ phase[u] # "over"
  BY <1>1, <1>2, <1>3, <1>5, <1>8, SourceWaits, TaskFacts
<1>10. e.dst \in Nodes(Tfl[t]) /\ TaskOf[e.dst] = t
  BY <1>1, <1>2, <1>3, <1>5, EventFacts, TaskFacts DEF Addressed, ForTask
<1>11. /\ done' \in [Task -> Seq(Event)] /\ done'[u] = Append(done[u], e)
       /\ Nodes(done'[u]) = Nodes(done[u]) \cup {e} /\ \A v \in Task \ {u} : done'[v] = done[v]
  <2>1. done \in [Task -> Seq(Event)] /\ done[u] \in Seq(Event)
    BY <1>1, <1>9 DEF TypeOK
  <2>2. Append(done[u], e) \in Seq(Event) /\ Nodes(Append(done[u], e)) = Nodes(done[u]) \cup {e}
    BY <1>5, <2>1, AppendEvent
  <2>. QED BY <1>3, <1>9, <2>1, <2>2
<1>12. TypeOK'
  BY <1>1, <1>3, <1>7, <1>11 DEF TypeOK
<1>13. PcStep
  BY <1>3 DEF PcStep
<1>14. OwnThread'
  BY <1>1, <1>3, NoSwitch DEF SameReady
<1>15. NoSleepOnEvents'
  BY <1>1, <1>3 DEF NoSleepOnEvents
<1>16. /\ \A v \in Task : Nodes(dl'[v]) \subseteq Nodes(dl[v])
       /\ \A v \in Task : \A x \in Nodes(done'[v]) : x \in Nodes(done[v]) \/ (x = e /\ v = u)
  BY <1>2, <1>5, <1>7, <1>11
<1>17. FoundIsStarted'
  <2>1. pc[e.dst] # "new"
    BY <1>1, <1>3, <1>10 DEF FirstRoundFresh
  <2>2. ASSUME NEW v \in Task, NEW x \in Back(v)' PROVE x \in Back(v) \/ x = e
    <3>1. x \in Nodes(done'[v]) \cup (IF phase[v] = "done" THEN Nodes(dl'[v]) ELSE {})
      BY <1>3, <2>2 DEF Back
    <3>. QED BY <1>16, <3>1 DEF Back
  <2>3. ASSUME NEW v \in Task, NEW x \in Back(v)', x.kind = "find"
        PROVE  pc[x.dst] # "new"
    <3>1. CASE x \in Back(v)
      BY <1>1, <2>3, <3>1 DEF FoundIsStarted, Back
    <3>2. CASE x = e
      BY <2>1, <3>2
    <3>. QED BY <2>2, <2>3, <3>1, <3>2
  <2>. QED BY <1>3, <2>3 DEF FoundIsStarted, Back
<1>18. MailStep /\ EvStep /\ HoldStep
  BY <1>3 DEF MailStep, EvStep, HoldStep
<1>19. DlStep
  BY <1>3, <1>7, <1>16 DEF DlStep
<1>20. DoneStep
  BY <1>2, <1>3, <1>16 DEF DoneStep, Finished
<1>21. \A v \in Task : \A x \in EventsIn(v)' : x \in EventsIn(v) \/ v = TaskOf[x.src]
  <2>1. ASSUME NEW v \in Task, NEW x \in EventsIn(v)' PROVE x \in EventsIn(v) \/ v = TaskOf[x.src]
    <3>1. \/ x \in Nodes(mail[v]) \/ x \in Nodes(dl'[v]) \/ x \in Nodes(done'[v])
          \/ \E y \in Server : /\ TaskOf[y] = v
                               /\ x \in Nodes(ev[y]) \/ (x = hold[y] /\ x # None)
      BY <1>3, <2>1, EventsInDef
    <3>. QED BY <1>2, <1>16, <3>1, EventsInDef
  <2>. QED BY <2>1
<1>22. CallTracked'
  <2>1. PICK q : q = <<"done", u>>
    OBVIOUS
  <2>2. q \in Place /\ ListAt(q) = done[u] /\ ListAt(q)' = done'[u] /\ p # q
    BY <1>3, <1>6, <1>9, <2>1, PlaceLists
  <2>3. ListAt(q)' = Append(ListAt(q), e)
    BY <1>11, <2>2
  <2>4. \A v \in Task : /\ <<"dl", v>> \in {p, q} \/ dl'[v] = dl[v]
                        /\ <<"done", v>> \in {p, q} \/ done'[v] = done[v]
    BY <1>6, <1>7, <1>11, <2>1
  <2>5. \A x \in Place \ {p, q} : ListAt(x)' = ListAt(x)
    BY <1>3, <2>4, OtherPlaces
  <2>6. \A x \in Client : pc'[x] = "wait" <=> pc[x] = "wait"
    BY <1>3
  <2>. QED BY <1>1, <1>2, <1>3, <1>8, <2>2, <2>3, <2>5, <2>6, MoveTracked
<1>. QED BY <1>3, <1>12, <1>13, <1>14, <1>15, <1>17, <1>18, <1>19, <1>20, <1>21, <1>22, MoveKeeps

(* __worker_io() resumes the source of a finished event.                    *)
LEMMA HandleDoneKeeps ==
    ASSUME Core, NEW t \in Task, HandleDone(t)
    PROVE  Core'
<1>1. /\ TypeOK /\ OwnThread /\ CallTracked /\ NoSleepOnEvents /\ Addressed
      /\ ServersStay /\ FoundIsStarted
  BY DEF Core, EventInv, StartInv
<1>2. PICK s, e, c : s = dl[t] /\ e = Head(s) /\ c = e.src
  OBVIOUS
<1>3. /\ phase[t] = "done" /\ run[t] = Main /\ s # <<>> /\ e.kind \in {"call", "find"}
      /\ dl' = [dl EXCEPT ![t] = Tail(s)]
      /\ pc' = [pc EXCEPT ![c] = Awake(pc[c])] /\ Resume(t, c, TRUE)
      /\ UNCHANGED <<phase, turn, stored, told, ev, hold, mail, done, ops, sent, got>>
  BY <1>2 DEF HandleDone, Takes, MainRuns, control, counts
<1>4. s \in Seq(Event)
  BY <1>1, <1>2 DEF TypeOK
<1>5. e \in Event /\ e \in Nodes(s) /\ Tail(s) \in Seq(Event) /\ Nodes(Tail(s)) \subseteq Nodes(s)
  BY <1>2, <1>3, <1>4, TailNodes, HeadIsNode
<1>6. PICK p : p = <<"dl", t>>
  OBVIOUS
<1>7. /\ dl' \in [Task -> Seq(Event)] /\ dl'[t] = Tail(s) /\ \A v \in Task \ {t} : dl'[v] = dl[v]
  BY <1>1, <1>3, <1>5 DEF TypeOK
<1>8. p \in Place /\ ListAt(p) = s /\ ListAt(p)' = Tail(s)
  BY <1>2, <1>3, <1>6, <1>7, PlaceLists
<1>9. c \in Client /\ pc[c] = "wait"
  BY <1>1, <1>2, <1>3, <1>5, <1>8, SourceWaits
<1>10. c \in Fiber /\ c \notin Server /\ c # Main /\ c \in Nodes(Tfl[t])
  BY <1>1, <1>2, <1>3, <1>5, <1>9, TaskFacts DEF Addressed, Finished
<1>11. pc' \in [Fiber -> Pc] /\ pc'[c] = "go" /\ \A x \in Fiber \ {c} : pc'[x] = pc[x]
  BY <1>1, <1>3, <1>9, <1>10 DEF TypeOK, Awake, Pc
<1>12. /\ OwnThread' /\ active' \in [Task -> Seq(Fiber)] /\ run' \in [Task -> Fiber \cup {Main}]
  BY <1>1, <1>3, <1>10, <1>11, ResumeKeeps DEF SameReady
<1>13. TypeOK'
  BY <1>1, <1>3, <1>7, <1>11, <1>12 DEF TypeOK
<1>14. PcStep
  BY <1>9, <1>10, <1>11 DEF PcStep
<1>15. NoSleepOnEvents'
  BY <1>1, <1>3, <1>11 DEF NoSleepOnEvents
<1>16. \A v \in Task : Nodes(dl'[v]) \subseteq Nodes(dl[v])
  BY <1>2, <1>5, <1>7
<1>17. FoundIsStarted'
  <2>1. \A v \in Task : \A x \in Back(v)' : x \in Back(v)
    BY <1>3, <1>16 DEF Back
  <2>. QED BY <1>1, <1>3, <1>13, <1>14, <2>1, PcStepNew, FoundKeeps
<1>18. MailStep /\ DoneStep /\ EvStep /\ HoldStep
  BY <1>3 DEF MailStep, DoneStep, EvStep, HoldStep
<1>19. DlStep
  BY <1>3, <1>7, <1>16 DEF DlStep
<1>20. \A v \in Task : \A x \in EventsIn(v)' : x \in EventsIn(v)
  <2>1. ASSUME NEW v \in Task, NEW x \in EventsIn(v)' PROVE x \in EventsIn(v)
    <3>1. \/ x \in Nodes(mail[v]) \/ x \in Nodes(dl'[v]) \/ x \in Nodes(done[v])
          \/ \E y \in Server : /\ TaskOf[y] = v
                               /\ x \in Nodes(ev[y]) \/ (x = hold[y] /\ x # None)
      BY <1>3, <2>1, EventsInDef
    <3>. QED BY <1>16, <3>1, EventsInDef
  <2>. QED BY <2>1
<1>21. CallTracked'
  <2>1. \A v \in Task : <<"dl", v>> \in {p} \/ dl'[v] = dl[v]
    BY <1>6, <1>7
  <2>2. \A x \in Place \ {p} : ListAt(x)' = ListAt(x)
    BY <1>3, <2>1, OtherPlaces
  <2>3. \A x \in Client : IF Mine(x, e) THEN pc'[x] # "wait"
                          ELSE pc'[x] = "wait" <=> pc[x] = "wait"
    BY <1>2, <1>3, <1>11, TaskFacts DEF Mine
  <2>. QED BY <1>1, <1>2, <1>3, <1>8, <2>2, <2>3, DropTracked
<1>. QED BY <1>3, <1>12, <1>13, <1>14, <1>15, <1>17, <1>18, <1>19, <1>20, <1>21, MoveKeeps

-----------------------------------------------------------------------------
(* The end of a task.                                                       *)

\* The task a place belongs to.
PlaceTask(p) == IF p[1] \in {"ev", "hold"} THEN TaskOf[p[2]] ELSE p[2]

(* What is linked at a place is in the task of the place.                   *)
LEMMA EventsAt ==
    ASSUME NEW p \in Place
    PROVE  PlaceTask(p) \in Task /\ Nodes(ListAt(p)) \subseteq EventsIn(PlaceTask(p))
<1>1. Nodes(<<>>) = {} /\ \A e : Nodes(<<e>>) = {e}
  BY DEF Nodes
<1>2. ASSUME NEW g \in Server, p = <<"ev", g>>
      PROVE  PlaceTask(p) \in Task /\ Nodes(ListAt(p)) \subseteq EventsIn(PlaceTask(p))
  <2>1. PlaceTask(p) = TaskOf[g] /\ ListAt(p) = ev[g] /\ TaskOf[g] \in Task
    BY <1>2, PlaceLists, TaskFacts DEF PlaceTask
  <2>. QED BY <2>1, EventsInDef
<1>3. ASSUME NEW g \in Server, p = <<"hold", g>>
      PROVE  PlaceTask(p) \in Task /\ Nodes(ListAt(p)) \subseteq EventsIn(PlaceTask(p))
  <2>1. PlaceTask(p) = TaskOf[g] /\ TaskOf[g] \in Task
    BY <1>3, TaskFacts DEF PlaceTask
  <2>2. ListAt(p) = (IF hold[g] = None THEN <<>> ELSE <<hold[g]>>)
    BY <1>3, PlaceLists
  <2>3. CASE hold[g] = None
    BY <1>1, <2>1, <2>2, <2>3
  <2>4. CASE hold[g] # None
    <3>1. Nodes(ListAt(p)) = {hold[g]}
      BY <1>1, <2>2, <2>4
    <3>. QED BY <2>1, <2>4, <3>1, EventsInDef
  <2>. QED BY <2>3, <2>4
<1>4. ASSUME NEW t \in Task, p \in {<<"mail", t>>, <<"done", t>>, <<"dl", t>>}
      PROVE  PlaceTask(p) \in Task /\ Nodes(ListAt(p)) \subseteq EventsIn(PlaceTask(p))
  <2>1. PlaceTask(p) = t
    BY <1>4 DEF PlaceTask
  <2>2. ListAt(p) \in {<<>>, mail[t], done[t], dl[t]}
    BY <1>4, PlaceLists
  <2>. QED BY <1>1, <2>1, <2>2, EventsInDef
<1>. QED BY <1>2, <1>3, <1>4, PlaceLists

(* The places of a task that is over are empty, the others are left alone.  *)
LEMMA OverPlaces ==
    ASSUME TypeOK, NEW t \in Task, Over(t), mail' = mail, done' = done, NEW p \in Place
    PROVE  ListAt(p)' = IF PlaceTask(p) = t THEN <<>> ELSE ListAt(p)
<1>1. phase'[t] = "over" /\ \A v \in Task \ {t} : phase'[v] = phase[v] /\ dl'[v] = dl[v]
  BY DEF Over, TypeOK
<1>2. ASSUME NEW g \in Server
      PROVE  /\ ev'[g] = (IF TaskOf[g] = t THEN <<>> ELSE ev[g])
             /\ hold'[g] = (IF TaskOf[g] = t THEN None ELSE hold[g])
  <2>1. g \in Fiber /\ (g \in Nodes(Tfl[t]) <=> TaskOf[g] = t)
    BY TaskFacts
  <2>. QED BY <2>1 DEF Over
<1>3. ASSUME NEW g \in Server, p = <<"ev", g>>
      PROVE  ListAt(p)' = IF PlaceTask(p) = t THEN <<>> ELSE ListAt(p)
  <2>1. PlaceTask(p) = TaskOf[g] /\ ListAt(p) = ev[g] /\ ListAt(p)' = ev'[g]
    BY <1>3, PlaceLists DEF PlaceTask
  <2>. QED BY <1>2, <2>1
<1>4. ASSUME NEW g \in Server, p = <<"hold", g>>
      PROVE  ListAt(p)' = IF PlaceTask(p) = t THEN <<>> ELSE ListAt(p)
  <2>1. PlaceTask(p) = TaskOf[g]
    BY <1>4 DEF PlaceTask
  <2>2. /\ ListAt(p) = (IF hold[g] = None THEN <<>> ELSE <<hold[g]>>)
        /\ ListAt(p)' = (IF hold'[g] = None THEN <<>> ELSE <<hold'[g]>>)
    BY <1>4, PlaceLists
  <2>3. CASE TaskOf[g] = t
    <3>1. hold'[g] = None
      BY <1>2, <2>3
    <3>. QED BY <2>1, <2>2, <2>3, <3>1
  <2>4. CASE TaskOf[g] # t
    <3>1. hold'[g] = hold[g]
      BY <1>2, <2>4
    <3>. QED BY <2>1, <2>2, <2>4, <3>1
  <2>. QED BY <2>3, <2>4
<1>5. ASSUME NEW v \in Task, p \in {<<"mail", v>>, <<"done", v>>, <<"dl", v>>}
      PROVE  ListAt(p)' = IF PlaceTask(p) = t THEN <<>> ELSE ListAt(p)
  <2>1. PlaceTask(p) = v
    BY <1>5 DEF PlaceTask
  <2>2. CASE v = t
    <3>1. ListAt(p)' = <<>>
      BY <1>1, <1>5, <2>2, PlaceLists
    <3>. QED BY <2>1, <2>2, <3>1
  <2>3. CASE v # t
    <3>1. phase'[v] = phase[v] /\ dl'[v] = dl[v]
      BY <1>1, <2>3
    <3>2. CASE p = <<"mail", v>>
      <4>1. /\ ListAt(p) = (IF phase[v] = "over" THEN <<>> ELSE mail[v])
            /\ ListAt(p)' = (IF phase'[v] = "over" THEN <<>> ELSE mail'[v])
        BY <3>2, PlaceLists
      <4>2. ListAt(p)' = ListAt(p)
        BY <3>1, <4>1
      <4>. QED BY <2>1, <2>3, <4>2
    <3>3. CASE p = <<"done", v>>
      <4>1. /\ ListAt(p) = (IF phase[v] = "over" THEN <<>> ELSE done[v])
            /\ ListAt(p)' = (IF phase'[v] = "over" THEN <<>> ELSE done'[v])
        BY <3>3, PlaceLists
      <4>2. ListAt(p)' = ListAt(p)
        BY <3>1, <4>1
      <4>. QED BY <2>1, <2>3, <4>2
    <3>4. CASE p = <<"dl", v>>
      <4>1. /\ ListAt(p) = (IF phase[v] = "over" THEN <<>> ELSE dl[v])
            /\ ListAt(p)' = (IF phase'[v] = "over" THEN <<>> ELSE dl'[v])
        BY <3>4, PlaceLists
      <4>2. ListAt(p)' = ListAt(p)
        BY <3>1, <4>1
      <4>. QED BY <2>1, <2>3, <4>2
    <3>. QED BY <1>5, <3>2, <3>3, <3>4
  <2>. QED BY <2>2, <2>3
<1>. QED BY <1>3, <1>4, <1>5, PlaceLists

(* All fibers have ended, or the request to exit is handled: whoever waits    *)
(* for an event in the task belongs to it, and takes the event along.         *)
LEMMA EndOfTask ==
    ASSUME Core, NEW t \in Task, AllFibersEnded(t) \/ HandleExit(t)
    PROVE  /\ \A e \in EventsIn(t) : e.kind \in {"call", "find"} => TaskOf[e.src] = t
           /\ \A f \in Client, p \in Place :
                 TaskOf[f] = t /\ PlaceTask(p) # t => NoneIn(f, ListAt(p))
           /\ \A g \in Server : TaskOf[g] = t => told[t] = "asked"
<1>1. TypeOK /\ CallTracked /\ Addressed /\ BorderQuiet /\ ServersStay
  BY DEF Core, EventInv, StartInv
<1>2. CASE HandleExit(t)
  <2>1. PICK s, e : s = dl[t] /\ e = Head(s)
    OBVIOUS
  <2>2. phase[t] = "mail" /\ s # <<>> /\ e.kind = "exit"
    BY <1>2, <2>1 DEF HandleExit, Takes, MainRuns
  <2>3. s \in Seq(Event)
    BY <1>1, <2>1 DEF TypeOK
  <2>4. e \in Nodes(s)
    BY <2>1, <2>2, <2>3, HeadIsNode
  <2>5. told[t] = "asked"
    BY <1>1, <2>1, <2>2, <2>4 DEF Addressed, ForTask
  <2>6. \A e2 \in EventsIn(t) : e2.kind \in {"call", "find"} => TaskOf[e2.src] = t
    BY <1>1, <2>5, BorderEvents DEF Fits
  <2>7. ASSUME NEW f \in Client, NEW p \in Place, TaskOf[f] = t, PlaceTask(p) # t,
               ~NoneIn(f, ListAt(p))
        PROVE  FALSE
    <3>1. PICK i \in DOMAIN ListAt(p) : Mine(f, ListAt(p)[i])
      BY <2>7 DEF NoneIn
    <3>2. ListAt(p)[i] \in EventsIn(PlaceTask(p)) /\ PlaceTask(p) \in Task
      BY <3>1, EventsAt DEF Nodes
    <3>3. Fits(PlaceTask(p), ListAt(p)[i])
      BY <1>1, <3>2, BorderEvents
    <3>. QED BY <2>5, <2>7, <3>1, <3>3 DEF Fits, Mine
  <2>. QED BY <2>5, <2>6, <2>7
<1>3. CASE AllFibersEnded(t)
  <2>1. phase[t] = "loop" /\ \A f \in Nodes(Tfl[t]) : pc[f] = "ended"
    BY <1>3 DEF AllFibersEnded, MainRuns
  <2>2. \A g \in Server : TaskOf[g] # t
    <3>1. ASSUME NEW g \in Server, TaskOf[g] = t PROVE FALSE
      <4>1. pc[g] = "ended"
        BY <2>1, <3>1, TaskFacts
      <4>. QED BY <1>1, <2>1, <3>1, <4>1 DEF ServersStay
    <3>. QED BY <3>1
  <2>3. ASSUME NEW e \in EventsIn(t), e.kind \in {"call", "find"} PROVE TaskOf[e.src] = t
    <3>1. e \in Nodes(mail[t]) \/ e \in Nodes(dl[t]) \/ e \in Nodes(done[t])
      BY <2>2, <2>3, EventsInDef
    <3>2. e \notin Nodes(dl[t])
      BY <1>1, <2>1 DEF Addressed, Nodes
    <3>3. e \notin Nodes(mail[t])
      <4>1. ASSUME e \in Nodes(mail[t]) PROVE FALSE
        <5>1. mail[t] \in Seq(Event)
          BY <1>1 DEF TypeOK
        <5>2. e \in Event
          BY <4>1, <5>1 DEF Nodes
        <5>3. TaskOf[e.dst] = t /\ (e.dst \in Server \/ e.dst \in Findable)
          BY <1>1, <2>3, <4>1, <5>2, EventFacts DEF Addressed, ForTask
        <5>. QED BY <2>2, <5>3 DEF Findable
      <4>. QED BY <4>1
    <3>. QED BY <1>1, <3>1, <3>2, <3>3 DEF Addressed, Finished
  <2>4. \A f \in Client, p \in Place : TaskOf[f] = t => NoneIn(f, ListAt(p))
    <3>1. \A f \in Client : TaskOf[f] = t => pc[f] # "wait"
      BY <2>1, TaskFacts
    <3>. QED BY <1>1, <3>1 DEF CallTracked
  <2>. QED BY <2>2, <2>3, <2>4
<1>. QED BY <1>2, <1>3

LEMMA OverKeeps ==
    ASSUME Core, NEW t \in Task, AllFibersEnded(t) \/ HandleExit(t)
    PROVE  Core'
<1>1. /\ TypeOK /\ OwnThread /\ CallTracked /\ NoSleepOnEvents /\ Addressed /\ BorderQuiet
      /\ FirstRoundFresh /\ ServersStay /\ FoundIsStarted
  BY DEF Core, EventInv, StartInv
<1>2. /\ Over(t) /\ run[t] = Main /\ phase[t] \in {"loop", "mail"}
      /\ UNCHANGED <<turn, stored, told, run, mail, done, ops, sent, got>>
  BY DEF AllFibersEnded, HandleExit, Takes, MainRuns, counts
<1>3. /\ \A e \in EventsIn(t) : e.kind \in {"call", "find"} => TaskOf[e.src] = t
      /\ \A f \in Client, p \in Place :
            TaskOf[f] = t /\ PlaceTask(p) # t => NoneIn(f, ListAt(p))
      /\ \A g \in Server : TaskOf[g] = t => told[t] = "asked"
  BY EndOfTask
<1>4. /\ phase' \in [Task -> Phase] /\ phase'[t] = "over"
      /\ dl' \in [Task -> Seq(Event)] /\ dl'[t] = <<>>
      /\ \A v \in Task \ {t} : phase'[v] = phase[v] /\ dl'[v] = dl[v]
  <2>1. <<>> \in Seq(Event)
    OBVIOUS
  <2>. QED BY <1>1, <1>2, <2>1 DEF Over, TypeOK, Phase
<1>5. \A f \in Fiber : f \in Nodes(Tfl[t]) <=> TaskOf[f] = t
  BY TaskFacts
<1>6. /\ pc' \in [Fiber -> Pc]
      /\ \A f \in Fiber : pc'[f] = IF TaskOf[f] = t THEN "ended" ELSE pc[f]
  BY <1>1, <1>2, <1>5 DEF Over, TypeOK, Pc
<1>7. /\ ev' \in [Fiber -> Seq(Event)]
      /\ \A f \in Fiber : ev'[f] = IF TaskOf[f] = t THEN <<>> ELSE ev[f]
  <2>1. <<>> \in Seq(Event)
    OBVIOUS
  <2>. QED BY <1>1, <1>2, <1>5, <2>1 DEF Over, TypeOK
<1>8. /\ hold' \in [Server -> Event \cup {None}]
      /\ \A f \in Server : hold'[f] = IF TaskOf[f] = t THEN None ELSE hold[f]
  BY <1>1, <1>2, <1>5, TaskFacts DEF Over, TypeOK
<1>9. /\ OwnThread' /\ active' \in [Task -> Seq(Fiber)] /\ run' \in [Task -> Fiber \cup {Main}]
  <2>1. active' = [active EXCEPT ![t] = <<>>] /\ run' = [run EXCEPT ![t] = Main]
    BY <1>1, <1>2 DEF Over, TypeOK
  <2>2. /\ <<>> \in Seq(Fiber) /\ Distinct(<<>>)
        /\ Nodes(<<>>) = {f \in Nodes(Tfl[t]) : pc'[f] \in {"go", "again"}}
    <3>1. \A f \in Nodes(Tfl[t]) : pc'[f] = "ended"
      BY <1>6, TaskFacts
    <3>. QED BY <3>1 DEF Nodes, Distinct
  <2>3. \A f \in Fiber : TaskOf[f] # t => SameReady(f)
    BY <1>6 DEF SameReady
  <2>. QED BY <1>1, <2>1, <2>2, <2>3, ThreadKeeps
<1>10. TypeOK'
  BY <1>1, <1>2, <1>4, <1>6, <1>7, <1>8, <1>9 DEF TypeOK
<1>11. FirstRoundFresh'
  <2>1. ASSUME NEW u \in Task
        PROVE  IF phase'[u] \in {"created", "start"}
               THEN \A i \in DOMAIN Tfl[u] : pc'[Tfl[u][i]] = "new" <=> i >= turn'[u]
               ELSE \A f \in Nodes(Tfl[u]) : pc'[f] # "new"
    <3>1. CASE u = t
      BY <1>4, <1>6, <3>1, TaskFacts
    <3>2. CASE u # t
      <4>1. \A f \in Nodes(Tfl[u]) : pc'[f] = pc[f]
        BY <1>6, <3>2, TaskFacts
      <4>2. \A i \in DOMAIN Tfl[u] : pc'[Tfl[u][i]] = pc[Tfl[u][i]]
        BY <4>1, TflFacts
      <4>3. phase'[u] = phase[u] /\ turn'[u] = turn[u]
        BY <1>2, <1>4, <3>2
      <4>. QED BY <1>1, <4>1, <4>2, <4>3 DEF FirstRoundFresh
    <3>. QED BY <3>1, <3>2
  <2>. QED BY <2>1 DEF FirstRoundFresh
<1>12. ServersStay'
  <2>1. ASSUME NEW f \in Fiber, phase'[TaskOf[f]] = "over" PROVE pc'[f] = "ended"
    <3>1. TaskOf[f] \in Task
      BY TaskFacts
    <3>2. CASE TaskOf[f] # t
      <4>1. phase[TaskOf[f]] = "over" /\ pc'[f] = pc[f]
        BY <1>4, <1>6, <2>1, <3>1, <3>2
      <4>. QED BY <1>1, <4>1 DEF ServersStay
    <3>. QED BY <1>6, <3>2
  <2>2. ASSUME NEW f \in Server, pc'[f] = "ended"
        PROVE  phase'[TaskOf[f]] = "over" /\ told'[TaskOf[f]] = "asked"
    BY <1>1, <1>2, <1>3, <1>4, <1>6, <2>2, TaskFacts DEF ServersStay
  <2>. QED BY <2>1, <2>2 DEF ServersStay
<1>13. NewStep
  BY <1>2, <1>3, <1>6, TaskFacts DEF NewStep
<1>14. Nodes(<<>>) = {}
  BY DEF Nodes
<1>15. FoundIsStarted'
  <2>1. ASSUME NEW v \in Task, NEW x \in Back(v)' PROVE x \in Back(v)
    <3>1. x \in Nodes(done[v]) \cup (IF phase'[v] = "done" THEN Nodes(dl'[v]) ELSE {})
      BY <1>2, <2>1 DEF Back
    <3>. QED BY <1>4, <3>1 DEF Back
  <2>. QED BY <1>1, <1>2, <1>10, <1>13, <2>1, FoundKeeps
<1>16. NoSleepOnEvents'
  BY <1>1, <1>6, <1>7 DEF NoSleepOnEvents
<1>17. Addressed'
  <2>1. ToldStep /\ MailStep /\ DoneStep
    BY <1>2 DEF ToldStep, MailStep, DoneStep
  <2>2. DlStep
    BY <1>4 DEF DlStep
  <2>3. EvStep
    BY <1>7, <1>14 DEF EvStep
  <2>4. HoldStep
    BY <1>8 DEF HoldStep
  <2>. QED BY <1>1, <2>1, <2>2, <2>3, <2>4, AddressedKeeps
<1>18. BorderQuiet'
  <2>1. ASSUME NEW v \in Task, NEW x \in EventsIn(v)' PROVE x \in EventsIn(v)
    <3>1. \/ x \in Nodes(mail[v]) \/ x \in Nodes(dl'[v]) \/ x \in Nodes(done[v])
          \/ \E y \in Server : /\ TaskOf[y] = v
                               /\ x \in Nodes(ev'[y]) \/ (x = hold'[y] /\ x # None)
      BY <1>2, <2>1, EventsInDef
    <3>2. x \in Nodes(dl'[v]) => x \in Nodes(dl[v])
      BY <1>4, <1>14
    <3>3. ASSUME NEW y \in Server, x \in Nodes(ev'[y]) \/ (x = hold'[y] /\ x # None)
          PROVE  x \in Nodes(ev[y]) \/ (x = hold[y] /\ x # None)
      <4>1. y \in Fiber
        BY TaskFacts
      <4>2. CASE TaskOf[y] = t
        <5>1. ev'[y] = <<>> /\ hold'[y] = None
          BY <1>7, <1>8, <4>1, <4>2
        <5>. QED BY <1>14, <3>3, <5>1
      <4>3. CASE TaskOf[y] # t
        <5>1. ev'[y] = ev[y] /\ hold'[y] = hold[y]
          BY <1>7, <1>8, <4>1, <4>3
        <5>. QED BY <3>3, <5>1
      <4>. QED BY <4>2, <4>3
    <3>. QED BY <3>1, <3>2, <3>3, EventsInDef
  <2>. QED BY <1>1, <1>2, <2>1, BorderKeeps
<1>19. CallTracked'
  <2>1. \A p \in Place : ListAt(p)' = IF PlaceTask(p) = t THEN <<>> ELSE ListAt(p)
    BY <1>1, <1>2, OverPlaces
  <2>2. \A f \in Client : NoneIn(f, <<>>)
    BY DEF NoneIn
  <2>3. ASSUME NEW f \in Client, TaskOf[f] # t, NEW p \in Place, PlaceTask(p) = t
        PROVE  NoneIn(f, ListAt(p)) /\ ~OneIn(f, ListAt(p))
    <3>1. \A x \in Nodes(ListAt(p)) : x \in EventsIn(t)
      BY <2>3, EventsAt
    <3>2. \A i \in DOMAIN ListAt(p) : ListAt(p)[i] \in EventsIn(t)
      BY <3>1 DEF Nodes
    <3>3. NoneIn(f, ListAt(p))
      BY <1>3, <2>3, <3>2 DEF NoneIn, Mine
    <3>. QED BY <3>3 DEF NoneIn, OneIn
  <2>4. ASSUME NEW f \in Client, TaskOf[f] # t
        PROVE  /\ pc'[f] = "wait" <=> pc[f] = "wait"
               /\ \A p \in Place : /\ NoneIn(f, ListAt(p)) => NoneIn(f, ListAt(p)')
                                   /\ OneIn(f, ListAt(p)) => OneIn(f, ListAt(p)')
    <3>1. pc'[f] = pc[f]
      BY <1>6, <2>4, TaskFacts
    <3>2. ASSUME NEW p \in Place
          PROVE  /\ NoneIn(f, ListAt(p)) => NoneIn(f, ListAt(p)')
                 /\ OneIn(f, ListAt(p)) => OneIn(f, ListAt(p)')
      <4>1. CASE PlaceTask(p) = t
        BY <2>1, <2>2, <2>3, <2>4, <4>1
      <4>2. CASE PlaceTask(p) # t
        BY <2>1, <4>2
      <4>. QED BY <4>1, <4>2
    <3>. QED BY <3>1, <3>2
  <2>5. ASSUME NEW f \in Client, TaskOf[f] = t
        PROVE  pc'[f] # "wait" /\ \A p \in Place : NoneIn(f, ListAt(p)')
    <3>1. pc'[f] = "ended"
      BY <1>6, <2>5, TaskFacts
    <3>2. ASSUME NEW p \in Place PROVE NoneIn(f, ListAt(p)')
      <4>1. CASE PlaceTask(p) = t
        BY <2>1, <2>2, <4>1
      <4>2. CASE PlaceTask(p) # t
        BY <1>3, <2>1, <2>5, <4>2
      <4>. QED BY <4>1, <4>2
    <3>. QED BY <3>1, <3>2
  <2>. QED BY <1>1, <2>4, <2>5 DEF CallTracked
<1>. QED BY <1>9, <1>10, <1>11, <1>12, <1>15, <1>16, <1>17, <1>18, <1>19 DEF Core, EventInv, StartInv

-----------------------------------------------------------------------------
(* The invariant.                                                           *)

LEMMA InitCore == Init => Core
<1> SUFFICES ASSUME Init PROVE Core
  OBVIOUS
<1>1. /\ phase = [t \in Task |-> "created"] /\ turn = [t \in Task |-> 1]
      /\ stored = [t \in Task |-> FALSE] /\ run = [t \in Task |-> Main]
      /\ active = [t \in Task |-> <<>>] /\ pc = [f \in Fiber |-> "new"]
      /\ ev = [f \in Fiber |-> <<>>] /\ hold = [f \in Server |-> None]
      /\ mail = [t \in Task |-> <<>>] /\ done = [t \in Task |-> <<>>]
      /\ dl = [t \in Task |-> <<>>] /\ ops = [f \in Client |-> 0]
      /\ sent = [p \in Pair |-> 0] /\ got = [p \in Pair |-> 0]
      /\ told = [t \in Task |-> "no"]
  BY DEF Init
<1>2. Nodes(<<>>) = {} /\ Distinct(<<>>) /\ <<>> \in Seq(Event) /\ <<>> \in Seq(Fiber)
  BY DEF Nodes, Distinct
<1>3. TypeOK
  BY <1>1, <1>2, TaskFacts DEF TypeOK, Phase, Pc
<1>4. OwnThread
  <2>1. ASSUME NEW t \in Task
        PROVE  /\ active[t] = <<>> /\ run[t] = Main
               /\ {f \in Nodes(Tfl[t]) : pc[f] \in {"go", "again"}} = {}
    BY <1>1, TaskFacts
  <2>. QED BY <1>2, <2>1 DEF OwnThread
<1>5. CallTracked
  <2>1. \A p \in Place : ListAt(p) = <<>>
    <3>1. ASSUME NEW g \in Server
          PROVE  ListAt(<<"ev", g>>) = <<>> /\ ListAt(<<"hold", g>>) = <<>>
      BY <1>1, PlaceLists, TaskFacts
    <3>2. ASSUME NEW t \in Task
          PROVE  /\ ListAt(<<"mail", t>>) = <<>> /\ ListAt(<<"done", t>>) = <<>>
                 /\ ListAt(<<"dl", t>>) = <<>>
      BY <1>1, PlaceLists
    <3>3. ASSUME NEW p \in Place PROVE ListAt(p) = <<>>
      <4>1. CASE \E g \in Server : p = <<"ev", g>> \/ p = <<"hold", g>>
        BY <3>1, <4>1
      <4>2. CASE \E t \in Task : p \in {<<"mail", t>>, <<"done", t>>, <<"dl", t>>}
        BY <3>2, <4>2
      <4>. QED BY <4>1, <4>2, PlaceLists
    <3>. QED BY <3>3
  <2>2. \A f \in Client : pc[f] # "wait"
    BY <1>1, TaskFacts
  <2>. QED BY <2>1, <2>2 DEF CallTracked, NoneIn
<1>6. NoSleepOnEvents
  BY <1>1 DEF NoSleepOnEvents
<1>7. Addressed
  BY <1>1, <1>2 DEF Addressed
<1>8. BorderQuiet
  BY <1>1, TaskFacts DEF BorderQuiet
<1>9. FirstRoundFresh
  <2>1. ASSUME NEW t \in Task, NEW i \in DOMAIN Tfl[t]
        PROVE  pc[Tfl[t][i]] = "new" /\ i >= 1
    BY <1>1, TflFacts, TaskFacts
  <2>. QED BY <1>1, <2>1 DEF FirstRoundFresh
<1>10. ServersStay
  BY <1>1, TaskFacts DEF ServersStay
<1>11. FoundIsStarted
  BY <1>1, <1>2 DEF FoundIsStarted
<1>. QED BY <1>3, <1>4, <1>5, <1>6, <1>7, <1>8, <1>9, <1>10, <1>11 DEF Core, EventInv, StartInv

(* Every step keeps it.                                                     *)
LEMMA NextCore == Core /\ [Next]_vars => Core'
<1> SUFFICES ASSUME Core, [Next]_vars PROVE Core'
  OBVIOUS
<1>1. CASE UNCHANGED vars
  <2>1. UNCHANGED <<phase, turn, stored, run, active, pc, ev, hold, mail, done, dl, ops, sent, got, told>>
    BY <1>1 DEF vars
  <2>2. TypeOK /\ OwnThread /\ FirstRoundFresh /\ ServersStay
    BY DEF Core, EventInv, StartInv
  <2>3. TypeOK'
    BY <2>1, <2>2 DEF TypeOK
  <2>4. OwnThread'
    BY <2>1, <2>2 DEF OwnThread
  <2>5. PcStep
    BY <2>1 DEF PcStep
  <2>6. FirstRoundFresh' /\ ServersStay'
    BY <2>1, <2>2, <2>5, StartKeeps
  <2>7. CallTracked' /\ NoSleepOnEvents' /\ Addressed' /\ BorderQuiet' /\ FoundIsStarted'
    BY <2>1, <2>3, <2>5, PcStepNew, EventsSame
  <2>. QED BY <2>3, <2>4, <2>6, <2>7 DEF Core, EventInv, StartInv
<1>2. ASSUME NEW t \in Task, tt_task_run(t) \/ StoreThread(t) PROVE Core'
  BY <1>2, RunKeeps
<1>3. ASSUME NEW t \in Task, NEW f \in Nodes(Tfl[t]) \cap Client, ClientNext(f) PROVE Core'
  <2>1. f \in Client /\ TaskOf[f] = t
    BY <1>3, TaskFacts
  <2>2. ASSUME NEW g \in Server, Call(f, g) \/ Post(f, g) PROVE Core'
    BY <2>1, <2>2, CallKeeps
  <2>3. ASSUME NEW g \in Findable, tt_task_find_fiber(f, g) PROVE Core'
    BY <2>1, <2>3, FindKeeps
  <2>4. CASE tt_fiber_yield(f) \/ ClientEnds(f)
    BY <2>1, <2>4, SwitchKeeps
  <2>5. ASSUME NEW u \in Task, tt_task_exit(f, u) PROVE Core'
    BY <2>1, <2>5, ExitKeeps
  <2>. QED BY <1>3, <2>2, <2>3, <2>4, <2>5 DEF ClientNext
<1>4. ASSUME NEW t \in Task, NEW f \in Nodes(Tfl[t]) \cap Server,
             tt_fiber_recv_ev(f) \/ tt_fiber_finish(f)
      PROVE  Core'
  <2>1. f \in Server
    OBVIOUS
  <2>2. CASE tt_fiber_recv_ev(f)
    BY <2>1, <2>2, RecvSleepKeeps, RecvTakeKeeps
  <2>3. CASE tt_fiber_finish(f)
    BY <2>1, <2>3, FinishKeeps
  <2>. QED BY <1>4, <2>2, <2>3
<1>5. ASSUME NEW t \in Task, MainNext(t) PROVE Core'
  <2>1. CASE FirstRound(t)
    BY <2>1, FirstRoundKeeps
  <2>2. CASE EnterLoop(t) \/ HandlerReturns(t)
    BY <2>2, LoopKeeps
  <2>3. CASE RunActive(t)
    BY <2>3, SwitchKeeps
  <2>4. CASE AllFibersEnded(t) \/ HandleExit(t)
    BY <2>4, OverKeeps
  <2>5. CASE PollMail(t) \/ PollDone(t)
    BY <2>5, PollKeeps
  <2>6. CASE DeliverMail(t)
    BY <2>6, DeliverKeeps
  <2>7. CASE __do_find_fiber(t)
    BY <2>7, DoFindKeeps
  <2>8. CASE HandleDone(t)
    BY <2>8, HandleDoneKeeps
  <2>. QED BY <1>5, <2>1, <2>2, <2>3, <2>4, <2>5, <2>6, <2>7, <2>8 DEF MainNext
<1>6. CASE Next
  <2>1. PICK t \in Task : tt_task_run(t) \/ StoreThread(t) \/ ThreadNext(t)
    BY <1>6 DEF Next
  <2>2. CASE ThreadNext(t)
    BY <1>3, <1>4, <1>5, <2>2 DEF ThreadNext
  <2>. QED BY <1>2, <2>1, <2>2
<1>. QED BY <1>1, <1>6

(* Both parts of the invariant of TaskEvents hold in every state: each is      *)
(* inductive only together with the other.                                     *)
THEOREM CoreInvariant == Spec => []Core
<1>1. Init => Core
  BY InitCore
<1>2. Core /\ [Next]_vars => Core'
  BY NextCore
<1>. QED BY <1>1, <1>2, PTL DEF Spec

(* A fiber is resumed by the thread of its own task only; the event of a       *)
(* waiting fiber is in exactly one place, and in none once the fiber goes on,  *)
(* also when a task ends; nobody sleeps on events (tt_fiber_send_ev,           *)
(* tt_fiber_recv_ev, tt_fiber_finish, __poller_io, __worker_io).               *)
THEOREM EventInvariant == Spec => []EventInv
<1>1. Core => EventInv
  BY DEF Core
<1>. QED BY <1>1, CoreInvariant, PTL

(* The fibers that __task_routine() resumes in its first round have not run    *)
(* before, whatever the earlier ones sent them; those tt_task_find_fiber()     *)
(* hands out have been created and started (they may have ended since); and a  *)
(* server ends with its task only, by request.                                 *)
THEOREM StartInvariant == Spec => []StartInv
<1>1. Core => StartInv
  BY DEF Core
<1>. QED BY <1>1, CoreInvariant, PTL

-----------------------------------------------------------------------------
(* Posts: the numbers of the posts of one fiber to another in a list.        *)

\* For the pair of f and g the lists s and r are the same.
Alike(f, g, s, r) == Nums(f, g, r) = Nums(f, g, s) /\ (Rising(f, g, s) => Rising(f, g, r))

LEMMA NumsAppend ==
    ASSUME NEW s \in Seq(Event), NEW e \in Event, NEW f, NEW g
    PROVE  /\ ~IsPost(f, g, e) => Alike(f, g, s, Append(s, e))
           /\ IsPost(f, g, e) => Nums(f, g, Append(s, e)) = Nums(f, g, s) \cup {e.n}
           /\ IsPost(f, g, e) /\ Rising(f, g, s) /\ Before(Nums(f, g, s), {e.n})
                => Rising(f, g, Append(s, e))
<1> DEFINE n == Len(s)
           new == Append(s, e)
<1>1. /\ n \in Nat /\ DOMAIN s = 1 .. n /\ DOMAIN new = 1 .. n + 1
      /\ new[n + 1] = e /\ \A i \in 1 .. n : new[i] = s[i]
  OBVIOUS
<1>2. /\ \A i \in 1 .. n : i \in 1 .. n + 1 /\ i # n + 1 /\ i < n + 1
      /\ \A i \in 1 .. n + 1 : (i \in 1 .. n /\ ~(n + 1 < i)) \/ i = n + 1
      /\ n + 1 \in 1 .. n + 1 /\ ~(n + 1 < n + 1)
  BY <1>1
<1> HIDE DEF n, new
<1>3. ~IsPost(f, g, e) => Nums(f, g, new) = Nums(f, g, s)
  BY <1>1, <1>2 DEF Nums
<1>4. ~IsPost(f, g, e) /\ Rising(f, g, s) => Rising(f, g, new)
  BY <1>1, <1>2 DEF Rising
<1>5. IsPost(f, g, e) => Nums(f, g, new) = Nums(f, g, s) \cup {e.n}
  BY <1>1, <1>2 DEF Nums
<1>6. ASSUME IsPost(f, g, e), Rising(f, g, s), Before(Nums(f, g, s), {e.n})
      PROVE  Rising(f, g, new)
  <2>1. ASSUME NEW i \in DOMAIN new, NEW j \in DOMAIN new, i < j,
               IsPost(f, g, new[i]), IsPost(f, g, new[j])
        PROVE  new[i].n < new[j].n
    <3>1. i \in 1 .. n
      BY <1>1, <1>2, <2>1
    <3>2. CASE j \in 1 .. n
      BY <1>1, <1>6, <2>1, <3>1, <3>2 DEF Rising
    <3>3. CASE j = n + 1
      <4>1. s[i].n \in Nums(f, g, s)
        BY <1>1, <2>1, <3>1 DEF Nums
      <4>. QED BY <1>1, <1>6, <3>1, <3>3, <4>1 DEF Before
    <3>. QED BY <1>1, <1>2, <3>2, <3>3
  <2>. QED BY <2>1 DEF Rising
<1>. QED BY <1>3, <1>4, <1>5, <1>6 DEF new, Alike

LEMMA NumsTail ==
    ASSUME NEW s \in Seq(Event), s # <<>>, NEW f, NEW g
    PROVE  /\ ~IsPost(f, g, Head(s)) => Alike(f, g, s, Tail(s))
           /\ IsPost(f, g, Head(s)) => Nums(f, g, s) = Nums(f, g, Tail(s)) \cup {Head(s).n}
           /\ Rising(f, g, s) => Rising(f, g, Tail(s))
           /\ IsPost(f, g, Head(s)) /\ Rising(f, g, s) => Before({Head(s).n}, Nums(f, g, Tail(s)))
<1> DEFINE n == Len(s)
           new == Tail(s)
<1>1. /\ n \in Nat \ {0} /\ DOMAIN s = 1 .. n /\ DOMAIN new = 1 .. n - 1
      /\ Head(s) = s[1] /\ \A i \in 1 .. n - 1 : new[i] = s[i + 1]
  OBVIOUS
<1>2. /\ \A i \in 1 .. n - 1 : i + 1 \in 1 .. n /\ 1 < i + 1
      /\ \A i \in 1 .. n : i = 1 \/ (i - 1 \in 1 .. n - 1 /\ (i - 1) + 1 = i)
      /\ 1 \in 1 .. n
      /\ \A i, j \in 1 .. n - 1 : i < j => i + 1 < j + 1
  BY <1>1
<1> HIDE DEF n, new
<1>3. Nums(f, g, new) \subseteq Nums(f, g, s)
  <2>1. ASSUME NEW i \in DOMAIN new, IsPost(f, g, new[i]) PROVE new[i].n \in Nums(f, g, s)
    <3>1. i + 1 \in DOMAIN s /\ s[i + 1] = new[i]
      BY <1>1, <1>2, <2>1
    <3>. QED BY <2>1, <3>1 DEF Nums
  <2>. QED BY <2>1 DEF Nums
<1>4. Nums(f, g, s) \subseteq Nums(f, g, new) \cup (IF IsPost(f, g, Head(s)) THEN {Head(s).n} ELSE {})
  <2>1. ASSUME NEW i \in DOMAIN s, IsPost(f, g, s[i]), i # 1 PROVE s[i].n \in Nums(f, g, new)
    <3>1. i - 1 \in DOMAIN new /\ new[i - 1] = s[i]
      BY <1>1, <1>2, <2>1
    <3>. QED BY <2>1, <3>1 DEF Nums
  <2>. QED BY <1>1, <2>1 DEF Nums
<1>5. ASSUME Rising(f, g, s) PROVE Rising(f, g, new)
  <2>1. ASSUME NEW i \in DOMAIN new, NEW j \in DOMAIN new, i < j,
               IsPost(f, g, new[i]), IsPost(f, g, new[j])
        PROVE  new[i].n < new[j].n
    <3>1. /\ i + 1 \in DOMAIN s /\ j + 1 \in DOMAIN s /\ i + 1 < j + 1
          /\ s[i + 1] = new[i] /\ s[j + 1] = new[j]
      BY <1>1, <1>2, <2>1
    <3>. QED BY <1>5, <2>1, <3>1 DEF Rising
  <2>. QED BY <2>1 DEF Rising
<1>6. ASSUME IsPost(f, g, Head(s)) PROVE Head(s).n \in Nums(f, g, s)
  BY <1>1, <1>2, <1>6 DEF Nums
<1>7. ASSUME IsPost(f, g, Head(s)), Rising(f, g, s) PROVE Before({Head(s).n}, Nums(f, g, new))
  <2>1. ASSUME NEW i \in DOMAIN new, IsPost(f, g, new[i]) PROVE Head(s).n < new[i].n
    <3>1. i + 1 \in DOMAIN s /\ s[i + 1] = new[i] /\ 1 < i + 1 /\ 1 \in DOMAIN s
      BY <1>1, <1>2, <2>1
    <3>. QED BY <1>1, <1>7, <2>1, <3>1 DEF Rising
  <2>. QED BY <2>1 DEF Before, Nums
<1>. QED BY <1>3, <1>4, <1>5, <1>6, <1>7 DEF new, Alike

LEMMA NumsFacts ==
    ASSUME NEW f, NEW g
    PROVE  /\ Nums(f, g, <<>>) = {} /\ Rising(f, g, <<>>)
           /\ \A s \in Seq(Event) : Nums(f, g, s) \subseteq Nat
           /\ \A s : Alike(f, g, s, s)
<1>1. ASSUME NEW s \in Seq(Event) PROVE Nums(f, g, s) \subseteq Nat
  <2>1. \A i \in DOMAIN s : s[i] \in Event
    OBVIOUS
  <2>2. \A i \in DOMAIN s : IsPost(f, g, s[i]) => s[i].n \in Nat
    BY <2>1, EventFacts DEF IsPost
  <2>. QED BY <2>2 DEF Nums
<1>2. Nums(f, g, <<>>) = {} /\ Rising(f, g, <<>>)
  BY DEF Nums, Rising
<1>. QED BY <1>1, <1>2 DEF Alike

(* What each step does to the posts on the way.                              *)
LEMMA OrderKeeps ==
    ASSUME NEW f, NEW g, NEW a, NEW b, NEW c, NEW lo, NEW hi, InOrder(f, g, a, b, c, lo, hi),
           NEW a2, NEW b2, NEW c2, Alike(f, g, a, a2), Alike(f, g, b, b2), Alike(f, g, c, c2)
    PROVE  InOrder(f, g, a2, b2, c2, lo, hi)
  BY DEF InOrder, Alike

LEMMA OrderSent ==
    ASSUME NEW f, NEW g, NEW a \in Seq(Event), NEW b \in Seq(Event), NEW c \in Seq(Event),
           NEW lo \in Nat, NEW hi \in Nat, InOrder(f, g, a, b, c, lo, hi),
           NEW e \in Event, IsPost(f, g, e), e.n = hi + 1
    PROVE  /\ Nums(f, g, b) = {} /\ Nums(f, g, c) = {}
                => InOrder(f, g, Append(a, e), b, c, lo, hi + 1)
           /\ InOrder(f, g, a, b, Append(c, e), lo, hi + 1)
<1>1. /\ Rising(f, g, a) /\ Rising(f, g, b) /\ Rising(f, g, c)
      /\ Before(Nums(f, g, a), Nums(f, g, b)) /\ Before(Nums(f, g, a), Nums(f, g, c))
      /\ Before(Nums(f, g, b), Nums(f, g, c))
      /\ Nums(f, g, a) \cup Nums(f, g, b) \cup Nums(f, g, c) = lo + 1 .. hi /\ lo <= hi
  BY DEF InOrder
<1>2. /\ Before(Nums(f, g, a), {e.n}) /\ Before(Nums(f, g, b), {e.n})
      /\ Before(Nums(f, g, c), {e.n})
  <2>1. \A x \in lo + 1 .. hi : x < e.n
    OBVIOUS
  <2>. QED BY <1>1, <2>1 DEF Before
<1>3. (lo + 1 .. hi) \cup {e.n} = lo + 1 .. hi + 1 /\ lo <= hi + 1
  BY <1>1
<1>4. /\ Rising(f, g, Append(a, e)) /\ Nums(f, g, Append(a, e)) = Nums(f, g, a) \cup {e.n}
      /\ Rising(f, g, Append(c, e)) /\ Nums(f, g, Append(c, e)) = Nums(f, g, c) \cup {e.n}
  BY <1>1, <1>2, NumsAppend
<1>5. Nums(f, g, b) = {} /\ Nums(f, g, c) = {} => InOrder(f, g, Append(a, e), b, c, lo, hi + 1)
  BY <1>1, <1>3, <1>4 DEF InOrder, Before
<1>6. InOrder(f, g, a, b, Append(c, e), lo, hi + 1)
  <2>1. /\ Before(Nums(f, g, a), Nums(f, g, c) \cup {e.n})
        /\ Before(Nums(f, g, b), Nums(f, g, c) \cup {e.n})
    BY <1>1, <1>2 DEF Before
  <2>2. Nums(f, g, a) \cup Nums(f, g, b) \cup (Nums(f, g, c) \cup {e.n}) = lo + 1 .. hi + 1
    BY <1>1, <1>3
  <2>. QED BY <1>1, <1>3, <1>4, <2>1, <2>2 DEF InOrder
<1>. QED BY <1>5, <1>6

LEMMA OrderReceived ==
    ASSUME NEW f, NEW g, NEW a \in Seq(Event), NEW b \in Seq(Event), NEW c \in Seq(Event),
           NEW lo \in Nat, NEW hi \in Nat, InOrder(f, g, a, b, c, lo, hi),
           a # <<>>, IsPost(f, g, Head(a))
    PROVE  InOrder(f, g, Tail(a), b, c, Head(a).n, hi)
<1> DEFINE A == Nums(f, g, a)
           B == Nums(f, g, b)
           C == Nums(f, g, c)
           T == Nums(f, g, Tail(a))
           n == Head(a).n
<1>1. /\ Rising(f, g, a) /\ Rising(f, g, b) /\ Rising(f, g, c)
      /\ Before(A, B) /\ Before(A, C) /\ Before(B, C)
      /\ A \cup B \cup C = lo + 1 .. hi /\ lo <= hi
  BY DEF InOrder
<1>2. A = T \cup {n} /\ Before({n}, T) /\ Rising(f, g, Tail(a))
  BY <1>1, NumsTail
<1> HIDE DEF A, B, C, T, n
<1>3. n \in lo + 1 .. hi /\ \A x \in (T \cup B \cup C) : n < x /\ x \in lo + 1 .. hi
  BY <1>1, <1>2 DEF Before
<1>4. n = lo + 1
  <2>1. lo + 1 \in lo + 1 .. hi
    BY <1>3
  <2>2. lo + 1 = n \/ n < lo + 1
    BY <1>1, <1>2, <1>3, <2>1
  <2>. QED BY <1>3, <2>2
<1>5. T \cup B \cup C = n + 1 .. hi
  <2>1. \A x \in n + 1 .. hi : x \in A \cup B \cup C /\ x # n
    BY <1>1, <1>3, <1>4
  <2>2. \A x \in n + 1 .. hi : x \in T \cup B \cup C
    BY <1>2, <2>1
  <2>3. \A x \in T \cup B \cup C : x \in n + 1 .. hi
    BY <1>3
  <2>. QED BY <2>2, <2>3
<1>6. Before(T, B) /\ Before(T, C) /\ n <= hi
  BY <1>1, <1>2, <1>3 DEF Before
<1>. QED BY <1>1, <1>2, <1>5, <1>6 DEF InOrder, A, B, C, T, n

LEMMA OrderMoved ==
    ASSUME NEW f, NEW g, NEW a \in Seq(Event), NEW b \in Seq(Event), NEW c \in Seq(Event),
           NEW lo \in Nat, NEW hi \in Nat, InOrder(f, g, a, b, c, lo, hi)
    PROVE  /\ b = <<>> => InOrder(f, g, a, c, <<>>, lo, hi)
           /\ b # <<>> /\ IsPost(f, g, Head(b)) =>
                InOrder(f, g, Append(a, Head(b)), Tail(b), c, lo, hi)
<1> DEFINE A == Nums(f, g, a)
           B == Nums(f, g, b)
           C == Nums(f, g, c)
           T == Nums(f, g, Tail(b))
<1>1. /\ Rising(f, g, a) /\ Rising(f, g, b) /\ Rising(f, g, c)
      /\ Before(A, B) /\ Before(A, C) /\ Before(B, C)
      /\ A \cup B \cup C = lo + 1 .. hi /\ lo <= hi
  BY DEF InOrder
<1>2. Nums(f, g, <<>>) = {} /\ Rising(f, g, <<>>)
  BY NumsFacts
<1>3. b = <<>> => InOrder(f, g, a, c, <<>>, lo, hi)
  BY <1>1, <1>2 DEF InOrder, Before
<1>4. ASSUME b # <<>>, IsPost(f, g, Head(b))
      PROVE  InOrder(f, g, Append(a, Head(b)), Tail(b), c, lo, hi)
  <2>1. PICK e : e = Head(b)
    OBVIOUS
  <2>2. e \in Event
    BY <1>4, <2>1
  <2>3. B = T \cup {e.n} /\ Before({e.n}, T) /\ Rising(f, g, Tail(b))
    BY <1>1, <1>4, <2>1, NumsTail
  <2>4. Before(A, {e.n})
    BY <1>1, <2>3 DEF Before
  <2>5. Rising(f, g, Append(a, e)) /\ Nums(f, g, Append(a, e)) = A \cup {e.n}
    BY <1>1, <1>4, <2>1, <2>2, <2>4, NumsAppend
  <2> HIDE DEF A, B, C, T
  <2>6. Before(A \cup {e.n}, T) /\ Before(A \cup {e.n}, C) /\ Before(T, C)
    BY <1>1, <2>3 DEF Before
  <2>7. (A \cup {e.n}) \cup T \cup C = lo + 1 .. hi
    BY <1>1, <2>3
  <2>. QED BY <1>1, <2>1, <2>3, <2>5, <2>6, <2>7 DEF InOrder, A, C, T
<1>. QED BY <1>3, <1>4

-----------------------------------------------------------------------------
(* Posts: the steps.                                                        *)

\* PostsInOrder for one pair of fibers.
OrderOf(f, g) ==
    phase[TaskOf[g]] # "over" =>
        InOrder(f, g, ev[g], Taken(TaskOf[g]), mail[TaskOf[g]], got[<<f, g>>], sent[<<f, g>>])

LEMMA OrderDef == PostsInOrder <=> \A f \in Client, g \in Server : OrderOf(f, g)
  BY DEF PostsInOrder, OrderOf

LEMMA OrderTypes ==
    ASSUME TypeOK, NEW f \in Client, NEW g \in Server
    PROVE  /\ TaskOf[g] \in Task /\ g \in Fiber /\ ev[g] \in Seq(Event)
           /\ Taken(TaskOf[g]) \in Seq(Event) /\ mail[TaskOf[g]] \in Seq(Event)
           /\ got[<<f, g>>] \in Nat /\ sent[<<f, g>>] \in Nat
<1>1. TaskOf[g] \in Task /\ g \in Fiber /\ <<f, g>> \in Pair
  BY TaskFacts DEF Pair
<1>2. <<>> \in Seq(Event)
  OBVIOUS
<1>. QED BY <1>1, <1>2 DEF TypeOK, Taken

(* For this pair nothing changes.                                           *)
LEMMA PairSame ==
    ASSUME NEW f \in Client, NEW g \in Server, NEW t, t = TaskOf[g], OrderOf(f, g),
           phase[t] # "over", Alike(f, g, ev[g], ev'[g]), Alike(f, g, Taken(t), Taken(t)'),
           Alike(f, g, mail[t], mail'[t]),
           got'[<<f, g>>] = got[<<f, g>>], sent'[<<f, g>>] = sent[<<f, g>>]
    PROVE  OrderOf(f, g)'
<1>1. InOrder(f, g, ev[g], Taken(t), mail[t], got[<<f, g>>], sent[<<f, g>>])
  BY DEF OrderOf
<1>2. InOrder(f, g, ev'[g], Taken(t)', mail'[t], got[<<f, g>>], sent[<<f, g>>])
  BY <1>1, OrderKeeps
<1>3. InOrder(f, g, ev'[g], Taken(t)', mail'[t], got'[<<f, g>>], sent'[<<f, g>>])
  BY <1>2
<1>. QED BY <1>3 DEF OrderOf

(* An event that is no post of this pair is sent.                           *)
LEMMA PairOther ==
    ASSUME TypeOK, NEW f \in Client, NEW g \in Server, NEW t, t = TaskOf[g], OrderOf(f, g),
           NEW e \in Event, ~IsPost(f, g, e), phase' = phase, dl' = dl,
           ev'[g] = ev[g] \/ ev'[g] = Append(ev[g], e),
           mail'[t] = mail[t] \/ mail'[t] = Append(mail[t], e),
           got'[<<f, g>>] = got[<<f, g>>], sent'[<<f, g>>] = sent[<<f, g>>]
    PROVE  OrderOf(f, g)'
<1>1. PICK a, c : a = ev[g] /\ c = mail[t]
  OBVIOUS
<1>2. a \in Seq(Event) /\ c \in Seq(Event)
  BY <1>1, OrderTypes
<1>3. Alike(f, g, a, a) /\ Alike(f, g, c, c) /\ Alike(f, g, Taken(t), Taken(t))
  BY NumsFacts
<1>4. Alike(f, g, a, Append(a, e)) /\ Alike(f, g, c, Append(c, e))
  BY <1>2, NumsAppend
<1>5. Alike(f, g, ev[g], ev'[g])
  BY <1>1, <1>3, <1>4
<1>6. Alike(f, g, mail[t], mail'[t])
  BY <1>1, <1>3, <1>4
<1>7. Taken(t)' = Taken(t)
  BY DEF Taken
<1>8. Alike(f, g, Taken(t), Taken(t)')
  BY <1>3, <1>7
<1>9. CASE phase[t] = "over"
  BY <1>9 DEF OrderOf
<1>. QED BY <1>5, <1>6, <1>8, <1>9, PairSame

(* Steps that send and receive nothing.                                     *)
QuietStep ==
    /\ mail' = mail /\ got' = got /\ sent' = sent
    /\ \A g \in Server : phase'[TaskOf[g]] = "over" \/ ev'[g] = ev[g]
    /\ \A t \in Task :
          \/ phase'[t] = "over"
          \/ phase[t] # "over" /\ \A f \in Client, g \in Server : Alike(f, g, Taken(t), Taken(t)')

LEMMA QuietOrder ==
    ASSUME TypeOK, PostsInOrder, QuietStep
    PROVE  PostsInOrder'
<1>1. ASSUME NEW f \in Client, NEW g \in Server PROVE OrderOf(f, g)'
  <2>1. PICK t : t = TaskOf[g]
    OBVIOUS
  <2>2. t \in Task
    BY <2>1, TaskFacts
  <2>3. CASE phase'[t] = "over"
    BY <2>1, <2>3 DEF OrderOf
  <2>4. CASE phase'[t] # "over"
    <3>1. phase[t] # "over" /\ Alike(f, g, Taken(t), Taken(t)') /\ ev'[g] = ev[g]
      BY <2>1, <2>2, <2>4 DEF QuietStep
    <3>2. OrderOf(f, g)
      BY OrderDef
    <3>3. Alike(f, g, ev[g], ev'[g]) /\ Alike(f, g, mail[t], mail'[t])
          /\ got'[<<f, g>>] = got[<<f, g>>] /\ sent'[<<f, g>>] = sent[<<f, g>>]
      BY <3>1, NumsFacts DEF QuietStep
    <3>. QED BY <2>1, <3>1, <3>2, <3>3, PairSame
  <2>. QED BY <2>3, <2>4
<1>2. \A f \in Client, g \in Server : OrderOf(f, g)'
  BY <1>1
<1>. QED BY <1>2 DEF PostsInOrder, OrderOf

\* An event other than a post may be added to a list of events, or to a channel.
SendStep(e) ==
    /\ e \in Event /\ e.kind # "post"
    /\ \A y \in Server : ev'[y] = ev[y] \/ ev'[y] = Append(ev[y], e)
    /\ \A v \in Task : mail'[v] = mail[v] \/ mail'[v] = Append(mail[v], e)
    /\ phase' = phase /\ dl' = dl /\ sent' = sent /\ got' = got

(* A call, a lookup, a request to exit.                                     *)
LEMMA SendOrder ==
    ASSUME Core, PostsInOrder, NEW f \in Client,
           \/ \E g \in Server : Call(f, g)
           \/ \E g \in Findable : tt_task_find_fiber(f, g)
           \/ \E u \in Task : tt_task_exit(f, u)
    PROVE  PostsInOrder'
<1>1. TypeOK /\ OwnThread
  BY DEF Core, EventInv
<1>2. \E e : SendStep(e)
  <2>1. ev \in [Fiber -> Seq(Event)] /\ mail \in [Task -> Seq(Event)]
    BY <1>1 DEF TypeOK
  <2>2. ASSUME NEW g \in Server, Call(f, g) PROVE \E e : SendStep(e)
    <3>1. PICK e : e = CallEv(f, g)
      OBVIOUS
    <3>2. e \in Event /\ e.kind # "post"
      BY <3>1, EventFacts
    <3>3. /\ Acts(f) /\ tt_fiber_send_ev(f, g, e, TRUE)
          /\ phase' = phase /\ dl' = dl /\ sent' = sent /\ got' = got
      BY <2>2, <3>1 DEF Call, control, counts
    <3>4. pc[f] = "go" /\ run[TaskOf[f]] = f
      BY <3>3 DEF Acts
    <3>5. \/ /\ mail' = mail /\ ev' = [ev EXCEPT ![g] = Append(ev[g], e)]
          \/ /\ ev' = ev /\ mail' = [mail EXCEPT ![TaskOf[g]] = Append(mail[TaskOf[g]], e)]
      BY <1>1, <3>2, <3>3, <3>4, SendSwitch
    <3>6. g \in Fiber /\ TaskOf[g] \in Task /\ Server \subseteq Fiber
      BY TaskFacts
    <3>7. /\ \A y \in Server : ev'[y] = ev[y] \/ ev'[y] = Append(ev[y], e)
          /\ \A v \in Task : mail'[v] = mail[v] \/ mail'[v] = Append(mail[v], e)
      BY <2>1, <3>5, <3>6
    <3>8. SendStep(e)
      BY <3>2, <3>3, <3>7 DEF SendStep
    <3>. QED BY <3>8
  <2>3. ASSUME NEW g \in Findable, tt_task_find_fiber(f, g) PROVE \E e : SendStep(e)
    <3>1. PICK e : e = FindEv(f, g)
      OBVIOUS
    <3>2. e \in Event /\ e.kind # "post"
      BY <3>1, EventFacts
    <3>3. /\ ev' = ev /\ mail' = [mail EXCEPT ![TaskOf[g]] = Append(mail[TaskOf[g]], e)]
          /\ phase' = phase /\ dl' = dl /\ sent' = sent /\ got' = got
      BY <2>3, <3>1 DEF tt_task_find_fiber, control, counts, tt_list_push_tail
    <3>4. \A v \in Task : mail'[v] = mail[v] \/ mail'[v] = Append(mail[v], e)
      BY <2>1, <3>3
    <3>5. SendStep(e)
      BY <3>2, <3>3, <3>4 DEF SendStep
    <3>. QED BY <3>5
  <2>4. ASSUME NEW u \in Task, tt_task_exit(f, u) PROVE \E e : SendStep(e)
    <3>1. ExitEv \in Event /\ ExitEv.kind # "post"
      BY EventFacts
    <3>2. /\ ev' = ev /\ phase' = phase /\ dl' = dl /\ sent' = sent /\ got' = got
          /\ mail' = mail \/ mail' = [mail EXCEPT ![u] = Append(mail[u], ExitEv)]
      BY <2>4 DEF tt_task_exit, counts, tt_list_push_tail
    <3>3. \A v \in Task : mail'[v] = mail[v] \/ mail'[v] = Append(mail[v], ExitEv)
      BY <2>1, <3>2
    <3>4. SendStep(ExitEv)
      BY <3>1, <3>2, <3>3 DEF SendStep
    <3>. QED BY <3>4
  <2>. QED BY <2>2, <2>3, <2>4
<1>3. PICK e : SendStep(e)
  BY <1>2
<1>4. ASSUME NEW x \in Client, NEW y \in Server PROVE OrderOf(x, y)'
  <2>1. PICK t : t = TaskOf[y]
    OBVIOUS
  <2>2. t \in Task /\ OrderOf(x, y) /\ ~IsPost(x, y, e)
    BY <1>3, <2>1, TaskFacts, OrderDef DEF IsPost, SendStep
  <2>3. /\ ev'[y] = ev[y] \/ ev'[y] = Append(ev[y], e)
        /\ mail'[t] = mail[t] \/ mail'[t] = Append(mail[t], e)
        /\ e \in Event /\ phase' = phase /\ dl' = dl /\ sent' = sent /\ got' = got
    BY <1>3, <2>2 DEF SendStep
  <2>. QED BY <1>1, <2>1, <2>2, <2>3, PairOther
<1>5. \A x \in Client, y \in Server : OrderOf(x, y)'
  BY <1>4
<1>. QED BY <1>5 DEF PostsInOrder, OrderOf

(* No post to a fiber of the own task is in a channel.                      *)
LEMMA DirectPosts ==
    ASSUME TypeOK, Addressed, NEW f \in Client, NEW g \in Server, SameSched(f, g)
    PROVE  Nums(f, g, Taken(TaskOf[g])) = {} /\ Nums(f, g, mail[TaskOf[g]]) = {}
<1>1. PICK t : t = TaskOf[g]
  OBVIOUS
<1>2. t \in Task /\ TaskOf[f] = t
  BY <1>1, TaskFacts DEF SameSched
<1>3. \A e : ForTask(t, e) => ~IsPost(f, g, e)
  BY <1>2 DEF ForTask, IsPost
<1>4. \A i \in DOMAIN mail[t] : ~IsPost(f, g, mail[t][i])
  BY <1>2, <1>3 DEF Addressed, Nodes
<1>5. phase[t] = "mail" => \A i \in DOMAIN dl[t] : ~IsPost(f, g, dl[t][i])
  BY <1>2, <1>3 DEF Addressed, Nodes
<1>6. Nums(f, g, mail[t]) = {}
  BY <1>4 DEF Nums
<1>7. phase[t] = "mail" => Nums(f, g, dl[t]) = {}
  BY <1>5 DEF Nums
<1>. QED BY <1>1, <1>6, <1>7, NumsFacts DEF Taken

(* A post gets the next number and goes to the end of its way.              *)
LEMMA PostOrder ==
    ASSUME Core, PostsInOrder, NEW f \in Client, NEW g \in Server, Post(f, g)
    PROVE  PostsInOrder'
<1>1. TypeOK /\ OwnThread /\ Addressed
  BY DEF Core, EventInv
<1>2. PICK n, e, t : n = sent[<<f, g>>] + 1 /\ e = PostEv(f, g, n) /\ t = TaskOf[g]
  OBVIOUS
<1>3. /\ Acts(f) /\ tt_fiber_send_ev(f, g, e, FALSE) /\ sent' = [sent EXCEPT ![<<f, g>>] = n]
      /\ phase' = phase /\ dl' = dl /\ got' = got
  BY <1>2 DEF Post, control
<1>4. n \in Nat /\ t \in Task /\ g \in Fiber /\ Server \subseteq Fiber
  BY <1>1, <1>2, OrderTypes, TaskFacts
<1>5. e \in Event /\ e.kind = "post" /\ e.src = f /\ e.dst = g /\ e.n = n
  BY <1>2, <1>4, EventFacts
<1>6. pc[f] = "go" /\ run[TaskOf[f]] = f
  BY <1>3 DEF Acts
<1>7. \/ SameSched(f, g) /\ mail' = mail /\ ev' = [ev EXCEPT ![g] = Append(ev[g], e)]
      \/ ev' = ev /\ mail' = [mail EXCEPT ![t] = Append(mail[t], e)]
  <2>1. PICK w \in BOOLEAN : w = FALSE
    OBVIOUS
  <2>2. /\ TypeOK /\ OwnThread /\ e \in Event /\ pc[f] = "go" /\ run[TaskOf[f]] = f
        /\ tt_fiber_send_ev(f, g, e, w)
    BY <1>1, <1>3, <1>5, <1>6, <2>1
  <2>3. \/ /\ SameSched(f, g) /\ mail' = mail
           /\ ev' = [ev EXCEPT ![g] = Append(ev[g], e)]
        \/ /\ ~SameSched(f, g) /\ ev' = ev
           /\ mail' = [mail EXCEPT ![TaskOf[g]] = Append(mail[TaskOf[g]], e)]
    BY <2>2, SendSwitch
  <2>. QED BY <1>2, <2>3
<1>8. ev \in [Fiber -> Seq(Event)] /\ mail \in [Task -> Seq(Event)] /\ sent \in [Pair -> Nat]
  BY <1>1 DEF TypeOK
<1>9. /\ \A y \in Server : ev'[y] = ev[y] \/ ev'[y] = Append(ev[y], e)
      /\ \A v \in Task : mail'[v] = mail[v] \/ mail'[v] = Append(mail[v], e)
  BY <1>4, <1>7, <1>8
<1>10. \A v \in Task : Taken(v)' = Taken(v)
  BY <1>3 DEF Taken
<1>11. ASSUME NEW x \in Client, NEW y \in Server PROVE OrderOf(x, y)'
  <2>1. OrderOf(x, y) /\ TaskOf[y] \in Task /\ <<x, y>> \in Pair /\ <<f, g>> \in Pair
    BY OrderDef, TaskFacts DEF Pair
  <2>2. CASE x = f /\ y = g
    <3>1. PICK a, b, c, lo, hi : /\ a = ev[g] /\ b = Taken(t) /\ c = mail[t]
                                 /\ lo = got[<<f, g>>] /\ hi = sent[<<f, g>>]
      OBVIOUS
    <3>2. /\ a \in Seq(Event) /\ b \in Seq(Event) /\ c \in Seq(Event) /\ lo \in Nat /\ hi \in Nat
      BY <1>1, <1>2, <3>1, OrderTypes
    <3>3. IsPost(f, g, e) /\ e.n = hi + 1
      BY <1>2, <1>5, <3>1 DEF IsPost
    <3>4. sent'[<<f, g>>] = hi + 1 /\ got'[<<f, g>>] = lo
      BY <1>2, <1>3, <1>8, <2>1, <3>1
    <3>5. ASSUME phase[t] # "over"
          PROVE  InOrder(f, g, ev'[g], Taken(t)', mail'[t], got'[<<f, g>>], sent'[<<f, g>>])
      <4>1. InOrder(f, g, a, b, c, lo, hi)
        BY <1>2, <2>1, <2>2, <3>1, <3>5 DEF OrderOf
      <4>2. CASE SameSched(f, g) /\ mail' = mail /\ ev' = [ev EXCEPT ![g] = Append(ev[g], e)]
        <5>1. Nums(f, g, b) = {} /\ Nums(f, g, c) = {}
          BY <1>1, <1>2, <3>1, <4>2, DirectPosts
        <5>2. InOrder(f, g, Append(a, e), b, c, lo, hi + 1)
          BY <1>5, <3>2, <3>3, <4>1, <5>1, OrderSent
        <5>3. ev'[g] = Append(a, e) /\ Taken(t)' = b /\ mail'[t] = c
          BY <1>4, <1>8, <1>10, <3>1, <4>2
        <5>. QED BY <3>4, <5>2, <5>3
      <4>3. CASE ev' = ev /\ mail' = [mail EXCEPT ![t] = Append(mail[t], e)]
        <5>1. InOrder(f, g, a, b, Append(c, e), lo, hi + 1)
          BY <1>5, <3>2, <3>3, <4>1, OrderSent
        <5>2. ev'[g] = a /\ Taken(t)' = b /\ mail'[t] = Append(c, e)
          BY <1>4, <1>8, <1>10, <3>1, <4>3
        <5>. QED BY <3>4, <5>1, <5>2
      <4>. QED BY <1>7, <4>2, <4>3
    <3>. QED BY <1>2, <1>3, <2>2, <3>5 DEF OrderOf
  <2>3. CASE ~(x = f /\ y = g)
    <3>1. ~IsPost(x, y, e)
      BY <1>5, <2>3 DEF IsPost
    <3>2. sent'[<<x, y>>] = sent[<<x, y>>] /\ got'[<<x, y>>] = got[<<x, y>>]
      BY <1>3, <1>8, <2>1, <2>3
    <3>3. /\ ev'[y] = ev[y] \/ ev'[y] = Append(ev[y], e)
          /\ mail'[TaskOf[y]] = mail[TaskOf[y]] \/ mail'[TaskOf[y]] = Append(mail[TaskOf[y]], e)
      BY <1>9, <2>1
    <3>4. PICK u : u = TaskOf[y]
      OBVIOUS
    <3>5. mail'[u] = mail[u] \/ mail'[u] = Append(mail[u], e)
      BY <3>3, <3>4
    <3>. QED BY <1>1, <1>3, <1>5, <2>1, <3>1, <3>2, <3>3, <3>4, <3>5, PairOther
  <2>. QED BY <2>2, <2>3
<1>12. \A x \in Client, y \in Server : OrderOf(x, y)'
  BY <1>11
<1>. QED BY <1>12 DEF PostsInOrder, OrderOf

(* A server receives the next post of a fiber: the number after the last one. *)
LEMMA RecvOrder ==
    ASSUME Core, PostsInOrder, NEW s \in Server, tt_fiber_recv_ev(s), HasEvent(s)
    PROVE  PostsInOrder'
<1>1. TypeOK /\ Addressed
  BY DEF Core, EventInv
<1>2. PICK a, e : a = ev[s] /\ e = Head(a)
  OBVIOUS
<1>3. /\ a # <<>> /\ ev' = [ev EXCEPT ![s] = Tail(a)]
      /\ got' = (IF e.kind = "post" THEN [got EXCEPT ![<<e.src, s>>] = e.n] ELSE got)
      /\ phase' = phase /\ mail' = mail /\ dl' = dl /\ sent' = sent
  BY <1>2 DEF tt_fiber_recv_ev, HasEvent, control, lists
<1>4. s \in Fiber /\ Server \subseteq Fiber
  BY TaskFacts
<1>5. /\ ev \in [Fiber -> Seq(Event)] /\ got \in [Pair -> Nat] /\ a \in Seq(Event)
  BY <1>1, <1>2, <1>4 DEF TypeOK
<1>6. e \in Nodes(a)
  BY <1>2, <1>3, <1>5, HeadIsNode
<1>7. e.dst = s
  BY <1>1, <1>2, <1>4, <1>6 DEF Addressed
<1>8. ev'[s] = Tail(a) /\ \A y \in Server \ {s} : ev'[y] = ev[y]
  BY <1>3, <1>4, <1>5
<1>9. \A v \in Task : Taken(v)' = Taken(v)
  BY <1>3 DEF Taken
<1>10. ASSUME NEW f \in Client, NEW g \in Server PROVE OrderOf(f, g)'
  <2>1. PICK t, b, c, lo, hi : /\ t = TaskOf[g] /\ b = Taken(t) /\ c = mail[t]
                               /\ lo = got[<<f, g>>] /\ hi = sent[<<f, g>>]
    OBVIOUS
  <2>2. /\ t \in Task /\ b \in Seq(Event) /\ c \in Seq(Event) /\ lo \in Nat /\ hi \in Nat
        /\ <<f, g>> \in Pair
    BY <1>1, <2>1, OrderTypes DEF Pair
  <2>3. OrderOf(f, g)
    BY OrderDef
  <2>4. Taken(t)' = b /\ mail'[t] = c /\ sent'[<<f, g>>] = hi /\ phase'[t] = phase[t]
    BY <1>3, <1>9, <2>1, <2>2
  <2>5. CASE phase[t] = "over"
    BY <2>1, <2>4, <2>5 DEF OrderOf
  <2>6. CASE phase[t] # "over" /\ g = s /\ IsPost(f, g, e)
    <3>1. InOrder(f, g, a, b, c, lo, hi)
      BY <1>2, <2>1, <2>3, <2>6 DEF OrderOf
    <3>2. InOrder(f, g, Tail(a), b, c, Head(a).n, hi)
      BY <1>2, <1>3, <1>5, <2>2, <2>6, <3>1, OrderReceived
    <3>3. got'[<<f, g>>] = Head(a).n
      BY <1>2, <1>3, <1>5, <2>2, <2>6 DEF IsPost
    <3>4. InOrder(f, g, ev'[g], Taken(t)', mail'[t], got'[<<f, g>>], sent'[<<f, g>>])
      BY <1>8, <2>4, <2>6, <3>2, <3>3
    <3>. QED BY <2>1, <3>4 DEF OrderOf
  <2>7. CASE phase[t] # "over" /\ ~(g = s /\ IsPost(f, g, e))
    <3>1. Alike(f, g, b, b) /\ Alike(f, g, c, c) /\ Alike(f, g, ev[g], ev[g])
      BY NumsFacts
    <3>2. Alike(f, g, ev[g], ev'[g])
      <4>1. CASE g = s
        <5>1. Alike(f, g, a, Tail(a))
          BY <1>2, <1>3, <1>5, <2>7, <4>1, NumsTail
        <5>. QED BY <1>2, <1>8, <4>1, <5>1
      <4>2. CASE g # s
        <5>1. ev'[g] = ev[g]
          BY <1>8, <4>2
        <5>. QED BY <3>1, <5>1
      <4>. QED BY <4>1, <4>2
    <3>3. got'[<<f, g>>] = got[<<f, g>>]
      <4>1. CASE e.kind = "post"
        <5>1. <<e.src, s>> # <<f, g>>
          BY <1>7, <2>7, <4>1 DEF IsPost
        <5>. QED BY <1>3, <1>5, <2>2, <4>1, <5>1
      <4>2. CASE e.kind # "post"
        BY <1>3, <4>2
      <4>. QED BY <4>1, <4>2
    <3>4. Alike(f, g, Taken(t), Taken(t)') /\ Alike(f, g, mail[t], mail'[t])
      BY <2>1, <2>4, <3>1
    <3>5. sent'[<<f, g>>] = sent[<<f, g>>]
      BY <2>1, <2>4
    <3>. QED BY <2>1, <2>3, <2>7, <3>2, <3>3, <3>4, <3>5, PairSame
  <2>. QED BY <2>5, <2>6, <2>7
<1>11. \A f \in Client, g \in Server : OrderOf(f, g)'
  BY <1>10
<1>. QED BY <1>11 DEF PostsInOrder, OrderOf

(* The messages of a task are taken as a whole.                             *)
LEMMA PollOrder ==
    ASSUME Core, PostsInOrder, NEW t \in Task, PollMail(t)
    PROVE  PostsInOrder'
<1>1. TypeOK
  BY DEF Core, EventInv
<1>2. PICK c : c = mail[t]
  OBVIOUS
<1>3. /\ phase[t] = "loop" /\ phase' = [phase EXCEPT ![t] = "mail"] /\ dl' = [dl EXCEPT ![t] = c]
      /\ mail' = [mail EXCEPT ![t] = <<>>] /\ ev' = ev /\ sent' = sent /\ got' = got
  BY <1>2 DEF PollMail, Poll, Polls, MainRuns, counts
<1>4. /\ phase'[t] = "mail" /\ dl'[t] = c /\ mail'[t] = <<>>
      /\ \A v \in Task \ {t} : phase'[v] = phase[v] /\ dl'[v] = dl[v] /\ mail'[v] = mail[v]
  BY <1>1, <1>3 DEF TypeOK
<1>5. Taken(t) = <<>> /\ Taken(t)' = c /\ \A v \in Task \ {t} : Taken(v)' = Taken(v)
  BY <1>3, <1>4 DEF Taken
<1>6. ASSUME NEW f \in Client, NEW g \in Server PROVE OrderOf(f, g)'
  <2>1. PICK u, a, lo, hi : /\ u = TaskOf[g] /\ a = ev[g]
                            /\ lo = got[<<f, g>>] /\ hi = sent[<<f, g>>]
    OBVIOUS
  <2>2. /\ u \in Task /\ a \in Seq(Event) /\ lo \in Nat /\ hi \in Nat
        /\ Taken(u) \in Seq(Event) /\ mail[u] \in Seq(Event)
    BY <1>1, <2>1, OrderTypes
  <2>3. OrderOf(f, g)
    BY OrderDef
  <2>4. CASE u = t
    <3>1. InOrder(f, g, a, <<>>, c, lo, hi)
      BY <1>2, <1>3, <1>5, <2>1, <2>3, <2>4 DEF OrderOf
    <3>2. <<>> \in Seq(Event) /\ c \in Seq(Event)
      BY <1>2, <2>2, <2>4
    <3>3. InOrder(f, g, a, c, <<>>, lo, hi)
      BY <2>2, <3>1, <3>2, OrderMoved
    <3>4. InOrder(f, g, ev'[g], Taken(u)', mail'[u], got'[<<f, g>>], sent'[<<f, g>>])
      BY <1>3, <1>4, <1>5, <2>1, <2>4, <3>3
    <3>. QED BY <2>1, <3>4 DEF OrderOf
  <2>5. CASE u # t
    <3>1. Taken(u)' = Taken(u) /\ mail'[u] = mail[u] /\ phase'[u] = phase[u]
      BY <1>4, <1>5, <2>2, <2>5
    <3>2. \A l : Alike(f, g, l, l)
      BY NumsFacts
    <3>3. Alike(f, g, Taken(u), Taken(u)') /\ Alike(f, g, mail[u], mail'[u])
          /\ Alike(f, g, ev[g], ev'[g])
      BY <1>3, <3>1, <3>2
    <3>4. CASE phase[u] = "over"
      BY <2>1, <3>1, <3>4 DEF OrderOf
    <3>. QED BY <1>3, <2>1, <2>3, <3>3, <3>4, PairSame
  <2>. QED BY <2>4, <2>5
<1>7. \A f \in Client, g \in Server : OrderOf(f, g)'
  BY <1>6
<1>. QED BY <1>7 DEF PostsInOrder, OrderOf

(* The handler delivers the first of the messages it has taken.             *)
LEMMA DeliverOrder ==
    ASSUME Core, PostsInOrder, NEW t \in Task, DeliverMail(t)
    PROVE  PostsInOrder'
<1>1. TypeOK /\ Addressed
  BY DEF Core, EventInv
<1>2. PICK b, e, d : b = dl[t] /\ e = Head(b) /\ d = e.dst
  OBVIOUS
<1>3. /\ phase[t] = "mail" /\ b # <<>> /\ e.kind \in {"call", "post"}
      /\ dl' = [dl EXCEPT ![t] = Tail(b)] /\ ev' = [ev EXCEPT ![d] = Append(ev[d], e)]
      /\ phase' = phase /\ mail' = mail /\ sent' = sent /\ got' = got
  BY <1>2 DEF DeliverMail, Takes, MainRuns, AddEv, control, counts, tt_list_push_tail
<1>4. b \in Seq(Event)
  BY <1>1, <1>2 DEF TypeOK
<1>5. e \in Event /\ e \in Nodes(b)
  BY <1>2, <1>3, <1>4, HeadIsNode
<1>6. d \in Server /\ TaskOf[d] = t /\ d \in Fiber /\ Server \subseteq Fiber
  BY <1>1, <1>2, <1>3, <1>5, EventFacts, TaskFacts DEF Addressed, ForTask
<1>7. /\ ev'[d] = Append(ev[d], e) /\ \A y \in Server \ {d} : ev'[y] = ev[y]
  BY <1>1, <1>3, <1>6 DEF TypeOK
<1>8. Taken(t) = b /\ Taken(t)' = Tail(b) /\ \A v \in Task \ {t} : Taken(v)' = Taken(v)
  BY <1>1, <1>2, <1>3 DEF TypeOK, Taken
<1>9. ASSUME NEW f \in Client, NEW g \in Server PROVE OrderOf(f, g)'
  <2>1. PICK u, a, c, lo, hi : /\ u = TaskOf[g] /\ a = ev[g] /\ c = mail[u]
                               /\ lo = got[<<f, g>>] /\ hi = sent[<<f, g>>]
    OBVIOUS
  <2>2. u \in Task /\ a \in Seq(Event) /\ c \in Seq(Event) /\ lo \in Nat /\ hi \in Nat
    BY <1>1, <2>1, OrderTypes
  <2>3. OrderOf(f, g)
    BY OrderDef
  <2>4. CASE IsPost(f, g, e)
    <3>1. g = d /\ u = t
      BY <1>2, <1>6, <2>1, <2>4 DEF IsPost
    <3>2. InOrder(f, g, a, b, c, lo, hi)
      BY <1>3, <1>8, <2>1, <2>3, <3>1 DEF OrderOf
    <3>3. InOrder(f, g, Append(a, Head(b)), Tail(b), c, lo, hi)
      BY <1>2, <1>3, <1>4, <2>2, <2>4, <3>2, OrderMoved
    <3>4. InOrder(f, g, ev'[g], Taken(u)', mail'[u], got'[<<f, g>>], sent'[<<f, g>>])
      BY <1>2, <1>3, <1>7, <1>8, <2>1, <3>1, <3>3
    <3>. QED BY <2>1, <3>4 DEF OrderOf
  <2>5. CASE ~IsPost(f, g, e)
    <3>1. \A l : Alike(f, g, l, l)
      BY NumsFacts
    <3>2. Alike(f, g, ev[g], ev'[g])
      <4>1. CASE g = d
        <5>1. Alike(f, g, a, Append(a, e))
          BY <1>5, <2>2, <2>5, NumsAppend
        <5>. QED BY <1>7, <2>1, <4>1, <5>1
      <4>2. CASE g # d
        <5>1. ev'[g] = ev[g]
          BY <1>7, <4>2
        <5>. QED BY <3>1, <5>1
      <4>. QED BY <4>1, <4>2
    <3>3. Alike(f, g, Taken(u), Taken(u)')
      <4>1. CASE u = t
        <5>1. Alike(f, g, b, Tail(b))
          BY <1>2, <1>3, <1>4, <2>5, NumsTail
        <5>. QED BY <1>8, <4>1, <5>1
      <4>2. CASE u # t
        <5>1. Taken(u)' = Taken(u)
          BY <1>8, <2>2, <4>2
        <5>. QED BY <3>1, <5>1
      <4>. QED BY <4>1, <4>2
    <3>4. Alike(f, g, mail[u], mail'[u])
      BY <1>3, <3>1
    <3>5. CASE phase[u] = "over"
      BY <1>3, <2>1, <3>5 DEF OrderOf
    <3>. QED BY <1>3, <2>1, <2>3, <3>2, <3>3, <3>4, <3>5, PairSame
  <2>. QED BY <2>4, <2>5
<1>10. \A f \in Client, g \in Server : OrderOf(f, g)'
  BY <1>9
<1>. QED BY <1>10 DEF PostsInOrder, OrderOf

(* Steps that leave lists and channels alone.                               *)
LEMMA StillQuiet ==
    ASSUME ev' = ev, mail' = mail, got' = got, sent' = sent,
           \A t \in Task : phase[t] = "over" => phase'[t] = "over",
           \A t \in Task : Taken(t)' = Taken(t)
    PROVE  QuietStep
<1>1. \A f \in Client, g \in Server : \A s : Alike(f, g, s, s)
  BY NumsFacts
<1>2. \A t \in Task : \A f \in Client, g \in Server : Alike(f, g, Taken(t), Taken(t)')
  BY <1>1
<1>. QED BY <1>2 DEF QuietStep

LEMMA SwitchQuiet ==
    ASSUME NEW t \in Task,
           \/ StoreThread(t) \/ RunActive(t) \/ FirstRound(t)
           \/ \E f \in Client : tt_fiber_yield(f) \/ ClientEnds(f)
           \/ \E s \in Server : (tt_fiber_recv_ev(s) /\ ~HasEvent(s)) \/ tt_fiber_finish(s)
    PROVE  QuietStep
<1>1. UNCHANGED <<ev, mail, got, sent, phase, dl>>
  <2>1. CASE StoreThread(t) \/ RunActive(t) \/ FirstRound(t)
    BY <2>1 DEF StoreThread, RunActive, FirstRound, control, lists, counts
  <2>2. CASE \E f \in Client : tt_fiber_yield(f) \/ ClientEnds(f)
    BY <2>2 DEF tt_fiber_yield, ClientEnds, control, lists, counts
  <2>3. ASSUME NEW s \in Server, tt_fiber_recv_ev(s), ~HasEvent(s)
        PROVE  UNCHANGED <<ev, mail, got, sent, phase, dl>>
    BY <2>3 DEF tt_fiber_recv_ev, control, lists
  <2>4. ASSUME NEW s \in Server, tt_fiber_finish(s)
        PROVE  UNCHANGED <<ev, mail, got, sent, phase, dl>>
    BY <2>4 DEF tt_fiber_finish, control, counts
  <2>. QED BY <2>1, <2>2, <2>3, <2>4
<1>2. \A u \in Task : Taken(u)' = Taken(u)
  BY <1>1 DEF Taken
<1>. QED BY <1>1, <1>2, StillQuiet

LEMMA PhaseQuiet ==
    ASSUME TypeOK, NEW t \in Task,
           \/ tt_task_run(t) \/ EnterLoop(t) \/ HandlerReturns(t) \/ PollDone(t) \/ HandleDone(t)
    PROVE  QuietStep
<1>1. /\ UNCHANGED <<ev, mail, got, sent>> /\ phase[t] # "over" /\ phase' \in [Task -> Phase]
      /\ \A u \in Task \ {t} : phase'[u] = phase[u] /\ dl'[u] = dl[u]
      /\ phase[t] = "mail" => dl[t] = <<>>
      /\ phase'[t] # "mail"
  <2>1. phase \in [Task -> Phase] /\ dl \in [Task -> Seq(Event)]
    BY DEF TypeOK
  <2>2. CASE tt_task_run(t)
    BY <2>1, <2>2 DEF tt_task_run, lists, counts, Phase
  <2>3. CASE EnterLoop(t)
    BY <2>1, <2>3 DEF EnterLoop, MainRuns, lists, counts, Phase
  <2>4. CASE HandlerReturns(t)
    BY <2>1, <2>4 DEF HandlerReturns, MainRuns, lists, counts, Phase
  <2>5. CASE PollDone(t)
    BY <2>1, <2>5 DEF PollDone, Poll, Polls, MainRuns, lists, counts, Phase
  <2>6. CASE HandleDone(t)
    BY <2>1, <2>6 DEF HandleDone, Takes, MainRuns, control, counts, Phase
  <2>. QED BY <2>2, <2>3, <2>4, <2>5, <2>6
<1>2. \A u \in Task : Taken(u)' = Taken(u)
  BY <1>1 DEF Taken
<1>3. \A u \in Task : phase[u] = "over" => phase'[u] = "over"
  BY <1>1
<1>. QED BY <1>1, <1>2, <1>3, StillQuiet

(* A lookup is answered: it is no post.                                     *)
LEMMA FindQuiet ==
    ASSUME TypeOK, NEW t \in Task, __do_find_fiber(t)
    PROVE  QuietStep
<1>1. PICK b, e : b = dl[t] /\ e = Head(b)
  OBVIOUS
<1>2. /\ phase[t] = "mail" /\ b # <<>> /\ e.kind = "find" /\ dl' = [dl EXCEPT ![t] = Tail(b)]
      /\ UNCHANGED <<ev, mail, got, sent, phase>>
  BY <1>1 DEF __do_find_fiber, Takes, MainRuns, control, counts
<1>3. Taken(t) = b /\ Taken(t)' = Tail(b) /\ \A u \in Task \ {t} : Taken(u)' = Taken(u)
  BY <1>1, <1>2 DEF TypeOK, Taken
<1>4. b \in Seq(Event)
  BY <1>1 DEF TypeOK
<1>5. ASSUME NEW u \in Task, NEW f \in Client, NEW g \in Server
      PROVE  Alike(f, g, Taken(u), Taken(u)')
  <2>1. CASE u = t
    <3>1. ~IsPost(f, g, Head(b))
      BY <1>1, <1>2 DEF IsPost
    <3>2. Alike(f, g, b, Tail(b))
      BY <1>2, <1>4, <3>1, NumsTail
    <3>. QED BY <1>3, <2>1, <3>2
  <2>2. CASE u # t
    <3>1. \A s : Alike(f, g, s, s)
      BY NumsFacts
    <3>. QED BY <1>3, <2>2, <3>1
  <2>. QED BY <2>1, <2>2
<1>. QED BY <1>2, <1>5 DEF QuietStep

(* A task ends: there is nobody left to receive what was posted to it.       *)
LEMMA OverQuiet ==
    ASSUME TypeOK, NEW t \in Task, AllFibersEnded(t) \/ HandleExit(t)
    PROVE  QuietStep
<1>1. Over(t) /\ UNCHANGED <<mail, got, sent>>
  BY DEF AllFibersEnded, HandleExit, counts
<1>2. /\ phase'[t] = "over"
      /\ \A u \in Task \ {t} : phase'[u] = phase[u] /\ dl'[u] = dl[u]
  BY <1>1 DEF Over, TypeOK
<1>3. \A u \in Task \ {t} : Taken(u)' = Taken(u)
  BY <1>2 DEF Taken
<1>4. ASSUME NEW g \in Server PROVE phase'[TaskOf[g]] = "over" \/ ev'[g] = ev[g]
  <2>1. g \in Fiber /\ (g \in Nodes(Tfl[t]) <=> TaskOf[g] = t)
    BY TaskFacts
  <2>2. TaskOf[g] # t => ev'[g] = ev[g]
    BY <1>1, <2>1 DEF Over
  <2>. QED BY <1>2, <2>2
<1>5. ASSUME NEW u \in Task
      PROVE  \/ phase'[u] = "over"
             \/ phase[u] # "over" /\ \A f \in Client, g \in Server : Alike(f, g, Taken(u), Taken(u)')
  <2>1. CASE u = t
    BY <1>2, <2>1
  <2>2. CASE u # t
    <3>1. phase'[u] = phase[u] /\ Taken(u)' = Taken(u)
      BY <1>2, <1>3, <2>2
    <3>2. \A f \in Client, g \in Server : Alike(f, g, Taken(u), Taken(u))
      BY NumsFacts
    <3>. QED BY <3>1, <3>2
  <2>. QED BY <2>1, <2>2
<1>. QED BY <1>1, <1>4, <1>5 DEF QuietStep

LEMMA NextOrder == Core /\ PostsInOrder /\ [Next]_vars => PostsInOrder'
<1> SUFFICES ASSUME Core, PostsInOrder, [Next]_vars PROVE PostsInOrder'
  OBVIOUS
<1>1. TypeOK
  BY DEF Core, EventInv
<1>2. CASE UNCHANGED vars
  <2>1. ev' = ev /\ mail' = mail /\ got' = got /\ sent' = sent /\ phase' = phase /\ dl' = dl
    BY <1>2 DEF vars
  <2>2. \A u \in Task : Taken(u)' = Taken(u)
    BY <2>1 DEF Taken
  <2>3. QuietStep
    BY <2>1, <2>2, StillQuiet
  <2>. QED BY <1>1, <2>3, QuietOrder
<1>3. ASSUME NEW t \in Task, NEW f \in Nodes(Tfl[t]) \cap Client, ClientNext(f)
      PROVE  PostsInOrder'
  <2>1. f \in Client
    OBVIOUS
  <2>2. ASSUME NEW g \in Server, Post(f, g) PROVE PostsInOrder'
    BY <2>1, <2>2, PostOrder
  <2>3. CASE \/ \E g \in Server : Call(f, g)
             \/ \E g \in Findable : tt_task_find_fiber(f, g)
             \/ \E u \in Task : tt_task_exit(f, u)
    BY <2>1, <2>3, SendOrder
  <2>4. CASE tt_fiber_yield(f) \/ ClientEnds(f)
    BY <1>1, <2>1, <2>4, SwitchQuiet, QuietOrder
  <2>. QED BY <1>3, <2>2, <2>3, <2>4 DEF ClientNext
<1>4. ASSUME NEW t \in Task, NEW f \in Nodes(Tfl[t]) \cap Server,
             tt_fiber_recv_ev(f) \/ tt_fiber_finish(f)
      PROVE  PostsInOrder'
  <2>1. f \in Server
    OBVIOUS
  <2>2. CASE tt_fiber_recv_ev(f) /\ HasEvent(f)
    BY <2>1, <2>2, RecvOrder
  <2>3. CASE (tt_fiber_recv_ev(f) /\ ~HasEvent(f)) \/ tt_fiber_finish(f)
    BY <1>1, <2>1, <2>3, SwitchQuiet, QuietOrder
  <2>. QED BY <1>4, <2>2, <2>3
<1>5. ASSUME NEW t \in Task, MainNext(t) PROVE PostsInOrder'
  <2>1. CASE FirstRound(t) \/ RunActive(t)
    BY <1>1, <2>1, SwitchQuiet, QuietOrder
  <2>2. CASE EnterLoop(t) \/ HandlerReturns(t) \/ PollDone(t) \/ HandleDone(t)
    BY <1>1, <2>2, PhaseQuiet, QuietOrder
  <2>3. CASE AllFibersEnded(t) \/ HandleExit(t)
    BY <1>1, <2>3, OverQuiet, QuietOrder
  <2>4. CASE PollMail(t)
    BY <2>4, PollOrder
  <2>5. CASE DeliverMail(t)
    BY <2>5, DeliverOrder
  <2>6. CASE __do_find_fiber(t)
    BY <1>1, <2>6, FindQuiet, QuietOrder
  <2>. QED BY <1>5, <2>1, <2>2, <2>3, <2>4, <2>5, <2>6 DEF MainNext
<1>6. CASE Next
  <2>1. PICK t \in Task : tt_task_run(t) \/ StoreThread(t) \/ ThreadNext(t)
    BY <1>6 DEF Next
  <2>2. CASE tt_task_run(t)
    BY <1>1, <2>2, PhaseQuiet, QuietOrder
  <2>3. CASE StoreThread(t)
    BY <1>1, <2>3, SwitchQuiet, QuietOrder
  <2>4. CASE ThreadNext(t)
    BY <1>3, <1>4, <1>5, <2>4 DEF ThreadNext
  <2>. QED BY <2>1, <2>2, <2>3, <2>4
<1>. QED BY <1>2, <1>6

LEMMA InitOrder == Init => PostsInOrder
<1> SUFFICES ASSUME Init, NEW f \in Client, NEW g \in Server PROVE OrderOf(f, g)
  BY OrderDef
<1>1. g \in Fiber /\ TaskOf[g] \in Task /\ <<f, g>> \in Pair
  BY TaskFacts DEF Pair
<1>2. /\ ev[g] = <<>> /\ Taken(TaskOf[g]) = <<>> /\ mail[TaskOf[g]] = <<>>
      /\ got[<<f, g>>] = 0 /\ sent[<<f, g>>] = 0
  BY <1>1 DEF Init, Taken
<1>3. Nums(f, g, <<>>) = {} /\ Rising(f, g, <<>>)
  BY NumsFacts
<1>4. Before({}, {}) /\ {} = 0 + 1 .. 0
  BY DEF Before
<1>5. InOrder(f, g, <<>>, <<>>, <<>>, 0, 0)
  BY <1>3, <1>4 DEF InOrder
<1>. QED BY <1>2, <1>5 DEF OrderOf

(* The posts of one fiber to another arrive in the order in which they were    *)
(* sent, none is lost and none comes twice, whichever way tt_fiber_send_ev()   *)
(* chooses for them and however the steps of the two threads interleave.       *)
THEOREM PostsKeepOrder == Spec => []PostsInOrder
<1>1. Init => PostsInOrder
  BY InitOrder
<1>2. Core /\ PostsInOrder /\ [Next]_vars => PostsInOrder'
  BY NextOrder
<1>. QED BY <1>1, <1>2, CoreInvariant, PTL DEF Spec
=============================================================================
