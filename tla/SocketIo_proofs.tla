--------------------------- MODULE SocketIo_proofs ---------------------------
(***************************************************************************)
(* Sockets and the fibers that wait for them: no pointer to the io event of *)
(* a call that has returned, no wait without a wakeup, and every byte that  *)
(* the kernel moved is reported by a call, for any number of fibers and     *)
(* sockets and any sizes.                                                   *)
(***************************************************************************)
EXTENDS SocketIo, TLAPS

(* The inductive invariant: what a run checks of registrations and results. *)
IInv == SocketInv /\ Accounting

(* A sequence of at most one element.                                       *)
LEMMA AtMostOne ==
    ASSUME NEW S, NEW q \in Seq(S), Len(q) <= 1
    PROVE  \/ q = <<>> /\ DOMAIN q = {}
           \/ /\ q # <<>> /\ DOMAIN q = {1} /\ q[1] \in S
              /\ Head(q) = q[1] /\ Tail(q) = <<>>
<1> DEFINE n == Len(q)
<1>1. n \in Nat /\ n <= 1
  OBVIOUS
<1> HIDE DEF n
<1>2. n = 0 \/ n = 1
  BY <1>1
<1> USE DEF n
<1>3. CASE Len(q) = 0
  BY <1>3
<1>4. CASE Len(q) = 1
  <2>1. q # <<>> /\ DOMAIN q = {1} /\ q[1] \in S /\ Head(q) = q[1]
    BY <1>4
  <2>2. Tail(q) \in Seq(S) /\ Len(Tail(q)) = 0
    BY <1>4
  <2>. QED BY <2>1, <2>2
<1>. QED BY <1>2, <1>3, <1>4

Events == [ptr : Fiber \cup {Null, Gone, Box}, ok : BOOLEAN]

(* The array of the poller has at most one event.                           *)
LEMMA BatchShape ==
    ASSUME TypeOK, OneEvent
    PROVE  \/ batch = <<>> /\ DOMAIN batch = {}
           \/ /\ batch # <<>> /\ DOMAIN batch = {1} /\ batch[1] \in Events
              /\ Head(batch) = batch[1] /\ Tail(batch) = <<>>
<1>1. batch \in Seq(Events) /\ Len(batch) <= 1
  BY DEF TypeOK, OneEvent, Events
<1>. QED BY <1>1, AtMostOne

(* A fiber that gives up control is not the one that runs next.             *)
LEMMA SuspendFacts ==
    ASSUME TypeOK, ScheduledOnce, NEW f \in Fiber, run = f, Suspend
    PROVE  /\ run' \in Fiber \cup {Main} /\ run' # f
           /\ ready' \subseteq ready
           /\ run' \notin ready'
           /\ run' \in Fiber => call[run'].op = "none"
BY SocketAssumption DEF TypeOK, ScheduledOnce, Suspend

(* What a call that a fiber makes does to its counter.                      *)
LEMMA CallsFacts ==
    ASSUME TypeOK, NEW f \in Fiber, Calls(f)
    PROVE  run = f /\ call[f].op = "none" /\ ops' \in [Fiber -> 0 .. MaxOps]
<1>1. ops \in [Fiber -> 0 .. MaxOps] /\ MaxOps \in Nat
  BY SocketAssumption DEF TypeOK
<1>2. ops[f] \in 0 .. MaxOps /\ ops[f] < MaxOps
  BY <1>1 DEF Calls
<1>3. ops[f] + 1 \in 0 .. MaxOps
  BY <1>1, <1>2
<1>4. ops' = [ops EXCEPT ![f] = ops[f] + 1]
  BY DEF Calls
<1>. QED BY <1>1, <1>3, <1>4 DEF Calls

(* Taking an event and a timer concerns one fiber.                          *)
LEMMA TakeFacts ==
    ASSUME TypeOK, NEW f \in Fiber, Take(f)
    PROVE  /\ mail' \in [Fiber -> Nat] /\ tmr' \in [Fiber -> BOOLEAN]
           /\ \A g \in Fiber : g # f => mail'[g] = mail[g] /\ tmr'[g] = tmr[g]
<1>1. mail \in [Fiber -> Nat] /\ tmr \in [Fiber -> BOOLEAN]
  BY DEF TypeOK
<1> DEFINE k == IF mail[f] > 0 THEN mail[f] - 1 ELSE 0
<1>2. k \in Nat
  BY <1>1
<1>3. mail' = [mail EXCEPT ![f] = k] /\ tmr' = [tmr EXCEPT ![f] = FALSE]
  BY DEF Take
<1> HIDE DEF k
<1>. QED BY <1>1, <1>2, <1>3

(* The initial states.                                                      *)
LEMMA InitInv == Init => IInv
<1> SUFFICES ASSUME Init PROVE IInv
  OBVIOUS
<1> USE SocketAssumption DEF Init, NoCall, NoRet, Idle, Skt, Ops, Results
<1>1. TypeOK
  BY DEF TypeOK
<1>2. ScheduledOnce /\ OneCaller
  BY DEF ScheduledOnce, OneCaller, Reads, Writes, Waits
<1>3. OnePointer /\ OneEvent
  BY DEF OnePointer, OneEvent
<1>4. NoStaleEvent /\ NoLostWait
  BY DEF NoStaleEvent, NoLostWait, Waits, Recving
<1>5. ReturnsSomething /\ Credit /\ Accounted
  BY DEF ReturnsSomething, Credit, Accounted, Reads
<1>. QED BY <1>1, <1>2, <1>3, <1>4, <1>5 DEF IInv, SocketInv, Accounting

(* A call that registers its io event and suspends.                         *)
LEMMA RegisterKeeps ==
    ASSUME IInv, NEW f \in Fiber, NEW s \in Skt,
           NEW op \in {"recv", "accept", "send", "connect"}, NEW want,
           run = f, call[f].op = "none", Unused(s),
           want = IF op \in {"recv", "accept"} THEN "read" ELSE "write",
           op \in {"recv", "accept"} => ~Woken(f),
           Register(f, op, s, want),
           ops' \in [Fiber -> 0 .. MaxOps],
           link' \in [Skt -> {"new", "pending", "up", "fin", "reset", "refused"}],
           UNCHANGED <<batch, box, in, room, owed, owing>>
    PROVE  IInv'
<1>1. /\ run' \in Fiber \cup {Main} /\ run' # f
      /\ ready' \subseteq ready
      /\ run' \notin ready'
      /\ run' \in Fiber => call[run'].op = "none"
  BY SuspendFacts DEF IInv, SocketInv, Register
<1>2. /\ \A g \in Fiber : g # f => call'[g] = call[g]
      /\ reg'[s].ptr = f /\ reg'[s] = [want |-> want, ptr |-> f]
      /\ \A r \in Skt : r # s => reg'[r] = reg[r]
      /\ mail' = mail /\ tmr' = tmr /\ batch' = batch /\ box' = box
      /\ owed' = owed /\ owing' = owing
  BY DEF IInv, SocketInv, TypeOK, Register
<1>3. /\ call'[f].op = op /\ call'[f].skt = s /\ ~call'[f].done
      /\ call'[f].n = 0 /\ call'[f].result = "FAIL"
  BY DEF IInv, SocketInv, TypeOK, Register, NoCall
<1>4. \A g \in Fiber : call[g].skt # s
  BY DEF Unused
<1>5. TypeOK /\ ScheduledOnce /\ OneCaller /\ OnePointer /\ OneEvent
      /\ NoStaleEvent /\ NoLostWait /\ ReturnsSomething /\ Credit /\ Accounted
  BY DEF IInv, SocketInv, Accounting
<1> HIDE DEF IInv
<1>6. TypeOK'
  <2>1. /\ call' \in [Fiber -> [op : Ops, skt : Skt \cup {NoSkt}, done : BOOLEAN,
                               result : Results, n : Nat]]
        /\ reg' \in [Skt -> [want : {"off", "hup", "read", "write"},
                            ptr : Fiber \cup {Null, Gone}]]
        /\ ret' \in [Fiber -> [op : Ops, result : Results, n : Nat, fev : BOOLEAN, tmr : BOOLEAN]]
    BY <1>5 DEF TypeOK, Register, Forget, NoCall, NoRet, Ops, Results
  <2>. QED BY <1>1, <1>5, <2>1 DEF TypeOK, Register
<1>7. ScheduledOnce'
  <2>1. ready' \subseteq Fiber /\ \A g \in ready' : g # f /\ call[g].op = "none"
    BY <1>1, <1>5 DEF ScheduledOnce, TypeOK
  <2>. QED BY <1>1, <1>2, <2>1 DEF ScheduledOnce
<1>8. \A i \in DOMAIN batch : batch[i].ptr = Box
  BY <1>5, SocketAssumption DEF OneEvent
<1>9. OneCaller'
  <2>1. \A g \in Fiber : Reads(g)' \/ Writes(g)' <=> call'[g].skt \in Skt
    BY <1>2, <1>3, <1>5 DEF OneCaller, Reads, Writes
  <2>2. ASSUME NEW g \in Fiber, NEW h \in Fiber,
               call'[g].skt = call'[h].skt, call'[g].skt \in Skt
        PROVE  g = h
    <3>1. CASE g = f \/ h = f
      BY <1>2, <1>3, <1>4, <2>2, <3>1
    <3>2. CASE g # f /\ h # f
      BY <1>2, <1>5, <2>2, <3>2 DEF OneCaller
    <3>. QED BY <3>1, <3>2
  <2>3. \A g \in Fiber : Waits(g)' => ~call'[g].done
    BY <1>1, <1>2, <1>3, <1>5 DEF OneCaller, Waits
  <2>4. \A g \in Fiber : run' = g /\ Writes(g)' => call'[g].done
    BY <1>1, <1>2, <1>3, <1>5 DEF OneCaller, Writes
  <2>. QED BY <2>1, <2>2, <2>3, <2>4 DEF OneCaller
<1>10. OnePointer'
  <2>1. ASSUME NEW r \in Skt, NEW g \in Fiber, reg'[r].ptr = g
        PROVE  call'[g].skt = r /\ ~call'[g].done
    <3>1. CASE r = s
      <4>1. g = f
        BY <1>2, <2>1, <3>1
      <4>. QED BY <1>3, <3>1, <4>1
    <3>2. CASE r # s
      <4>1. reg[r].ptr = g
        BY <1>2, <2>1, <3>2
      <4>2. call[g].skt = r /\ ~call[g].done
        BY <1>5, <4>1 DEF OnePointer
      <4>3. g # f
        BY <1>5, <4>2 DEF OneCaller, Reads, Writes
      <4>. QED BY <1>2, <4>2, <4>3
    <3>. QED BY <3>1, <3>2
  <2>2. \A i \in DOMAIN batch, g \in Fiber : batch[i].ptr # g
    BY <1>8, SocketAssumption
  <2>. QED BY <1>2, <2>1, <2>2 DEF OnePointer
<1>11. OneEvent'
  BY <1>1, <1>2, <1>5, <1>8 DEF OneEvent
<1>12. NoStaleEvent'
  BY <1>2, <1>5, SocketAssumption DEF NoStaleEvent
<1>13. NoLostWait'
  <2>1. ASSUME NEW g \in Fiber, Waits(g)', call'[g].skt # NoSkt
        PROVE  \/ reg'[call'[g].skt] =
                    [want |-> IF Reads(g)' THEN "read" ELSE "write", ptr |-> g]
               \/ \E i \in DOMAIN batch' : batch'[i].ptr = g
    <3>1. CASE g = f
      BY <1>2, <1>3, <3>1 DEF Reads
    <3>2. CASE g # f
      <4>1. Waits(g) /\ call[g].skt # NoSkt
        BY <1>2, <2>1, <3>2 DEF Waits
      <4>2. call[g].skt \in Skt /\ call[g].skt # s /\ call'[g] = call[g]
        BY <1>2, <1>4, <1>5, <3>2, <4>1 DEF TypeOK
      <4>. QED BY <1>2, <1>5, <4>1, <4>2 DEF NoLostWait, Reads
    <3>. QED BY <3>1, <3>2
  <2>2. ASSUME NEW g \in Fiber, Recving(g)' PROVE ~Woken(g)'
    BY <1>2, <1>3, <1>5, <2>2 DEF NoLostWait, Waits, Recving, Woken
  <2>. QED BY <2>1, <2>2 DEF NoLostWait
<1>14. ReturnsSomething' /\ Credit'
  <2>1. ReturnsSomething'
    BY <1>5 DEF ReturnsSomething, Register, Forget, NoRet, TypeOK
  <2>2. Credit'
    BY <1>2, <1>3, <1>5, SocketAssumption DEF Credit, Reads
  <2>. QED BY <2>1, <2>2
<1>15. Accounted'
  <2> SUFFICES ASSUME NEW r \in Skt
               PROVE  /\ owed[r] > 0 => \E g \in Fiber : call'[g].skt = r /\ Reads(g)'
                      /\ owing[r] > 0 => \E g \in Fiber : call'[g].skt = r /\ call'[g].op = "send"
                      /\ \A g \in Fiber : call'[g].skt = r =>
                           /\ Reads(g)' => owed[r] = call'[g].n
                           /\ call'[g].op = "send" => owing[r] = call'[g].n
    BY <1>2 DEF Accounted
  <2>1. CASE r = s
    <3>1. owed[s] \in Nat /\ owing[s] \in Nat
      BY <1>5 DEF TypeOK
    <3>2. ~(owed[s] > 0) /\ ~(owing[s] > 0)
      BY <1>4, <1>5 DEF Accounted
    <3>3. owed[s] = 0 /\ owing[s] = 0
      BY <3>1, <3>2
    <3>4. \A g \in Fiber : call'[g].skt = r => call'[g].n = 0
      BY <1>2, <1>3, <1>4, <2>1
    <3>. QED BY <2>1, <3>3, <3>4
  <2>2. CASE r # s
    <3>1. \A g \in Fiber : call[g].skt = r => g # f
      BY <1>5 DEF OneCaller, Reads, Writes
    <3>2. \A g \in Fiber : call'[g].skt = r => g # f
      BY <1>3, <2>2
    <3>. QED BY <1>2, <1>5, <3>1, <3>2 DEF Accounted, Reads
  <2>. QED BY <2>1, <2>2
<1>. QED BY <1>6, <1>7, <1>9, <1>10, <1>11, <1>12, <1>13, <1>14, <1>15
         DEF IInv, SocketInv, Accounting

(* A step that leaves calls and registrations alone, and resumes nobody but *)
(* a fiber that receives.                                                   *)
LEMMA SameCallsKeep ==
    ASSUME IInv, TypeOK', ScheduledOnce', OneEvent', ReturnsSomething',
           UNCHANGED <<call, reg, owed, owing>>,
           \/ batch' = batch
           \/ /\ \A i \in DOMAIN batch : batch[i].ptr \notin Fiber
              /\ \A i \in DOMAIN batch' : batch'[i].ptr = Box,
           \/ run' = run
           \/ /\ run' \in Fiber /\ Recving(run')
              /\ run \in Fiber => call[run].op = "none",
           \A f \in Fiber : Recving(f)' => ~Woken(f)'
    PROVE  IInv'
<1>1. /\ call' = call /\ reg' = reg /\ owed' = owed /\ owing' = owing
  OBVIOUS
<1>2. ScheduledOnce /\ OneCaller /\ OnePointer /\ NoStaleEvent /\ NoLostWait
      /\ Credit /\ Accounted /\ TypeOK
  BY DEF IInv, SocketInv, Accounting
<1>3. \A f \in Fiber : Waits(f)' => Waits(f)
  BY <1>1 DEF Waits
<1>4. OneCaller'
  <2>1. \A f \in Fiber : run' = f /\ Writes(f)' => call'[f].done
    BY <1>1, <1>2 DEF OneCaller, Writes, Recving
  <2>. QED BY <1>1, <1>2, <1>3, <2>1 DEF OneCaller, Reads, Writes
<1>5. OnePointer' /\ NoStaleEvent'
  BY <1>1, <1>2, SocketAssumption DEF OnePointer, NoStaleEvent
<1>6. NoLostWait'
  <2>1. \A f \in Fiber : (\E i \in DOMAIN batch : batch[i].ptr = f) =>
                          \E i \in DOMAIN batch' : batch'[i].ptr = f
    OBVIOUS
  <2>. QED BY <1>1, <1>2, <1>3, <2>1 DEF NoLostWait, Reads
<1>7. Credit' /\ Accounted'
  BY <1>1, <1>2 DEF Credit, Accounted, Reads
<1>. QED BY <1>4, <1>5, <1>6, <1>7 DEF IInv, SocketInv, Accounting

(* A fiber that suspends in no call on a socket.                            *)
LEMMA SuspendKeeps ==
    ASSUME IInv, NEW f \in Fiber, NEW op \in {"wait", "ended"},
           run = f, call[f].op = "none", Suspend, Forget(f),
           call' = [call EXCEPT ![f] = [NoCall EXCEPT !.op = op]],
           op = "wait" => ~Woken(f)',
           mail' \in [Fiber -> Nat], tmr' \in [Fiber -> BOOLEAN],
           \A g \in Fiber : g # f => mail'[g] = mail[g] /\ tmr'[g] = tmr[g],
           ops' \in [Fiber -> 0 .. MaxOps],
           UNCHANGED <<batch, box, reg, kernel, owed, owing>>
    PROVE  IInv'
<1>1. /\ run' \in Fiber \cup {Main} /\ run' # f
      /\ ready' \subseteq ready
      /\ run' \notin ready'
      /\ run' \in Fiber => call[run'].op = "none"
  BY SuspendFacts DEF IInv, SocketInv
<1>2. TypeOK /\ ScheduledOnce /\ OneCaller /\ OnePointer /\ OneEvent
      /\ NoStaleEvent /\ NoLostWait /\ ReturnsSomething /\ Credit /\ Accounted
  BY DEF IInv, SocketInv, Accounting
<1>3. /\ \A g \in Fiber : g # f => call'[g] = call[g]
      /\ call'[f].op = op /\ call'[f].skt = NoSkt /\ ~call'[f].done /\ call'[f].n = 0
  BY <1>2 DEF TypeOK, NoCall
<1>4. batch' = batch /\ box' = box /\ reg' = reg /\ owed' = owed /\ owing' = owing
  OBVIOUS
<1>5. call[f].skt \notin Skt /\ NoSkt \notin Skt
  BY <1>2, SocketAssumption DEF OneCaller, Reads, Writes
<1>6. TypeOK'
  <2>1. /\ call' \in [Fiber -> [op : Ops, skt : Skt \cup {NoSkt}, done : BOOLEAN,
                               result : Results, n : Nat]]
        /\ ret' \in [Fiber -> [op : Ops, result : Results, n : Nat, fev : BOOLEAN, tmr : BOOLEAN]]
    BY <1>2 DEF TypeOK, Forget, NoCall, NoRet, Ops, Results
  <2>. QED BY <1>1, <1>2, <2>1 DEF TypeOK, kernel
<1>7. ScheduledOnce'
  <2>1. ready' \subseteq Fiber /\ \A g \in ready' : g # f /\ call[g].op = "none"
    BY <1>1, <1>2 DEF ScheduledOnce, TypeOK
  <2>. QED BY <1>1, <1>3, <2>1 DEF ScheduledOnce
<1>8. \A i \in DOMAIN batch : batch[i].ptr = Box
  BY <1>2, SocketAssumption DEF OneEvent
<1>9. OneCaller'
  <2>1. \A g \in Fiber : Reads(g)' \/ Writes(g)' <=> call'[g].skt \in Skt
    BY <1>2, <1>3, <1>5 DEF OneCaller, Reads, Writes
  <2>2. ASSUME NEW g \in Fiber, NEW h \in Fiber,
               call'[g].skt = call'[h].skt, call'[g].skt \in Skt
        PROVE  g = h
    BY <1>2, <1>3, <1>5, <2>2 DEF OneCaller
  <2>3. \A g \in Fiber : Waits(g)' => ~call'[g].done
    BY <1>1, <1>2, <1>3 DEF OneCaller, Waits
  <2>4. \A g \in Fiber : run' = g /\ Writes(g)' => call'[g].done
    BY <1>1, <1>2, <1>3 DEF OneCaller, Writes
  <2>. QED BY <2>1, <2>2, <2>3, <2>4 DEF OneCaller
<1>10. OnePointer'
  BY <1>2, <1>3, <1>4, <1>5, <1>8, SocketAssumption DEF OnePointer
<1>11. OneEvent' /\ NoStaleEvent'
  BY <1>2, <1>4, <1>8, SocketAssumption DEF OneEvent, NoStaleEvent
<1>12. NoLostWait'
  <2>1. ASSUME NEW g \in Fiber, g # f, Waits(g)'
        PROVE  Waits(g) /\ call'[g] = call[g]
    BY <1>3, <2>1 DEF Waits
  <2>2. ASSUME NEW g \in Fiber, Waits(g)', call'[g].skt # NoSkt
        PROVE  \/ reg'[call'[g].skt] =
                    [want |-> IF Reads(g)' THEN "read" ELSE "write", ptr |-> g]
               \/ \E i \in DOMAIN batch' : batch'[i].ptr = g
    BY <1>2, <1>3, <1>4, <2>1, <2>2 DEF NoLostWait, Reads
  <2>3. ASSUME NEW g \in Fiber, Recving(g)' PROVE ~Woken(g)'
    <3>1. CASE g = f
      BY <1>3, <2>3, <3>1 DEF Recving
    <3>2. CASE g # f
      BY <1>2, <2>1, <2>3, <3>2 DEF NoLostWait, Recving, Woken
    <3>. QED BY <3>1, <3>2
  <2>. QED BY <2>2, <2>3 DEF NoLostWait
<1>13. ReturnsSomething'
  BY <1>2 DEF ReturnsSomething, Forget, NoRet, TypeOK
<1>14. Credit'
  BY <1>2, <1>3 DEF Credit, Reads
<1>15. Accounted'
  <2>1. \A g \in Fiber : call'[g].skt \in Skt => g # f
    BY <1>3, <1>5
  <2>2. \A g \in Fiber : call[g].skt \in Skt => g # f
    BY <1>5
  <2>. QED BY <1>2, <1>3, <1>4, <2>1, <2>2 DEF Accounted, Reads
<1>. QED BY <1>6, <1>7, <1>9, <1>10, <1>11, <1>12, <1>13, <1>14, <1>15
         DEF IInv, SocketInv, Accounting

(* A handler has moved data for the call of f, which comes to n in all.     *)
Moved(f, n) ==
    LET s == call[f].skt
    IN  /\ UNCHANGED <<ready, ret, own, box, link>>
        /\ in' \in [Skt -> 0 .. MaxIn] /\ room' \in [Skt -> 0 .. Room]
        /\ owed' \in [Skt -> Nat] /\ owing' \in [Skt -> Nat]
        /\ \A r \in Skt : r # s => owed'[r] = owed[r] /\ owing'[r] = owing[r]
        /\ owed'[s] = (IF Reads(f) THEN n ELSE owed[s])
        /\ owing'[s] = (IF call[f].op = "send" THEN n ELSE owing[s])
        /\ ~Reads(f) /\ call[f].op # "send" => n = 0
        /\ call[f].op = "send" => n <= MsgLen

(* A handler: it has served the call of f and resumes f, or it registers    *)
(* the event again; result and n are then what the call knows.              *)
LEMMA HandlerKeeps ==
    ASSUME IInv, NEW f \in Fiber, Handles(f),
           NEW n \in Nat, NEW result \in Results, Moved(f, n),
           call[f].op = "recv" => (result = "SUCCESS" <=> n > 0),
           call[f].op = "accept" => (result = "SUCCESS" <=> n = 1),
           \/ Finish(f, result, n)
           \/ /\ Again(f, IF Reads(f) THEN "read" ELSE "write", n)
              /\ result = call[f].result
              /\ Reads(f) => n = 0
    PROVE  IInv'
<1> DEFINE s == call[f].skt
<1>1. TypeOK /\ ScheduledOnce /\ OneCaller /\ OnePointer /\ OneEvent
      /\ NoStaleEvent /\ NoLostWait /\ ReturnsSomething /\ Credit /\ Accounted
  BY DEF IInv, SocketInv, Accounting
<1>2. /\ run = Main /\ batch' = <<>> /\ DOMAIN batch = {1} /\ batch[1].ptr = f
      /\ DOMAIN batch' = {}
  BY <1>1, BatchShape DEF Handles, MainRuns
<1>3. s \in Skt /\ ~call[f].done /\ (Reads(f) \/ Writes(f)) /\ Main \notin Fiber
  BY <1>1, <1>2, SocketAssumption DEF OnePointer, OneCaller
<1>4. \A r \in Skt : reg[r].ptr # f
  BY <1>1, <1>2 DEF OnePointer
<1> USE DEF Moved
<1> DEFINE want == IF Reads(f) THEN "read" ELSE "write"
           Frames == [op : Ops, skt : Skt \cup {NoSkt}, done : BOOLEAN, result : Results, n : Nat]
<1>4a. call \in [Fiber -> Frames] /\ call[f] \in Frames
  BY <1>1 DEF TypeOK
<1>5. /\ \A g \in Fiber : g # f => call'[g] = call[g]
      /\ call'[f].op = call[f].op /\ call'[f].skt = s /\ call'[f].n = n
      /\ call'[f].result = result
      /\ call' \in [Fiber -> Frames]
  <2>1. CASE Finish(f, result, n)
    <3>1. call' = [call EXCEPT ![f] = [call[f] EXCEPT !.done = TRUE, !.result = result, !.n = n]]
      BY <2>1 DEF Finish
    <3>. QED BY <1>4a, <3>1
  <2>2. CASE Again(f, want, n) /\ result = call[f].result
    <3>1. call' = [call EXCEPT ![f] = [call[f] EXCEPT !.n = n]]
      BY <1>4a, <2>2 DEF Again
    <3>. QED BY <1>4a, <2>2, <3>1
  <2>. QED BY <2>1, <2>2
<1>6. \/ run' = f /\ call'[f].done /\ reg' = reg
      \/ /\ run' = Main /\ ~call'[f].done /\ reg'[s].ptr = f
         /\ reg'[s] = [want |-> IF Reads(f) THEN "read" ELSE "write", ptr |-> f]
         /\ Reads(f) => n = 0
  <2>1. CASE Finish(f, result, n)
    BY <1>4a, <2>1 DEF Finish
  <2>2. CASE /\ Again(f, want, n) /\ (Reads(f) => n = 0)
    <3>1. reg' = [reg EXCEPT ![s] = [want |-> want, ptr |-> f]] /\ run' = Main
      BY <1>2, <2>2 DEF Again
    <3>2. reg'[s] = [want |-> want, ptr |-> f]
      BY <1>1, <1>3, <3>1 DEF TypeOK
    <3>3. call' = [call EXCEPT ![f].n = n] 
      BY <2>2 DEF Again
    <3>4. call'[f] = [call[f] EXCEPT !.n = n]
      BY <1>4a, <3>3
    <3>5. ~call'[f].done
      BY <1>3, <1>4a, <3>4
    <3>. QED BY <2>2, <3>1, <3>2, <3>5
  <2>. QED BY <2>1, <2>2
<1>7. \A r \in Skt : r # s => reg'[r] = reg[r]
  BY <1>1 DEF TypeOK, Finish, Again
<1>8. TypeOK'
  <2>1. reg' \in [Skt -> [want : {"off", "hup", "read", "write"},
                         ptr : Fiber \cup {Null, Gone}]]
    <3>1. CASE Finish(f, result, n)
      BY <1>1, <3>1 DEF TypeOK, Finish
    <3>2. CASE Again(f, want, n)
      BY <1>1, <3>2 DEF TypeOK, Again
    <3>. QED BY <3>1, <3>2
  <2>2. run' \in Fiber \cup {Main}
    BY <1>6
  <2>3. UNCHANGED <<ready, ret, mail, tmr, ops, box, link>>
    BY DEF own
  <2>4. batch' \in Seq([ptr : Fiber \cup {Null, Gone, Box}, ok : BOOLEAN])
    BY <1>2
  <2>. QED BY <1>1, <1>5, <2>1, <2>2, <2>3, <2>4 DEF TypeOK
<1>9. ScheduledOnce'
  <2>1. ready' = ready /\ f \notin ready /\ Main \notin ready /\ ready \subseteq Fiber
    BY <1>1, <1>3 DEF ScheduledOnce, TypeOK, Reads, Writes
  <2>. QED BY <1>1, <1>5, <1>6, <2>1 DEF ScheduledOnce
<1>10. OneCaller'
  <2>1. \A g \in Fiber : Reads(g)' \/ Writes(g)' <=> call'[g].skt \in Skt
    BY <1>1, <1>5 DEF OneCaller, Reads, Writes
  <2>2. ASSUME NEW g \in Fiber, NEW h \in Fiber,
               call'[g].skt = call'[h].skt, call'[g].skt \in Skt
        PROVE  g = h
    <3>1. call'[g].skt = call[g].skt /\ call'[h].skt = call[h].skt
      BY <1>5
    <3>2. call[g].skt = call[h].skt /\ call[g].skt \in Skt
      BY <2>2, <3>1
    <3>. QED BY <1>1, <3>2 DEF OneCaller
  <2>3. ASSUME NEW g \in Fiber, Waits(g)' PROVE ~call'[g].done
    <3>1. CASE g = f
      BY <1>6, <2>3, <3>1 DEF Waits
    <3>2. CASE g # f
      BY <1>1, <1>2, <1>3, <1>5, <2>3, <3>2 DEF OneCaller, Waits
    <3>. QED BY <3>1, <3>2
  <2>4. \A g \in Fiber : run' = g /\ Writes(g)' => call'[g].done
    BY <1>3, <1>6
  <2>. QED BY <2>1, <2>2, <2>3, <2>4 DEF OneCaller
<1>11. OnePointer'
  <2> SUFFICES ASSUME NEW r \in Skt, NEW g \in Fiber, reg'[r].ptr = g
               PROVE  call'[g].skt = r /\ ~call'[g].done
    BY <1>2 DEF OnePointer
  <2>1. CASE reg'[r] = reg[r]
    <3>1. g # f /\ call[g].skt = r /\ ~call[g].done
      BY <1>1, <1>4, <2>1 DEF OnePointer
    <3>. QED BY <1>5, <3>1
  <2>2. CASE r = s /\ reg'[s].ptr = f /\ ~call'[f].done
    BY <1>5, <2>2
  <2>. QED BY <1>6, <1>7, <2>1, <2>2
<1>12. OneEvent'
  BY <1>2 DEF OneEvent
<1>13. NoStaleEvent'
  BY <1>1, <1>2, <1>6, <1>7, SocketAssumption DEF NoStaleEvent
<1>14. NoLostWait'
  <2>1. ASSUME NEW g \in Fiber, Waits(g)', g # f
        PROVE  Waits(g) /\ call'[g] = call[g]
    BY <1>2, <1>3, <1>5, <2>1 DEF Waits
  <2>2. ASSUME NEW g \in Fiber, Waits(g)', call'[g].skt # NoSkt
        PROVE  reg'[call'[g].skt] =
                    [want |-> IF Reads(g)' THEN "read" ELSE "write", ptr |-> g]
    <3>1. CASE g = f
      BY <1>5, <1>6, <2>2, <3>1 DEF Waits, Reads
    <3>2. CASE g # f
      <4>1. Waits(g) /\ call'[g] = call[g]
        BY <2>1, <2>2, <3>2
      <4>2. call[g].skt \in Skt /\ call[g].skt # s
        BY <1>1, <1>3, <2>2, <3>2, <4>1 DEF TypeOK, OneCaller
      <4>3. reg[call[g].skt] = [want |-> IF Reads(g) THEN "read" ELSE "write", ptr |-> g]
        BY <1>1, <1>2, <2>2, <3>2, <4>1 DEF NoLostWait
      <4>. QED BY <1>7, <4>1, <4>2, <4>3 DEF Reads
    <3>. QED BY <3>1, <3>2
  <2>3. ASSUME NEW g \in Fiber, Recving(g)' PROVE ~Woken(g)'
    <3>1. Recving(g)
      BY <1>2, <1>3, <1>5, <2>3 DEF Recving, Waits
    <3>. QED BY <1>1, <3>1 DEF NoLostWait, Woken, own
  <2>. QED BY <2>2, <2>3 DEF NoLostWait
<1>15. ReturnsSomething'
  BY <1>1 DEF ReturnsSomething
<1>16. Credit'
  BY <1>1, <1>5, <1>6 DEF Credit, Reads
<1>17. Accounted'
  <2> SUFFICES ASSUME NEW r \in Skt
               PROVE  /\ owed'[r] > 0 => \E g \in Fiber : call'[g].skt = r /\ Reads(g)'
                      /\ owing'[r] > 0 => \E g \in Fiber : call'[g].skt = r /\ call'[g].op = "send"
                      /\ \A g \in Fiber : call'[g].skt = r =>
                           /\ Reads(g)' => owed'[r] = call'[g].n
                           /\ call'[g].op = "send" => owing'[r] = call'[g].n
    BY DEF Accounted
  <2>1. \A g \in Fiber : call'[g].skt = call[g].skt /\ call'[g].op = call[g].op
                         /\ (Reads(g)' <=> Reads(g))
    BY <1>5 DEF Reads
  <2>2. CASE r = s
    <3>1. \A g \in Fiber : call[g].skt = r => g = f
      BY <1>1, <1>3, <2>2 DEF OneCaller
    <3>. QED BY <1>1, <1>5, <2>1, <2>2, <3>1 DEF Accounted
  <2>3. CASE r # s
    <3>1. \A g \in Fiber : call[g].skt = r => call'[g] = call[g]
      BY <1>5, <2>3
    <3>. QED BY <1>1, <2>1, <2>3, <3>1 DEF Accounted
  <2>. QED BY <2>2, <2>3
<1>. QED BY <1>8, <1>9, <1>10, <1>11, <1>12, <1>13, <1>14, <1>15, <1>16, <1>17
         DEF IInv, SocketInv, Accounting

(* A call that returns: its fiber has been resumed, and no pointer to its   *)
(* io event is left.                                                        *)
LEMMA ReturnKeeps ==
    ASSUME IInv, NEW f \in Fiber, NEW r,
           run = f, Reads(f) \/ Writes(f) \/ call[f].op = "wait",
           r = IF Reads(f) THEN Unread(call[f]) ELSE reg,
           Leave(f, r),
           UNCHANGED <<run, ready, ops, box, kernel>>,
           ret' \in [Fiber -> [op : Ops, result : Results, n : Nat, fev : BOOLEAN, tmr : BOOLEAN]],
           ReturnsSomething',
           mail' \in [Fiber -> Nat], tmr' \in [Fiber -> BOOLEAN],
           \A g \in Fiber : g # f => mail'[g] = mail[g] /\ tmr'[g] = tmr[g],
           owed' \in [Skt -> Nat], owing' \in [Skt -> Nat],
           \A s \in Skt : IF s = call[f].skt THEN owed'[s] = 0 /\ owing'[s] = 0
                         ELSE owed'[s] = owed[s] /\ owing'[s] = owing[s]
    PROVE  IInv'
<1>1. TypeOK /\ ScheduledOnce /\ OneCaller /\ OnePointer /\ OneEvent
      /\ NoStaleEvent /\ NoLostWait /\ ReturnsSomething /\ Credit /\ Accounted
  BY DEF IInv, SocketInv, Accounting
<1>2. run' = f /\ ready' = ready /\ box' = box /\ Main # f /\ NoSkt \notin Skt
  BY SocketAssumption
<1>3. \A i \in DOMAIN batch : batch[i].ptr = Box /\ batch[i].ptr # f
  BY <1>1, <1>2, SocketAssumption DEF OneEvent
<1>4. batch' = batch
  <2>1. batch' = [i \in DOMAIN batch |-> batch[i]]
    BY <1>3 DEF Leave
  <2>2. batch \in Seq([ptr : Fiber \cup {Null, Gone, Box}, ok : BOOLEAN])
    BY <1>1 DEF TypeOK
  <2>. QED BY <2>1, <2>2
<1>5. /\ \A g \in Fiber : g # f => call'[g] = call[g]
      /\ call'[f].op = "none" /\ call'[f].skt = NoSkt /\ ~call'[f].done /\ call'[f].n = 0
  BY <1>1 DEF TypeOK, Leave, NoCall
<1>6. /\ r \in [Skt -> [want : {"off", "hup", "read", "write"}, ptr : Fiber \cup {Null, Gone}]]
      /\ \A s \in Skt : s # call[f].skt => r[s] = reg[s]
      /\ \A s \in Skt : r[s] = reg[s] \/ r[s].ptr = Null
  BY <1>1 DEF TypeOK, Unread, Idle
<1>7. \A s \in Skt : r[s].ptr # f
  <2> SUFFICES ASSUME NEW s \in Skt, r[s].ptr = f PROVE FALSE
    OBVIOUS
  <2>1. Null # f
    BY SocketAssumption
  <2>2. reg[s].ptr = f
    BY <1>6, <2>1
  <2>3. call[f].skt = s /\ ~call[f].done
    BY <1>1, <2>2 DEF OnePointer
  <2>4. Reads(f)
    BY <1>1, <2>3 DEF OneCaller
  <2>5. r = [reg EXCEPT ![s] = Idle]
    BY <2>3, <2>4 DEF Unread
  <2>6. r[s] = Idle
    BY <1>1, <2>5 DEF TypeOK
  <2>. QED BY <2>1, <2>6 DEF Idle
<1>8. reg' = r
  BY <1>6, <1>7 DEF Leave
<1>9. TypeOK'
  <2>1. call' \in [Fiber -> [op : Ops, skt : Skt \cup {NoSkt}, done : BOOLEAN,
                            result : Results, n : Nat]]
    BY <1>1 DEF TypeOK, Leave, NoCall, Ops, Results
  <2>. QED BY <1>1, <1>4, <1>6, <1>8, <2>1 DEF TypeOK, kernel
<1>10. ScheduledOnce'
  <2>1. \A g \in ready : g \in Fiber /\ g # f /\ call[g].op = "none"
    BY <1>1 DEF ScheduledOnce, TypeOK
  <2>. QED BY <1>1, <1>2, <1>5, <2>1 DEF ScheduledOnce
<1>11. OneCaller'
  <2>1. \A g \in Fiber : Reads(g)' \/ Writes(g)' <=> call'[g].skt \in Skt
    BY <1>1, <1>2, <1>5 DEF OneCaller, Reads, Writes
  <2>2. ASSUME NEW g \in Fiber, NEW h \in Fiber,
               call'[g].skt = call'[h].skt, call'[g].skt \in Skt
        PROVE  g = h
    BY <1>1, <1>2, <1>5, <2>2 DEF OneCaller
  <2>3. \A g \in Fiber : Waits(g)' => ~call'[g].done
    BY <1>1, <1>2, <1>5 DEF OneCaller, Waits
  <2>4. \A g \in Fiber : run' = g /\ Writes(g)' => call'[g].done
    BY <1>2, <1>5 DEF Writes
  <2>. QED BY <2>1, <2>2, <2>3, <2>4 DEF OneCaller
<1>12. OnePointer'
  <2>1. ASSUME NEW s \in Skt, NEW g \in Fiber, reg'[s].ptr = g
        PROVE  call'[g].skt = s /\ ~call'[g].done
    <3>1. g # f /\ g # Null
      BY <1>7, <1>8, <2>1, SocketAssumption
    <3>2. reg[s].ptr = g
      BY <1>6, <1>8, <2>1, <3>1
    <3>. QED BY <1>1, <1>5, <3>1, <3>2 DEF OnePointer
  <2>2. \A i \in DOMAIN batch, g \in Fiber : batch[i].ptr # g
    BY <1>3, SocketAssumption
  <2>. QED BY <1>4, <2>1, <2>2 DEF OnePointer
<1>13. OneEvent' /\ NoStaleEvent'
  BY <1>1, <1>2, <1>3, <1>4, <1>6, <1>8, SocketAssumption DEF OneEvent, NoStaleEvent
<1>14. NoLostWait'
  <2>1. ASSUME NEW g \in Fiber, Waits(g)' PROVE Waits(g) /\ g # f /\ call'[g] = call[g]
    BY <1>2, <1>5, <2>1 DEF Waits
  <2>2. ASSUME NEW g \in Fiber, Waits(g)', call'[g].skt # NoSkt
        PROVE  reg'[call'[g].skt] =
                    [want |-> IF Reads(g)' THEN "read" ELSE "write", ptr |-> g]
    <3>1. Waits(g) /\ g # f /\ call'[g] = call[g]
      BY <2>1, <2>2
    <3>2. call[g].skt \in Skt /\ call[g].skt # call[f].skt
      BY <1>1, <2>2, <3>1 DEF TypeOK, OneCaller
    <3>3. reg[call[g].skt] = [want |-> IF Reads(g) THEN "read" ELSE "write", ptr |-> g]
      BY <1>1, <1>3, <2>2, <3>1, SocketAssumption DEF NoLostWait
    <3>. QED BY <1>6, <1>8, <3>1, <3>2, <3>3 DEF Reads
  <2>3. ASSUME NEW g \in Fiber, Recving(g)' PROVE ~Woken(g)'
    <3>1. Recving(g) /\ g # f
      BY <2>1, <2>3 DEF Recving
    <3>. QED BY <1>1, <3>1 DEF NoLostWait, Woken
  <2>. QED BY <2>2, <2>3 DEF NoLostWait
<1>15. Credit'
  BY <1>1, <1>5 DEF Credit, Reads
<1>16. Accounted'
  <2>1. \A g \in Fiber : call'[g].skt \in Skt =>
           g # f /\ call'[g] = call[g] /\ call[g].skt # call[f].skt
    BY <1>1, <1>2, <1>5 DEF OneCaller
  <2>2. \A g \in Fiber : g # f => (Reads(g)' <=> Reads(g))
    BY <1>5 DEF Reads
  <2> SUFFICES ASSUME NEW s \in Skt
               PROVE  /\ owed'[s] > 0 => \E g \in Fiber : call'[g].skt = s /\ Reads(g)'
                      /\ owing'[s] > 0 => \E g \in Fiber : call'[g].skt = s /\ call'[g].op = "send"
                      /\ \A g \in Fiber : call'[g].skt = s =>
                           /\ Reads(g)' => owed'[s] = call'[g].n
                           /\ call'[g].op = "send" => owing'[s] = call'[g].n
    BY DEF Accounted
  <2>3. CASE s = call[f].skt
    BY <2>1, <2>3
  <2>4. CASE s # call[f].skt
    <3>1. owed'[s] = owed[s] /\ owing'[s] = owing[s]
      BY <2>4
    <3>2. \A g \in Fiber : call[g].skt = s => g # f /\ call'[g] = call[g]
      BY <1>5, <2>4
    <3>. QED BY <1>1, <2>1, <2>2, <3>1, <3>2 DEF Accounted
  <2>. QED BY <2>3, <2>4
<1>. QED BY <1>9, <1>10, <1>11, <1>12, <1>13, <1>14, <1>15, <1>16
         DEF IInv, SocketInv, Accounting

(* epoll reports a socket: the pointer moves from epoll to the array.       *)
LEMMA PollKeeps ==
    ASSUME IInv, NEW s \in Skt, PollSocket(s)
    PROVE  IInv'
<1>1. TypeOK /\ ScheduledOnce /\ OneCaller /\ OnePointer /\ OneEvent
      /\ NoStaleEvent /\ NoLostWait /\ ReturnsSomething /\ Credit /\ Accounted
  BY DEF IInv, SocketInv, Accounting
<1>2. /\ run = Main
      /\ UNCHANGED <<run, ready, call, ret, mail, tmr, ops, box, link, in, room, owed, owing>>
  BY DEF PollSocket, MainRuns, own, kernel
<1>3. batch = <<>>
  BY <1>1, BatchShape DEF PollSocket, EpEvNum, TypeOK
<1> DEFINE e == [ptr |-> reg[s].ptr, ok |-> link[s] \notin {"reset", "refused"}]
<1>4. e \in Events /\ e.ptr = reg[s].ptr
  BY <1>1 DEF TypeOK, Events
<1>5. batch' = Append(batch, e)
  BY DEF PollSocket
<1> HIDE DEF e
<1>6. /\ batch' \in Seq(Events) /\ Len(batch') = 1 /\ DOMAIN batch' = {1} /\ batch'[1] = e
  BY <1>3, <1>4, <1>5
<1>7. /\ reg'[s].ptr = Null
      /\ \A r \in Skt : r # s => reg'[r] = reg[r]
      /\ reg' \in [Skt -> [want : {"off", "hup", "read", "write"}, ptr : Fiber \cup {Null, Gone}]]
  BY <1>1 DEF TypeOK, PollSocket
<1>8. TypeOK'
  BY <1>1, <1>2, <1>6, <1>7 DEF TypeOK, Events
<1>9. ScheduledOnce' /\ OneCaller'
  BY <1>1, <1>2 DEF ScheduledOnce, OneCaller, Reads, Writes, Waits
<1>10. OnePointer'
  <2>1. ASSUME NEW r \in Skt, NEW g \in Fiber, reg'[r].ptr = g
        PROVE  call'[g].skt = r /\ ~call'[g].done /\ batch'[1].ptr # g
    <3>1. r # s /\ reg[r].ptr = g
      BY <1>7, <2>1, SocketAssumption
    <3>2. reg[s].ptr # g
      BY <1>1, <3>1 DEF OnePointer
    <3>. QED BY <1>1, <1>2, <1>4, <1>6, <3>1, <3>2 DEF OnePointer
  <2>2. ASSUME NEW g \in Fiber, batch'[1].ptr = g
        PROVE  call'[g].skt \in Skt /\ ~call'[g].done
    BY <1>1, <1>2, <1>4, <1>6, <2>2 DEF OnePointer
  <2>. QED BY <1>6, <2>1, <2>2 DEF OnePointer
<1>11. OneEvent'
  <2>1. e.ptr # Box
    BY <1>1, <1>4, SocketAssumption DEF TypeOK
  <2>. QED BY <1>2, <1>6, <2>1 DEF OneEvent
<1>12. NoStaleEvent'
  BY <1>1, <1>4, <1>6, <1>7, SocketAssumption DEF NoStaleEvent
<1>13. NoLostWait'
  <2>1. ASSUME NEW g \in Fiber, Waits(g)', call'[g].skt # NoSkt
        PROVE  \/ reg'[call'[g].skt] =
                    [want |-> IF Reads(g)' THEN "read" ELSE "write", ptr |-> g]
               \/ \E i \in DOMAIN batch' : batch'[i].ptr = g
    <3>1. Waits(g) /\ call[g].skt # NoSkt /\ call[g].skt \in Skt
      BY <1>1, <1>2, <2>1 DEF Waits, TypeOK
    <3>2. reg[call[g].skt] = [want |-> IF Reads(g) THEN "read" ELSE "write", ptr |-> g]
      BY <1>1, <1>3, <3>1 DEF NoLostWait
    <3>3. CASE call[g].skt = s
      BY <1>4, <1>6, <3>2, <3>3
    <3>4. CASE call[g].skt # s
      BY <1>2, <1>7, <3>1, <3>2, <3>4 DEF Reads
    <3>. QED BY <3>3, <3>4
  <2>. QED BY <1>1, <1>2, <2>1 DEF NoLostWait, Recving, Waits, Woken
<1>14. ReturnsSomething' /\ Credit' /\ Accounted'
  BY <1>1, <1>2 DEF ReturnsSomething, Credit, Accounted, Reads
<1>. QED BY <1>8, <1>9, <1>10, <1>11, <1>12, <1>13, <1>14
         DEF IInv, SocketInv, Accounting

(* The calls of fibers up to their wait.                                    *)
LEMMA CallsKeep ==
    ASSUME IInv, NEW f \in Fiber, NEW s \in Skt,
           \/ tt_skt_recv_ntv(f, s) \/ tt_skt_accept_ntv(f, s)
           \/ tt_skt_send_ntv(f, s) \/ tt_skt_connect_ntv(f, s)
    PROVE  IInv'
<1>1. TypeOK /\ ScheduledOnce /\ OneEvent /\ NoLostWait /\ ReturnsSomething
  BY DEF IInv, SocketInv, Accounting
<1>2. ASSUME Calls(f)
      PROVE  run = f /\ call[f].op = "none" /\ ops' \in [Fiber -> 0 .. MaxOps]
  BY <1>1, <1>2, CallsFacts
<1>3. ASSUME Calls(f), UNCHANGED <<batch, box, in, room, owed, owing>>,
             NEW op \in {"recv", "accept", "connect"}, NEW result \in Results,
             NEW fev \in BOOLEAN, NEW exp \in BOOLEAN,
             AtOnce(f, op, result, fev, exp),
             op = "recv" => (result = "SUCCESS" <=> fev \/ exp),
             op = "accept" => result # "SUCCESS",
             link' \in [Skt -> {"new", "pending", "up", "fin", "reset", "refused"}],
             UNCHANGED <<mail, tmr>> \/ Take(f)
      PROVE  IInv'
  <2>1. UNCHANGED <<run, ready, call, reg, batch, box, in, room, owed, owing>>
    BY <1>3 DEF AtOnce
  <2>2. ret' \in [Fiber -> [op : Ops, result : Results, n : Nat, fev : BOOLEAN, tmr : BOOLEAN]]
    BY <1>1, <1>3 DEF TypeOK, AtOnce, NoRet, Ops, Results
  <2>3. /\ mail' \in [Fiber -> Nat] /\ tmr' \in [Fiber -> BOOLEAN]
        /\ \A g \in Fiber : g # f => mail'[g] = mail[g] /\ tmr'[g] = tmr[g]
    <3>1. CASE Take(f)
      BY <1>1, <3>1, TakeFacts
    <3>2. CASE UNCHANGED <<mail, tmr>>
      BY <1>1, <3>2 DEF TypeOK
    <3>. QED BY <1>3, <3>1, <3>2
  <2>4. TypeOK'
    BY <1>1, <1>2, <1>3, <2>1, <2>2, <2>3 DEF TypeOK
  <2>5. ScheduledOnce' /\ OneEvent'
    BY <1>1, <2>1 DEF ScheduledOnce, OneEvent
  <2>6. ReturnsSomething'
    <3>1. /\ ret'[f].op = op /\ ret'[f].result = result /\ ret'[f].n = 0
          /\ ret'[f].fev = fev /\ ret'[f].tmr = exp
          /\ \A g \in Fiber : g # f => ret'[g] = ret[g]
      BY <1>1, <1>3 DEF TypeOK, AtOnce, NoRet
    <3>2. ASSUME NEW g \in Fiber, g # f, ret'[g].op = "recv"
          PROVE  ret'[g].result = "SUCCESS" <=> ret'[g].n > 0 \/ ret'[g].fev \/ ret'[g].tmr
      BY <1>1, <3>1, <3>2 DEF ReturnsSomething
    <3>2a. ASSUME NEW g \in Fiber, ret'[g].op = "accept"
           PROVE  ret'[g].result = "SUCCESS" <=> ret'[g].n = 1
      <4>1. CASE g # f
        BY <1>1, <3>1, <3>2a, <4>1 DEF ReturnsSomething
      <4>2. CASE g = f
        BY <1>3, <3>1, <3>2a, <4>2
      <4>. QED BY <4>1, <4>2
    <3>3. ASSUME op = "recv"
          PROVE  ret'[f].result = "SUCCESS" <=> ret'[f].n > 0 \/ ret'[f].fev \/ ret'[f].tmr
      BY <1>3, <3>1, <3>3
    <3>. QED BY <3>1, <3>2, <3>2a, <3>3 DEF ReturnsSomething
  <2>7. \A g \in Fiber : Recving(g)' => ~Woken(g)'
    <3>1. \A g \in Fiber : Recving(g)' => Recving(g) /\ g # f
      BY <1>2, <1>3, <2>1 DEF Recving, Waits
    <3>. QED BY <1>1, <2>3, <3>1 DEF NoLostWait, Woken
  <2>. QED BY <2>1, <2>4, <2>5, <2>6, <2>7, SameCallsKeep
<1>4. ASSUME NEW op \in {"recv", "accept"}, ReadCall(f, op, s) PROVE IInv'
  <2>1. /\ Calls(f) /\ Unused(s)
        /\ UNCHANGED <<batch, box, link, in, room, owed, owing>>
    BY <1>4 DEF ReadCall, kernel
  <2>2. link' \in [Skt -> {"new", "pending", "up", "fin", "reset", "refused"}]
    BY <1>1, <2>1 DEF TypeOK
  <2>3. CASE Woken(f)
    <3> DEFINE fev == mail[f] > 0
               exp == tmr[f]
               result == IF op = "recv" THEN "SUCCESS" ELSE "FAIL"
    <3>1. AtOnce(f, op, result, fev, exp) /\ Take(f)
      BY <1>4, <2>3 DEF ReadCall
    <3>2. fev \in BOOLEAN /\ exp \in BOOLEAN /\ (fev \/ exp)
      BY <1>1, <2>3 DEF TypeOK, Woken
    <3>3. /\ result \in Results
          /\ op = "recv" => result = "SUCCESS"
          /\ op = "accept" => result # "SUCCESS"
      BY DEF Results
    <3> HIDE DEF fev, exp, result
    <3>. QED BY <1>3, <2>1, <2>2, <3>1, <3>2, <3>3
  <2>4. CASE ~Woken(f)
    <3>1. Register(f, op, s, "read")
      BY <1>4, <2>4 DEF ReadCall
    <3>. QED BY <1>2, <2>1, <2>2, <2>4, <3>1, RegisterKeeps
  <2>. QED BY <2>3, <2>4
<1>5. CASE tt_skt_recv_ntv(f, s) \/ tt_skt_accept_ntv(f, s)
  BY <1>4, <1>5 DEF tt_skt_recv_ntv, tt_skt_accept_ntv
<1>6. CASE tt_skt_send_ntv(f, s)
  <2>1. /\ Calls(f) /\ Unused(s) /\ Register(f, "send", s, "write")
        /\ UNCHANGED <<batch, box, link, in, room, owed, owing>>
    BY <1>6 DEF tt_skt_send_ntv, kernel
  <2>2. link' \in [Skt -> {"new", "pending", "up", "fin", "reset", "refused"}]
    BY <1>1, <2>1 DEF TypeOK
  <2>. QED BY <1>2, <2>1, <2>2, RegisterKeeps
<1>7. CASE tt_skt_connect_ntv(f, s)
  <2>1. /\ Calls(f) /\ Unused(s)
        /\ UNCHANGED <<batch, box, in, room, owed, owing>>
    BY <1>7 DEF tt_skt_connect_ntv
  <2>2. link' \in [Skt -> {"new", "pending", "up", "fin", "reset", "refused"}]
    BY <1>1, <1>7 DEF tt_skt_connect_ntv, TypeOK
  <2>3. CASE \E result \in {"SUCCESS", "FAIL"} :
                AtOnce(f, "connect", result, FALSE, FALSE) /\ UNCHANGED <<mail, tmr>>
    <3>1. {"SUCCESS", "FAIL"} \subseteq Results /\ FALSE \in BOOLEAN
      BY DEF Results
    <3>. QED BY <1>3, <2>1, <2>2, <2>3, <3>1
  <2>4. CASE Register(f, "connect", s, "write")
    BY <1>2, <2>1, <2>2, <2>4, RegisterKeeps
  <2>. QED BY <1>7, <2>3, <2>4 DEF tt_skt_connect_ntv
<1>. QED BY <1>5, <1>6, <1>7

(* tt_fiber_recv(), tt_fiber_send_ev() and the end of a fiber.              *)
LEMMA FibersKeep ==
    ASSUME IInv, NEW f \in Fiber,
           \/ tt_fiber_recv(f) \/ FiberEnds(f)
           \/ \E g \in Fiber : tt_fiber_send_ev(f, g)
    PROVE  IInv'
<1>1. TypeOK /\ ScheduledOnce /\ OneEvent /\ NoLostWait /\ ReturnsSomething
  BY DEF IInv, SocketInv, Accounting
<1>2. MaxOps \in Nat
  BY SocketAssumption
<1>3. ASSUME Forget(f)
      PROVE  /\ ret' \in [Fiber -> [op : Ops, result : Results, n : Nat,
                                   fev : BOOLEAN, tmr : BOOLEAN]]
             /\ ReturnsSomething'
  BY <1>1, <1>3 DEF TypeOK, Forget, NoRet, Ops, Results, ReturnsSomething
<1>4. CASE tt_fiber_recv(f)
  <2>1. /\ run = f /\ call[f].op = "none" /\ Forget(f)
        /\ UNCHANGED <<batch, box, reg, kernel, owed, owing>>
    BY <1>4 DEF tt_fiber_recv
  <2>2. ops' \in [Fiber -> 0 .. MaxOps]
    <3> DEFINE k == Lesser(ops[f] + 1, MaxOps)
    <3>1. ops \in [Fiber -> 0 .. MaxOps]
      BY <1>1 DEF TypeOK
    <3>2. k \in 0 .. MaxOps
      BY <1>2, <3>1 DEF Lesser
    <3>3. ops' = [ops EXCEPT ![f] = k]
      BY <1>4 DEF tt_fiber_recv
    <3> HIDE DEF k
    <3>. QED BY <3>1, <3>2, <3>3
  <2>3. CASE Woken(f)
    <3>1. Take(f) /\ UNCHANGED <<run, ready, call, batch, box, reg, link, in, room, owed, owing>>
      BY <1>4, <2>3 DEF tt_fiber_recv, kernel
    <3>2. /\ mail' \in [Fiber -> Nat] /\ tmr' \in [Fiber -> BOOLEAN]
          /\ \A g \in Fiber : g # f => mail'[g] = mail[g] /\ tmr'[g] = tmr[g]
      BY <1>1, <3>1, TakeFacts
    <3>3. TypeOK'
      BY <1>1, <1>3, <2>1, <2>2, <3>1, <3>2 DEF TypeOK
    <3>4. ScheduledOnce' /\ OneEvent'
      BY <1>1, <3>1 DEF ScheduledOnce, OneEvent
    <3>5. \A g \in Fiber : Recving(g)' => ~Woken(g)'
      <4>1. \A g \in Fiber : Recving(g)' => Recving(g) /\ g # f
        BY <2>1, <3>1 DEF Recving, Waits
      <4>. QED BY <1>1, <3>2, <4>1 DEF NoLostWait, Woken
    <3>. QED BY <1>3, <2>1, <3>1, <3>3, <3>4, <3>5, SameCallsKeep
  <2>4. CASE ~Woken(f)
    <3>1. /\ call' = [call EXCEPT ![f] = [NoCall EXCEPT !.op = "wait"]]
          /\ Suspend /\ mail' = mail /\ tmr' = tmr
      BY <1>4, <2>4 DEF tt_fiber_recv
    <3>2. mail' \in [Fiber -> Nat] /\ tmr' \in [Fiber -> BOOLEAN] /\ ~Woken(f)'
      BY <1>1, <2>4, <3>1 DEF TypeOK, Woken
    <3>. QED BY <2>1, <2>2, <3>1, <3>2, SuspendKeeps
  <2>. QED BY <2>3, <2>4
<1>5. CASE FiberEnds(f)
  <2>1. /\ run = f /\ call[f].op = "none" /\ Forget(f) /\ Suspend
        /\ call' = [call EXCEPT ![f] = [NoCall EXCEPT !.op = "ended"]]
        /\ UNCHANGED <<batch, box, reg, kernel, owed, owing>>
    BY <1>5 DEF FiberEnds
  <2>2. /\ mail' \in [Fiber -> Nat] /\ tmr' \in [Fiber -> BOOLEAN]
        /\ \A g \in Fiber : g # f => mail'[g] = mail[g] /\ tmr'[g] = tmr[g]
        /\ ops' \in [Fiber -> 0 .. MaxOps]
    BY <1>1, <1>2, <1>5 DEF FiberEnds, TypeOK
  <2>. QED BY <2>1, <2>2, SuspendKeeps
<1>6. ASSUME NEW g \in Fiber, tt_fiber_send_ev(f, g) PROVE IInv'
  <2>1. /\ run = f /\ call[f].op = "none" /\ ops' \in [Fiber -> 0 .. MaxOps]
    BY <1>1, <1>6, CallsFacts DEF tt_fiber_send_ev
  <2>2. /\ g # f /\ Forget(f)
        /\ run' = (IF Recving(g) THEN g ELSE f)
        /\ ready' = (IF Recving(g) THEN ready \cup {f} ELSE ready)
        /\ mail' = [mail EXCEPT ![g] = mail[g] + 1]
        /\ UNCHANGED <<call, tmr, batch, box, reg, link, in, room, owed, owing>>
    BY <1>6 DEF tt_fiber_send_ev, kernel
  <2>3. mail' \in [Fiber -> Nat] /\ \A h \in Fiber : h # g => mail'[h] = mail[h]
    BY <1>1, <2>2 DEF TypeOK
  <2>4. TypeOK'
    BY <1>1, <1>3, <2>1, <2>2, <2>3 DEF TypeOK
  <2>5. ScheduledOnce'
    BY <1>1, <2>1, <2>2 DEF ScheduledOnce, Recving
  <2>6. OneEvent'
    BY <1>1, <2>1, <2>2, SocketAssumption DEF OneEvent
  <2>7. ASSUME NEW h \in Fiber, Recving(h)' PROVE ~Woken(h)'
    <3>1. Recving(h) /\ h # g
      BY <2>1, <2>2, <2>7 DEF Recving, Waits
    <3>. QED BY <1>1, <2>2, <2>3, <3>1 DEF NoLostWait, Woken
  <2>8. run' = run \/ (run' \in Fiber /\ Recving(run'))
    BY <2>1, <2>2
  <2>. QED BY <1>3, <2>1, <2>2, <2>4, <2>5, <2>6, <2>7, <2>8, SameCallsKeep
<1>. QED BY <1>4, <1>5, <1>6

(* The part of the calls after their wait.                                  *)
LEMMA ReturnsKeep ==
    ASSUME IInv, NEW f \in Fiber, ReadReturns(f) \/ WriteReturns(f) \/ WaitReturns(f)
    PROVE  IInv'
<1>1. TypeOK /\ OneCaller /\ ReturnsSomething /\ Credit /\ Accounted
  BY DEF IInv, SocketInv, Accounting
<1>2. /\ call[f].op \in Ops /\ call[f].result \in Results /\ call[f].n \in Nat
      /\ mail[f] \in Nat /\ tmr[f] \in BOOLEAN
      /\ owed \in [Skt -> Nat] /\ owing \in [Skt -> Nat]
      /\ ret \in [Fiber -> [op : Ops, result : Results, n : Nat, fev : BOOLEAN, tmr : BOOLEAN]]
  BY <1>1 DEF TypeOK
<1>3. NoSkt \notin Skt
  BY SocketAssumption
<1>4. ASSUME NEW s \in Skt, s = call[f].skt, ~Reads(f) PROVE owed[s] = 0
  <2>1. \A g \in Fiber : call[g].skt = s => g = f
    BY <1>1, <1>4 DEF OneCaller
  <2>2. owed[s] > 0 => \E g \in Fiber : call[g].skt = s /\ Reads(g)
    BY <1>1 DEF Accounted
  <2>3. ~(owed[s] > 0)
    BY <1>4, <2>1, <2>2
  <2>. QED BY <1>2, <2>3
<1>5. ASSUME NEW s \in Skt, s = call[f].skt, call[f].op # "send" PROVE owing[s] = 0
  <2>1. \A g \in Fiber : call[g].skt = s => g = f
    BY <1>1, <1>5 DEF OneCaller
  <2>2. owing[s] > 0 => \E g \in Fiber : call[g].skt = s /\ call[g].op = "send"
    BY <1>1 DEF Accounted
  <2>3. ~(owing[s] > 0)
    BY <1>5, <2>1, <2>2
  <2>. QED BY <1>2, <2>3
<1>6. ASSUME NEW a \in [Skt -> Nat], NEW b, NEW s \in Skt, NEW n \in Nat, a[s] = n,
             b = [a EXCEPT ![s] = a[s] - n]
      PROVE  /\ b \in [Skt -> Nat] /\ b[s] = 0
             /\ \A r \in Skt : r # s => b[r] = a[r]
  <2>1. a[s] - n = 0
    BY <1>6
  <2>. QED BY <1>6, <2>1
<1>7. CASE ReadReturns(f)
  <2> DEFINE s == call[f].skt
  <2>1. /\ run = f /\ Reads(f) /\ Leave(f, Unread(call[f])) /\ Take(f)
        /\ UNCHANGED <<run, ready, ops, box, kernel, owing>>
    BY <1>7 DEF ReadReturns, Reads
  <2>2. /\ mail' \in [Fiber -> Nat] /\ tmr' \in [Fiber -> BOOLEAN]
        /\ \A g \in Fiber : g # f => mail'[g] = mail[g] /\ tmr'[g] = tmr[g]
    BY <1>1, <2>1, TakeFacts
  <2>3. s \in Skt /\ owed[s] = call[f].n /\ owing[s] = 0
    BY <1>1, <1>5, <2>1 DEF OneCaller, Accounted, Reads
  <2>4. owed' = [owed EXCEPT ![s] = owed[s] - call[f].n]
    BY <1>7 DEF ReadReturns, Report
  <2>5. owed' \in [Skt -> Nat] /\ owed'[s] = 0 /\ \A r \in Skt : r # s => owed'[r] = owed[r]
    BY <1>2, <1>6, <2>3, <2>4
  <2>6. /\ Report(f) \in [op : Ops, result : Results, n : Nat, fev : BOOLEAN, tmr : BOOLEAN]
        /\ ret' = [ret EXCEPT ![f] = Report(f)]
    BY <1>2, <1>7 DEF ReadReturns, Report, Results
  <2>7. ret' \in [Fiber -> [op : Ops, result : Results, n : Nat, fev : BOOLEAN, tmr : BOOLEAN]]
    BY <1>2, <2>6
  <2>8. ReturnsSomething'
    <3>1. ret'[f] = Report(f) /\ \A g \in Fiber : g # f => ret'[g] = ret[g]
      BY <1>2, <2>6
    <3>2. ASSUME Report(f).op = "recv"
          PROVE  Report(f).result = "SUCCESS" <=>
                    Report(f).n > 0 \/ Report(f).fev \/ Report(f).tmr
      <4>1. /\ call[f].op = "recv"
            /\ Report(f).result = (IF Woken(f) THEN "SUCCESS" ELSE call[f].result)
            /\ Report(f).n = call[f].n
            /\ Report(f).fev = (mail[f] > 0) /\ Report(f).tmr = tmr[f]
        BY <3>2 DEF Report
      <4>2. call[f].result = "SUCCESS" <=> call[f].n > 0
        BY <1>1, <4>1 DEF Credit
      <4>3. Woken(f) <=> Report(f).fev \/ Report(f).tmr
        BY <1>2, <4>1 DEF Woken
      <4>. QED BY <4>1, <4>2, <4>3
    <3>3. ASSUME Report(f).op = "accept"
          PROVE  Report(f).result = "SUCCESS" <=> Report(f).n = 1
      <4>1. /\ call[f].op = "accept"
            /\ Report(f).result = call[f].result /\ Report(f).n = call[f].n
        BY <3>3 DEF Report
      <4>. QED BY <1>1, <4>1 DEF Credit
    <3>. QED BY <1>1, <3>1, <3>2, <3>3 DEF ReturnsSomething
  <2>9. owing' \in [Skt -> Nat]
    BY <1>2, <2>1
  <2>. QED BY <2>1, <2>2, <2>3, <2>5, <2>7, <2>8, <2>9, ReturnKeeps
<1>8. CASE WriteReturns(f)
  <2> DEFINE s == call[f].skt
  <2>1. /\ run = f /\ Writes(f) /\ ~Reads(f) /\ Leave(f, reg)
        /\ UNCHANGED <<run, ready, mail, tmr, ops, box, kernel, owed>>
    BY <1>8 DEF WriteReturns, Writes, Reads, own
  <2>2. mail' \in [Fiber -> Nat] /\ tmr' \in [Fiber -> BOOLEAN] /\ owed' \in [Skt -> Nat]
    BY <1>1, <2>1 DEF TypeOK
  <2>3. s \in Skt /\ owed[s] = 0
    BY <1>1, <1>4, <2>1 DEF OneCaller
  <2>4. owing[s] = call[f].n
    <3>1. CASE call[f].op = "send"
      BY <1>1, <2>3, <3>1 DEF Accounted
    <3>2. CASE call[f].op # "send"
      BY <1>1, <1>5, <2>1, <2>3, <3>2 DEF Credit
    <3>. QED BY <3>1, <3>2
  <2>5. owing' = [owing EXCEPT ![s] = owing[s] - call[f].n]
    BY <1>8 DEF WriteReturns
  <2>6. owing' \in [Skt -> Nat] /\ owing'[s] = 0 /\ \A r \in Skt : r # s => owing'[r] = owing[r]
    BY <1>2, <1>6, <2>3, <2>4, <2>5
  <2>7. ret' \in [Fiber -> [op : Ops, result : Results, n : Nat, fev : BOOLEAN, tmr : BOOLEAN]]
    BY <1>2, <1>8 DEF WriteReturns, NoRet
  <2>8. ReturnsSomething'
    <3>1. ret'[f].op = call[f].op /\ \A g \in Fiber : g # f => ret'[g] = ret[g]
      BY <1>2, <1>8 DEF WriteReturns, NoRet
    <3>2. ret'[f].op # "recv" /\ ret'[f].op # "accept"
      BY <2>1, <3>1 DEF Reads
    <3>. QED BY <1>1, <3>1, <3>2 DEF ReturnsSomething
  <2>. QED BY <2>1, <2>2, <2>3, <2>6, <2>7, <2>8, ReturnKeeps
<1>9. CASE WaitReturns(f)
  <2>1. /\ run = f /\ call[f].op = "wait" /\ Leave(f, reg) /\ Take(f)
        /\ UNCHANGED <<run, ready, ret, ops, box, kernel, owed, owing>>
    BY <1>9 DEF WaitReturns
  <2>2. /\ mail' \in [Fiber -> Nat] /\ tmr' \in [Fiber -> BOOLEAN]
        /\ \A g \in Fiber : g # f => mail'[g] = mail[g] /\ tmr'[g] = tmr[g]
    BY <1>1, <2>1, TakeFacts
  <2>3. ~Reads(f) /\ call[f].skt \notin Skt
    BY <1>1, <2>1 DEF OneCaller, Reads, Writes
  <2>4. /\ ret' \in [Fiber -> [op : Ops, result : Results, n : Nat, fev : BOOLEAN, tmr : BOOLEAN]]
        /\ owed' \in [Skt -> Nat] /\ owing' \in [Skt -> Nat]
    BY <1>2, <2>1
  <2>5. ReturnsSomething'
    BY <1>1, <2>1 DEF ReturnsSomething
  <2>. QED BY <2>1, <2>2, <2>3, <2>4, <2>5, ReturnKeeps
<1>. QED BY <1>7, <1>8, <1>9

(* The handlers of socket events.                                           *)
LEMMA HandlersKeep ==
    ASSUME IInv, NEW f \in Fiber, Handle(f)
    PROVE  IInv'
<1> DEFINE s == call[f].skt
<1>1. TypeOK /\ OneCaller /\ OnePointer /\ OneEvent /\ Credit /\ Accounted
  BY DEF IInv, SocketInv, Accounting
<1>2. /\ call[f].n \in Nat /\ call[f].result \in Results
      /\ in \in [Skt -> 0 .. MaxIn] /\ room \in [Skt -> 0 .. Room]
      /\ owed \in [Skt -> Nat] /\ owing \in [Skt -> Nat]
      /\ MaxIn \in Nat /\ Room \in Nat /\ BufLen \in Nat /\ MsgLen \in Nat
  BY <1>1, SocketAssumption DEF TypeOK
<1>3. Handles(f)
  BY DEF Handle, __do_recv, __do_accept, __do_send, __do_connect
<1>4. s \in Skt /\ ~call[f].done
  <2>1. DOMAIN batch = {1} /\ batch[1].ptr = f
    BY <1>1, <1>3, BatchShape DEF Handles
  <2>. QED BY <1>1, <2>1 DEF OnePointer
<1>5. in[s] \in 0 .. MaxIn /\ room[s] \in 0 .. Room /\ owed[s] \in Nat /\ owing[s] \in Nat
  BY <1>2, <1>4
<1>6. Reads(f) => call[f].n = 0 /\ owed[s] = 0
  BY <1>1, <1>4 DEF Credit, Accounted
<1>7. "SUCCESS" \in Results /\ "FAIL" \in Results /\ "END" \in Results /\ "UNSET" \in Results
  BY DEF Results
<1>8. CASE __do_recv(f)
  <2> DEFINE k == Lesser(BufLen, in[s])
  <2>1. /\ call[f].op = "recv" /\ Reads(f)
        /\ in' = [in EXCEPT ![s] = in[s] - k]
        /\ owed' = [owed EXCEPT ![s] = owed[s] + k]
        /\ UNCHANGED <<ready, ret, own, box, link, room, owing>>
    BY <1>8 DEF __do_recv, Reads
  <2>2. k \in Nat /\ in[s] - k \in 0 .. MaxIn /\ owed[s] + k = k
    BY <1>2, <1>5, <1>6, <2>1 DEF Lesser
  <2>3. \/ k > 0 /\ Finish(f, "SUCCESS", k)
        \/ k = 0 /\ \E r \in {"END", "FAIL"} : Finish(f, r, k)
        \/ k = 0 /\ Again(f, "read", k)
    <3>1. \/ k > 0 /\ Finish(f, "SUCCESS", k)
          \/ ~(k > 0) /\ \E r \in {"END", "FAIL"} : Finish(f, r, 0)
          \/ ~(k > 0) /\ Again(f, "read", 0)
      BY <1>8 DEF __do_recv
    <3> HIDE DEF k
    <3>. QED BY <2>2, <3>1
  <2> HIDE DEF k
  <2>4. /\ in' \in [Skt -> 0 .. MaxIn]
        /\ owed' \in [Skt -> Nat] /\ owed'[s] = k
        /\ \A r \in Skt : r # s => owed'[r] = owed[r]
    BY <1>2, <1>4, <2>1, <2>2
  <2>5. call[f].result = "SUCCESS" <=> call[f].n > 0
    BY <1>1, <2>1 DEF Credit
  <2>6. Moved(f, k)
    BY <1>2, <2>1, <2>4 DEF Moved
  <2>7. CASE k > 0 /\ Finish(f, "SUCCESS", k)
    BY <1>3, <1>7, <2>1, <2>2, <2>6, <2>7, HandlerKeeps
  <2>8. ASSUME NEW r \in {"END", "FAIL"}, k = 0, Finish(f, r, k) PROVE IInv'
    <3>1. r \in Results /\ r # "SUCCESS" /\ ~(k > 0)
      BY <1>7, <2>8
    <3>. QED BY <1>3, <2>1, <2>2, <2>6, <2>8, <3>1, HandlerKeeps
  <2>9. CASE k = 0 /\ Again(f, "read", k)
    <3>1. call[f].result # "SUCCESS" /\ ~(k > 0)
      BY <1>6, <2>1, <2>5, <2>9
    <3>2. Again(f, IF Reads(f) THEN "read" ELSE "write", k)
      BY <2>1, <2>9
    <3>. QED BY <1>2, <1>3, <2>1, <2>2, <2>6, <2>9, <3>1, <3>2, HandlerKeeps
  <2>. QED BY <2>3, <2>7, <2>8, <2>9
<1>9. CASE __do_accept(f)
  <2>1. /\ call[f].op = "accept" /\ Reads(f)
        /\ UNCHANGED <<ready, ret, own, box, link, room, owing>>
    BY <1>9 DEF __do_accept, Reads
  <2>2. \E n \in Nat, r \in Results :
           /\ Finish(f, r, n)
           /\ in' \in [Skt -> 0 .. MaxIn]
           /\ owed' \in [Skt -> Nat] /\ owed'[s] = n
           /\ \A t \in Skt : t # s => owed'[t] = owed[t]
           /\ r = "SUCCESS" <=> n = 1
    <3>1. in[s] > 0 => in[s] - 1 \in 0 .. MaxIn
      BY <1>2, <1>5
    <3>2. ASSUME in' = in \/ in' = [in EXCEPT ![s] = IF in[s] > 0 THEN in[s] - 1 ELSE 0]
          PROVE  in' \in [Skt -> 0 .. MaxIn]
      BY <1>2, <1>4, <3>1, <3>2
    <3>3. CASE /\ Finish(f, "FAIL", 0) \/ Finish(f, "UNSET", 0)
               /\ owed' = owed
               /\ in' = in \/ in' = [in EXCEPT ![s] = IF in[s] > 0 THEN in[s] - 1 ELSE 0]
      BY <1>2, <1>6, <1>7, <2>1, <3>2, <3>3
    <3>4. CASE /\ in[s] > 0 /\ Finish(f, "SUCCESS", 1)
               /\ in' = [in EXCEPT ![s] = in[s] - 1]
               /\ owed' = [owed EXCEPT ![s] = owed[s] + 1]
      <4>1. in' \in [Skt -> 0 .. MaxIn]
        BY <1>2, <1>4, <3>1, <3>4
      <4>2. owed[s] + 1 = 1
        BY <1>6, <2>1
      <4>3. /\ owed' \in [Skt -> Nat] /\ owed'[s] = 1
            /\ \A t \in Skt : t # s => owed'[t] = owed[t]
        BY <1>2, <1>4, <3>4, <4>2
      <4>. QED BY <1>7, <3>4, <4>1, <4>3
    <3>. QED BY <1>9, <3>3, <3>4 DEF __do_accept
  <2>3. PICK n \in Nat, r \in Results :
           /\ Finish(f, r, n)
           /\ in' \in [Skt -> 0 .. MaxIn]
           /\ owed' \in [Skt -> Nat] /\ owed'[s] = n
           /\ \A t \in Skt : t # s => owed'[t] = owed[t]
           /\ r = "SUCCESS" <=> n = 1
    BY <2>2
  <2>4. Moved(f, n)
    BY <1>2, <2>1, <2>3 DEF Moved
  <2>. QED BY <1>3, <2>1, <2>3, <2>4, HandlerKeeps
<1>10. CASE __do_send(f)
  <2> DEFINE k == IF link[s] = "reset" THEN 0 ELSE Lesser(Left(f), room[s])
             n == call[f].n + k
  <2>1. /\ call[f].op = "send" /\ ~Reads(f)
        /\ room' = [room EXCEPT ![s] = room[s] - k]
        /\ owing' = [owing EXCEPT ![s] = owing[s] + k]
        /\ UNCHANGED <<ready, ret, own, box, link, in, owed>>
    BY <1>10 DEF __do_send, Reads
  <2>2. call[f].n <= MsgLen /\ owing[s] = call[f].n
    BY <1>1, <1>4, <2>1 DEF Credit, Accounted
  <2>3. k \in Nat /\ room[s] - k \in 0 .. Room /\ k <= MsgLen - call[f].n
    BY <1>2, <1>5, <2>2 DEF Lesser, Left
  <2>4. (\E r \in Results : Finish(f, r, n)) \/ Again(f, "write", n)
    BY <1>7, <1>10 DEF __do_send
  <2> HIDE DEF k
  <2>5. n \in Nat /\ n <= MsgLen /\ owing[s] + k = n
    BY <1>2, <2>2, <2>3
  <2> HIDE DEF n
  <2>6. /\ room' \in [Skt -> 0 .. Room]
        /\ owing' \in [Skt -> Nat] /\ owing'[s] = n
        /\ \A r \in Skt : r # s => owing'[r] = owing[r]
    BY <1>2, <1>4, <2>1, <2>3, <2>5
  <2>7. Moved(f, n)
    BY <1>2, <2>1, <2>5, <2>6 DEF Moved
  <2>8. Again(f, "write", n) => Again(f, IF Reads(f) THEN "read" ELSE "write", n)
    BY <2>1
  <2>. QED BY <1>2, <1>3, <2>1, <2>4, <2>5, <2>7, <2>8, HandlerKeeps
<1>11. CASE __do_connect(f)
  <2>1. /\ call[f].op = "connect" /\ ~Reads(f)
        /\ \E r \in Results : Finish(f, r, 0)
        /\ UNCHANGED <<ready, ret, own, box, link, in, room, owed, owing>>
    BY <1>7, <1>11 DEF __do_connect, Reads, kernel
  <2>2. Moved(f, 0)
    BY <1>2, <2>1 DEF Moved
  <2>. QED BY <1>3, <2>1, <2>2, HandlerKeeps
<1>. QED BY <1>8, <1>9, <1>10, <1>11 DEF Handle

(* The main fiber: the list of the poller, timers, and events of sockets    *)
(* nobody waits for.                                                        *)
LEMMA MainKeeps ==
    ASSUME IInv,
           \/ PollBox \/ DeliverMail \/ __do_null
           \/ \E f \in Fiber : TimerExpires(f)
    PROVE  IInv'
<1>1. TypeOK /\ ScheduledOnce /\ OneEvent /\ NoStaleEvent /\ NoLostWait /\ ReturnsSomething
  BY DEF IInv, SocketInv, Accounting
<1>2. run = Main /\ Main \notin Fiber /\ run \notin Fiber
  BY SocketAssumption DEF PollBox, DeliverMail, __do_null, Handles, TimerExpires, MainRuns
<1>3. ASSUME UNCHANGED <<call, ready>>, NEW g \in Fiber, run' = IF Recving(g) THEN g ELSE Main
      PROVE  /\ ScheduledOnce' /\ run' \in Fiber \cup {Main}
             /\ run' = run \/ (run' \in Fiber /\ Recving(run'))
             /\ \A h \in Fiber : Recving(h)' => Recving(h) /\ h # g
  <2>1. \A h \in Fiber : Recving(h)' => Recving(h)
    BY <1>2, <1>3 DEF Recving, Waits
  <2>2. Recving(g)' => run' # g
    BY DEF Recving, Waits
  <2>. QED BY <1>1, <1>2, <1>3, <2>1, <2>2 DEF ScheduledOnce, Recving, TypeOK
<1>4. ASSUME UNCHANGED ret PROVE ReturnsSomething'
  BY <1>1, <1>4 DEF ReturnsSomething
<1>5. CASE PollBox
  <2> DEFINE e == [ptr |-> Box, ok |-> TRUE]
  <2>1. /\ Len(batch) < 1 /\ box # <<>> /\ batch' = Append(batch, e)
        /\ UNCHANGED <<run, ready, call, ret, mail, tmr, ops, box, reg, link, in, room, owed, owing>>
    BY <1>5 DEF PollBox, EpEvNum, own, kernel
  <2>2. batch = <<>> /\ DOMAIN batch = {}
    BY <1>1, <2>1, BatchShape DEF TypeOK
  <2>3. e \in Events /\ e.ptr = Box
    BY DEF Events
  <2> HIDE DEF e
  <2>4. batch' \in Seq(Events) /\ Len(batch') = 1 /\ DOMAIN batch' = {1} /\ batch'[1] = e
    BY <2>1, <2>2, <2>3
  <2>5. TypeOK'
    BY <1>1, <2>1, <2>4 DEF TypeOK, Events
  <2>6. ScheduledOnce' /\ OneEvent'
    BY <1>1, <2>1, <2>3, <2>4 DEF ScheduledOnce, OneEvent
  <2>7. \A h \in Fiber : Recving(h)' => ~Woken(h)'
    BY <1>1, <2>1 DEF NoLostWait, Recving, Waits, Woken
  <2>. QED BY <1>4, <2>1, <2>2, <2>3, <2>4, <2>5, <2>6, <2>7, SameCallsKeep
<1>6. CASE DeliverMail
  <2> DEFINE g == Head(box)
  <2>1. /\ batch # <<>> /\ Head(batch).ptr = Box /\ box' = Tail(box)
        /\ batch' = (IF Len(box) = 1 THEN Tail(batch) ELSE batch)
        /\ mail' = [mail EXCEPT ![g] = mail[g] + 1]
        /\ run' = (IF Recving(g) THEN g ELSE Main)
        /\ UNCHANGED <<ready, call, ret, tmr, ops, reg, link, in, room, owed, owing>>
    BY <1>6 DEF DeliverMail, kernel
  <2>2. DOMAIN batch = {1} /\ batch[1].ptr = Box /\ Tail(batch) = <<>>
    BY <1>1, <2>1, BatchShape
  <2>3. box \in Seq(Fiber) /\ box # <<>>
    BY <1>1, <2>2 DEF TypeOK, OneEvent
  <2>4. g \in Fiber /\ box' \in Seq(Fiber)
    BY <2>1, <2>3
  <2> HIDE DEF g
  <2>4a. Len(box) # 1 => box' # <<>>
    <3>1. Len(box) \in Nat /\ Len(box) # 0 /\ Len(Tail(box)) = Len(box) - 1
      BY <2>3
    <3>2. Len(box) # 1 => Len(Tail(box)) # 0
      BY <3>1
    <3>3. Len(<<>>) = 0
      OBVIOUS
    <3>. QED BY <2>1, <3>2, <3>3
  <2>5. mail' \in [Fiber -> Nat] /\ \A h \in Fiber : h # g => mail'[h] = mail[h]
    <3>1. mail \in [Fiber -> Nat]
      BY <1>1 DEF TypeOK
    <3>. QED BY <2>1, <2>4, <3>1
  <2>6. \/ batch' = batch /\ box' # <<>>
        \/ batch' = <<>> /\ DOMAIN batch' = {}
    BY <2>1, <2>2, <2>4a
  <2>7. /\ ScheduledOnce' /\ run' \in Fiber \cup {Main}
        /\ run' = run \/ (run' \in Fiber /\ Recving(run'))
        /\ \A h \in Fiber : Recving(h)' => Recving(h) /\ h # g
    BY <1>3, <2>1, <2>4
  <2>8. batch' \in Seq(Events)
    <3>1. batch \in Seq(Events)
      BY <1>1 DEF TypeOK, Events
    <3>2. <<>> \in Seq(Events)
      OBVIOUS
    <3>. QED BY <2>6, <3>1, <3>2
  <2>9. TypeOK'
    BY <1>1, <2>1, <2>4, <2>5, <2>7, <2>8 DEF TypeOK, Events
  <2>10. OneEvent'
    BY <1>1, <2>2, <2>6 DEF OneEvent
  <2>11. \A h \in Fiber : Recving(h)' => ~Woken(h)'
    BY <1>1, <2>1, <2>5, <2>7 DEF NoLostWait, Woken
  <2>12. \A i \in DOMAIN batch : batch[i].ptr \notin Fiber
    BY <2>2, SocketAssumption
  <2>. QED BY <1>2, <1>4, <2>1, <2>6, <2>7, <2>9, <2>10, <2>11, <2>12, SameCallsKeep
<1>7. CASE __do_null
  <2>1. /\ batch # <<>> /\ Head(batch).ptr = Null /\ batch' = Tail(batch)
        /\ UNCHANGED <<run, ready, call, ret, mail, tmr, ops, box, reg, link, in, room, owed, owing>>
    BY <1>7 DEF __do_null, Handles, own, kernel
  <2>2. /\ DOMAIN batch = {1} /\ batch[1].ptr = Null /\ batch' = <<>> /\ DOMAIN batch' = {}
    BY <1>1, <2>1, BatchShape
  <2>3. TypeOK'
    BY <1>1, <2>1, <2>2 DEF TypeOK
  <2>4. ScheduledOnce' /\ OneEvent'
    BY <1>1, <2>1, <2>2 DEF ScheduledOnce, OneEvent
  <2>5. \A h \in Fiber : Recving(h)' => ~Woken(h)'
    BY <1>1, <2>1 DEF NoLostWait, Recving, Waits, Woken
  <2>6. \A i \in DOMAIN batch : batch[i].ptr \notin Fiber
    BY <2>2, SocketAssumption
  <2>. QED BY <1>4, <2>1, <2>2, <2>3, <2>4, <2>5, <2>6, SameCallsKeep
<1>8. ASSUME NEW f \in Fiber, TimerExpires(f) PROVE IInv'
  <2>1. /\ batch = <<>> /\ tmr' = [tmr EXCEPT ![f] = TRUE]
        /\ run' = (IF Recving(f) THEN f ELSE Main)
        /\ UNCHANGED <<ready, call, ret, mail, ops, batch, box, reg, link, in, room, owed, owing>>
    BY <1>8 DEF TimerExpires, kernel
  <2>2. tmr' \in [Fiber -> BOOLEAN] /\ \A h \in Fiber : h # f => tmr'[h] = tmr[h]
    BY <1>1, <2>1 DEF TypeOK
  <2>3. /\ ScheduledOnce' /\ run' \in Fiber \cup {Main}
        /\ run' = run \/ (run' \in Fiber /\ Recving(run'))
        /\ \A h \in Fiber : Recving(h)' => Recving(h) /\ h # f
    BY <1>3, <2>1
  <2>4. TypeOK'
    BY <1>1, <2>1, <2>2, <2>3 DEF TypeOK
  <2>5. OneEvent'
    BY <1>1, <2>1 DEF OneEvent
  <2>6. \A h \in Fiber : Recving(h)' => ~Woken(h)'
    BY <1>1, <2>1, <2>2, <2>3 DEF NoLostWait, Woken
  <2>. QED BY <1>2, <1>4, <2>1, <2>3, <2>4, <2>5, <2>6, SameCallsKeep
<1>. QED BY <1>5, <1>6, <1>7, <1>8

(* The kernel, the peers and the other tasks.                               *)
LEMMA OutsideKeeps ==
    ASSUME IInv, Outside
    PROVE  IInv'
<1>1. TypeOK /\ ScheduledOnce /\ OneEvent /\ NoLostWait /\ ReturnsSomething
  BY DEF IInv, SocketInv, Accounting
<1>2. UNCHANGED <<run, ready, call, ret, mail, tmr, ops, batch, reg, owed, owing>>
  BY DEF Outside, own
<1>3. MaxIn \in Nat /\ Room \in Nat /\ Stream \subseteq Skt
  BY SocketAssumption DEF Skt
<1>4. /\ link \in [Skt -> {"new", "pending", "up", "fin", "reset", "refused"}]
      /\ in \in [Skt -> 0 .. MaxIn] /\ room \in [Skt -> 0 .. Room]
      /\ box \in Seq(Fiber)
  BY <1>1 DEF TypeOK
<1>5. /\ link' \in [Skt -> {"new", "pending", "up", "fin", "reset", "refused"}]
      /\ in' \in [Skt -> 0 .. MaxIn] /\ room' \in [Skt -> 0 .. Room]
  <2>1. CASE UNCHANGED kernel
    BY <1>4, <2>1 DEF kernel
  <2>2. ASSUME NEW s \in Skt, Arrive(s) \/ Discard(s)
        PROVE  UNCHANGED <<link, room>> /\ in' \in [Skt -> 0 .. MaxIn]
    <3>1. in[s] \in 0 .. MaxIn
      BY <1>4
    <3>2. \E k \in 0 .. MaxIn : in' = [in EXCEPT ![s] = k]
      <4>1. CASE Arrive(s)
        <5>1. in[s] + 1 \in 0 .. MaxIn
          BY <1>3, <3>1, <4>1 DEF Arrive
        <5>. QED BY <4>1, <5>1 DEF Arrive
      <4>2. CASE Discard(s)
        <5>1. in[s] - 1 \in 0 .. MaxIn
          BY <1>3, <3>1, <4>2 DEF Discard
        <5>. QED BY <4>2, <5>1 DEF Discard
      <4>. QED BY <2>2, <4>1, <4>2
    <3>. QED BY <1>4, <2>2, <3>2 DEF Arrive, Discard
  <2>3. ASSUME NEW s \in Skt, PeerCloses(s) \/ PeerResets(s) \/ PeerAnswers(s)
        PROVE  UNCHANGED <<in, room>> /\
               link' \in [Skt -> {"new", "pending", "up", "fin", "reset", "refused"}]
    BY <1>4, <2>3 DEF PeerCloses, PeerResets, PeerAnswers
  <2>4. ASSUME NEW s \in Skt, PeerReads(s)
        PROVE  UNCHANGED <<link, in>> /\ room' \in [Skt -> 0 .. Room]
    BY <1>3, <1>4, <2>4 DEF PeerReads
  <2>. QED BY <1>3, <1>4, <2>1, <2>2, <2>3, <2>4 DEF Outside, OtherTaskSends
<1>6. box' \in Seq(Fiber) /\ (box # <<>> => box' # <<>>)
  <2>1. ASSUME NEW f \in Fiber, box' = Append(box, f)
        PROVE  box' \in Seq(Fiber) /\ box' # <<>>
    BY <1>4, <2>1
  <2>2. box' = box \/ \E f \in Fiber : box' = Append(box, f)
    BY DEF Outside, Arrive, Discard, PeerCloses, PeerResets, PeerReads, PeerAnswers,
           OtherTaskSends
  <2>. QED BY <1>4, <2>1, <2>2
<1>7. TypeOK'
  BY <1>1, <1>2, <1>5, <1>6 DEF TypeOK
<1>8. ScheduledOnce' /\ OneEvent' /\ ReturnsSomething'
  BY <1>1, <1>2, <1>6 DEF ScheduledOnce, OneEvent, ReturnsSomething
<1>9. \A h \in Fiber : Recving(h)' => ~Woken(h)'
  BY <1>1, <1>2 DEF NoLostWait, Recving, Waits, Woken
<1>. QED BY <1>2, <1>7, <1>8, <1>9, SameCallsKeep

(* Every step keeps the invariant.                                          *)
LEMMA NextKeeps == IInv /\ [Next]_vars => IInv'
<1> SUFFICES ASSUME IInv, [Next]_vars PROVE IInv'
  OBVIOUS
<1>1. ASSUME NEW f \in Fiber, FiberNext(f) PROVE IInv'
  BY <1>1, CallsKeep, FibersKeep, ReturnsKeep DEF FiberNext
<1>2. CASE HandlerNext
  BY <1>2, HandlersKeep, MainKeeps DEF HandlerNext
<1>3. CASE PollBox \/ \E f \in Fiber : TimerExpires(f)
  BY <1>3, MainKeeps
<1>4. ASSUME NEW s \in Skt, PollSocket(s) PROVE IInv'
  BY <1>4, PollKeeps
<1>5. CASE Outside
  BY <1>5, OutsideKeeps
<1>6. CASE UNCHANGED vars
  <2>1. UNCHANGED <<run, ready, call, ret, mail, tmr, ops, batch, box, reg,
                    link, in, room, owed, owing>>
    BY <1>6 DEF vars, own, kernel
  <2>2. TypeOK /\ ScheduledOnce /\ OneEvent /\ NoLostWait /\ ReturnsSomething
    BY DEF IInv, SocketInv, Accounting
  <2>3. TypeOK'
    BY <2>1, <2>2 DEF TypeOK
  <2>4. ScheduledOnce' /\ OneEvent' /\ ReturnsSomething'
    BY <2>1, <2>2 DEF ScheduledOnce, OneEvent, ReturnsSomething
  <2>5. \A h \in Fiber : Recving(h)' => ~Woken(h)'
    BY <2>1, <2>2 DEF NoLostWait, Recving, Waits, Woken
  <2>. QED BY <2>1, <2>3, <2>4, <2>5, SameCallsKeep
<1>. QED BY <1>1, <1>2, <1>3, <1>4, <1>5, <1>6 DEF Next

(* Registrations and waits (tt_skt_recv_ntv() and the calls like it,          *)
(* __skt_io() and its handlers): for any number of fibers and sockets, a call *)
(* that returns leaves no pointer to its io event in epoll or in the array of *)
(* the poller, and a fiber that waits for a socket is registered for it or is *)
(* about to be served.                                                        *)
THEOREM SocketInvariant == Spec => []SocketInv
<1>1. IInv => SocketInv
  BY DEF IInv
<1>. QED BY InitInv, NextKeeps, <1>1, PTL DEF Spec

(* Results (__do_recv(), __do_send(), __do_accept()): the bytes the kernel    *)
(* moved for a recv or a send are the bytes it reports, also when it is       *)
(* interrupted by EAGAIN or ended by an event or a timer; a recv succeeds iff *)
(* it brings data, an event or a timer; an accept succeeds iff it returns the *)
(* one connection taken for it.  A connection taken by an accept that fails   *)
(* (UNSET) is in nobody's account, nor are the events and timers received.    *)
THEOREM ResultsAccounted == Spec => []Accounting
<1>1. IInv => Accounting
  BY DEF IInv
<1>. QED BY InitInv, NextKeeps, <1>1, PTL DEF Spec
=============================================================================
