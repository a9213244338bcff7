------------------------------ MODULE LogPipe -------------------------------
(***************************************************************************)
(* The way of a log entry from the thread that logs to the disk: LogAsync   *)
(* with LogFile as the log io behind it (tt_logio_async_append()).  The io  *)
(* fiber is the writer of the files; the worker of LogFile runs in a third  *)
(* task.                                                                    *)
(***************************************************************************)
EXTENDS LogFile

CONSTANTS Threads, MaxEntry, MaxNoMem

ASSUME LogPipeAssumption ==
    /\ Threads \in Nat /\ MaxEntry \in Nat /\ MaxNoMem \in Nat
    /\ Entry = 1 .. 2 * MaxEntry

VARIABLES apc, sending, closing, ibuf, obuf, evq, puts, announced, spoiled, nomem

Async == INSTANCE LogAsync

async_vars ==
    <<apc, sending, closing, ibuf, obuf, evq, puts, announced, spoiled, nomem>>

log_vars == <<async_vars, vars>>

PipeInit == Async!Init /\ Init

\* tt_logio_output() of the file, called by the io fiber with entry e.
ToFile(e) == Output(e) \/ OutputLost

\* The io fiber hands on what it has read.
Hand ==
    \/ Async!Deliver /\ ToFile(Head(obuf).e)
    \/ Async!Misread /\ ToFile(Async!Garbage(Head(obuf).e))
    \/ apc = "drain" /\ obuf # <<>> /\ Reopen /\ UNCHANGED async_vars

IoFiber == Hand \/ (Async!IoFiber /\ UNCHANGED vars)

Loggers ==
    /\ \/ Async!Put
       \/ Async!__lio_async_destroy
    /\ UNCHANGED vars

Posts == Async!Post /\ UNCHANGED vars

\* The file first, then the asynchronous io with it; the file goes when the
\* asynchronous io has released it.
Create ==
    \/ tt_logio_file_create /\ UNCHANGED async_vars
    \/ up /\ Async!tt_logio_async_create /\ UNCHANGED vars

Destroy ==
    \/ Async!ExitRecv /\ UNCHANGED vars
    \/ apc = "off" /\ __lio_fidx_destroy /\ UNCHANGED async_vars

Aside == (Worker \/ __liof_w_purge_remove \/ TimePasses) /\ UNCHANGED async_vars

PipeCrash == Crash /\ Async!Crash

PipeNext ==
    \/ Create \/ Destroy \/ Loggers \/ Posts \/ IoFiber \/ Aside \/ PipeCrash

\* A thread that has put its entry goes on, the io fiber handles its events, the
\* timers of the worker fire again and again, time passes.
PipeFairness ==
    /\ WF_log_vars(Posts) /\ WF_log_vars(IoFiber)
    /\ WF_log_vars(Worker /\ UNCHANGED async_vars)
    /\ SF_log_vars(__liof_w_purge_remove /\ UNCHANGED async_vars)
    /\ SF_log_vars(TimePasses /\ UNCHANGED async_vars)

PipeSpec == PipeInit /\ [][PipeNext]_log_vars /\ PipeFairness

-----------------------------------------------------------------------------

(* Whoever posted the event for an entry can rely on it: when the asynchronous *)
(* io is gone and nothing failed, all these entries are in the log files or in *)
(* archives (those of a buffer that lost its framing excepted), also the ones  *)
(* posted right before the exit event, and whatever the worker was doing.      *)
Durable ==
    apc = "off" /\ faults = 0 =>
        announced \ spoiled \subseteq OnDisk \cup Zipped \cup purged

\* The place of an entry, or of what was written instead, in the order of puts.
PutNo(x) == IF x > MaxEntry THEN x - MaxEntry ELSE x

(* Entries reach the files in the order in which they were put into the buffer. *)
HandedInOrder ==
    [][\A e \in written' \ written, d \in written : PutNo(d) < PutNo(e)]_log_vars

(* What is in a file was put before everything that is in a buffer. *)
WrittenFirst ==
    \A d \in written :
        /\ PutNo(d) \in 1 .. puts
        /\ \A i \in DOMAIN obuf : PutNo(d) < obuf[i].e
        /\ \A i \in DOMAIN ibuf : PutNo(d) < ibuf[i].e

(* Without a fault an announced entry is in a buffer or written, or spoiled.    *)
AnnouncedKept ==
    faults = 0 =>
        announced \subseteq written \cup spoiled \cup Async!Held(ibuf) \cup Async!Held(obuf)

(* The way through the buffers (__lio_async_output(), __logio_async()): in      *)
(* order, no announced entry without an event behind it, and none lost when the *)
(* asynchronous io goes.                                                        *)
PipeInv ==
    /\ Async!TypeOK /\ Async!InOrder /\ Async!ExitLast /\ Async!EventOnItsWay
    /\ WrittenFirst /\ AnnouncedKept /\ Durable

\* The entries that were posted and are still on their way.
OnTheWay == announced \ (written \cup spoiled)

(* Entries whose event was posted are handed to the log io in the end, unless   *)
(* their buffer was misread, the process died with them or the file failed.     *)
AnnouncedArrive == OnTheWay # {} ~> (OnTheWay = {} \/ faults > 0)

(* The pipe does not get stuck: posted entries reach the log io, and full log  *)
(* files are archived or purged.                                               *)
Progress == AnnouncedArrive /\ FullLeaves
=============================================================================
