--------------------------- MODULE LogPipe_proofs ---------------------------
(***************************************************************************)
(* What LogPipe.tla promises of the way of a log entry to the disk, proved  *)
(* for any number of threads, entries and files, any size of a file and any *)
(* number of faults.                                                        *)
(*                                                                          *)
(* The files first: every step of LogFile keeps FilesInv, provided that no  *)
(* entry is written twice.  Then the buffers: what is in them was put after *)
(* everything that was written, so the io fiber never writes an entry       *)
(* again, and the two halves make one inductive invariant.                  *)
(***************************************************************************)
EXTENDS LogPipe, WellFoundedInduction, TLAPS


(* A file that is not there and an empty file hold no entry.                  *)
LEMMA InFacts ==
    /\ In(NoFile) = {}
    /\ In(<<>>) = {} /\ <<>> \in Seq(Entry) /\ <<>> # NoFile
    /\ \A f \in Seq(Entry) : f # NoFile /\ In(f) \subseteq Entry
<1>1. <<>> \in Seq(Entry) /\ <<>> # NoFile
  <2>1. <<>> \in Seq(Entry)
    OBVIOUS
  <2>. QED BY <2>1, LogFileAssumption
<1>2. In(NoFile) = {} /\ In(<<>>) = {}
  BY <1>1 DEF In
<1>3. ASSUME NEW f \in Seq(Entry) PROVE f # NoFile /\ In(f) \subseteq Entry
  <2>1. f # NoFile
    BY LogFileAssumption
  <2>2. \A i \in DOMAIN f : f[i] \in Entry
    OBVIOUS
  <2>. QED BY <2>1, <2>2 DEF In
<1>. QED BY <1>1, <1>2, <1>3

(* What is appended is in the file, besides what was there.                   *)
LEMMA InAppend ==
    ASSUME NEW f \in Seq(Entry), NEW e \in Entry
    PROVE  /\ Append(f, e) \in Seq(Entry)
           /\ In(Append(f, e)) = In(f) \cup {e}
<1> DEFINE g == Append(f, e)
<1>1. g \in Seq(Entry) /\ Len(g) = Len(f) + 1 /\ Len(f) \in Nat
      /\ DOMAIN f = 1 .. Len(f) /\ DOMAIN g = 1 .. Len(f) + 1
      /\ \A i \in 1 .. Len(f) : g[i] = f[i]
      /\ g[Len(f) + 1] = e
  OBVIOUS
<1>2. f # NoFile /\ g # NoFile
  BY <1>1, LogFileAssumption
<1>3. ASSUME NEW x PROVE x \in In(g) <=> x \in In(f) \cup {e}
  <2>1. x \in In(g) <=> \E i \in 1 .. Len(f) + 1 : x = g[i]
    BY <1>1, <1>2 DEF In
  <2>2. x \in In(f) <=> \E i \in 1 .. Len(f) : x = f[i]
    BY <1>1, <1>2 DEF In
  <2>. QED BY <1>1, <2>1, <2>2
<1>. QED BY <1>1, <1>3

(* __fidx_next() finds a usable file if there is one.                         *)
LEMMA MinFacts ==
    ASSUME NEW S \in SUBSET Index, S # {}
    PROVE  Min(S) \in S
<1>1. S \subseteq Nat /\ Index \subseteq Nat
  BY LogFileAssumption DEF Index
<1>2. \E x \in S : \A y \in S : <<y, x>> \notin OpToRel(<, Nat)
  BY <1>1, WFMin, NatLessThanWellFounded
<1>3. \E x \in S : \A y \in S : x <= y
  <2>1. PICK x \in S : \A y \in S : <<y, x>> \notin OpToRel(<, Nat)
    BY <1>2
  <2>2. \A y \in S : ~(y < x)
    BY <1>1, <2>1 DEF OpToRel
  <2>. QED BY <1>1, <2>2
<1>. QED BY <1>3 DEF Min

(* The entries on a disk are those of its log files and its marked files.     *)
LEMMA Spread ==
    ASSUME NEW d, NEW x
    PROVE  x \in UNION {In(d[n]) : n \in Name} <=>
               \E i \in Index : x \in In(d[<<i, "log">>]) \/ x \in In(d[<<i, "tmp">>])
<1>1. x \in UNION {In(d[n]) : n \in Name} <=> \E n \in Name : x \in In(d[n])
  OBVIOUS
<1>2. \A n : n \in Name <=> \E i \in Index : n = <<i, "log">> \/ n = <<i, "tmp">>
  BY DEF Name
<1>. QED BY <1>1, <1>2

\* What a disk holds.
Disks == [Name -> Seq(Entry) \cup {NoFile}]

\* Disk e differs from disk d by empty log files at most.
SameFiles(d, e) ==
    /\ \A n \in Name : In(e[n]) = In(d[n]) /\ (d[n] # NoFile => e[n] = d[n])
    /\ \A i \in Index : e[<<i, "tmp">>] = d[<<i, "tmp">>]

(* Creating a file changes no content, and leaves one that can be written to.   *)
LEMMA CreatedFacts ==
    ASSUME NEW d \in Disks, NEW i
    PROVE  /\ Created(i, d) \in Disks /\ SameFiles(d, Created(i, d))
           /\ i \in Index /\ Usable(i, d) =>
                  /\ Created(i, d)[<<i, "log">>] # NoFile
                  /\ ~Full(Created(i, d)[<<i, "log">>])
<1> DEFINE n == <<i, "log">>
<1>1. <<>> \in Seq(Entry) /\ In(<<>>) = {} /\ <<>> # NoFile /\ In(NoFile) = {}
  BY InFacts
<1>2. ~Full(<<>>)
  BY LogFileAssumption DEF Full
<1>3. CASE i \in Index /\ d[n] = NoFile
  <2>1. Created(i, d) = [d EXCEPT ![n] = <<>>] /\ n \in Name
    BY <1>3 DEF Created, Name
  <2>2. /\ Created(i, d) \in Disks /\ Created(i, d)[n] = <<>>
        /\ \A k \in Name : k # n => Created(i, d)[k] = d[k]
    BY <1>1, <2>1 DEF Disks
  <2>3. \A j \in Index : <<j, "tmp">> # n /\ <<j, "tmp">> \in Name
    BY DEF Name
  <2>4. SameFiles(d, Created(i, d))
    BY <1>1, <1>3, <2>2, <2>3 DEF SameFiles
  <2>. QED BY <1>1, <1>2, <2>2, <2>4
<1>4. CASE ~(i \in Index /\ d[n] = NoFile)
  <2>1. Created(i, d) = d
    BY <1>4 DEF Created
  <2>. QED BY <1>4, <2>1 DEF SameFiles, Usable
<1>. QED BY <1>3, <1>4

\* The next file is opened, or that fails; tt_logio_file_create() then begins anew.
NewFile(d) ==
    \/ NextOpens(d)
    \/ \E i \in Nat : NextFails(d, i) /\ index' \in 1 .. MaxIndex + 1

(* __fidx_next() is such a step.                                              *)
LEMMA NextIsNewFile ==
    ASSUME TypeOK, NEW d, __fidx_next(d)
    PROVE  NewFile(d)
<1>1. MaxIndex \in Nat /\ index \in 1 .. MaxIndex + 1
  BY LogFileAssumption DEF TypeOK
<1>2. ASSUME NEW i \in index .. MaxIndex + 1, NextFails(d, i), index' = i PROVE NewFile(d)
  <2>1. i \in Nat /\ i \in 1 .. MaxIndex + 1
    BY <1>1
  <2>. QED BY <1>2, <2>1 DEF NewFile
<1>. QED BY <1>2 DEF __fidx_next, NewFile

(* It changes no content, and opens a file that is not full.                  *)
LEMMA NextFileFacts ==
    ASSUME TypeOK, NEW d \in Disks, old \subseteq {n \in Name : d[n] # NoFile}, NewFile(d)
    PROVE  /\ disk' \in Disks /\ SameFiles(d, disk')
           /\ old' \subseteq {n \in Name : disk'[n] # NoFile}
           /\ cur' \in 0 .. MaxIndex /\ index' \in 1 .. MaxIndex + 1
           /\ faults' \in 0 .. MaxFaults /\ (faults' = 0 => faults = 0)
           /\ cur' # 0 => disk'[<<cur', "log">>] # NoFile /\ ~Full(disk'[<<cur', "log">>])
<1>1. faults \in 0 .. MaxFaults /\ MaxFaults \in Nat /\ MaxIndex \in Nat /\ index \in 1 .. MaxIndex + 1
  BY LogFileAssumption DEF TypeOK
<1>2. ASSUME SameFiles(d, disk'), old' \subseteq old
      PROVE  old' \subseteq {n \in Name : disk'[n] # NoFile}
  BY <1>2 DEF SameFiles
<1> DEFINE Found == {i \in Index : i >= index /\ Usable(i, d)}
           m == Min(Found)
<1>3. CASE NextOpens(d)
  <2>1. /\ Found # {} /\ cur' = m /\ index' = m + 1 /\ disk' = Created(m, d)
        /\ old' \subseteq old /\ faults' = faults
    BY <1>3 DEF NextOpens, NoFault
  <2>2. m \in Found
    BY <2>1, MinFacts
  <2>3. m \in Index /\ Usable(m, d) /\ m \in 1 .. MaxIndex
    BY <2>2 DEF Index
  <2>4. /\ disk' \in Disks /\ SameFiles(d, disk')
        /\ disk'[<<m, "log">>] # NoFile /\ ~Full(disk'[<<m, "log">>])
    BY <2>1, <2>3, CreatedFacts
  <2>5. cur' \in 0 .. MaxIndex /\ index' \in 1 .. MaxIndex + 1
    BY <1>1, <2>1, <2>3
  <2>. QED BY <1>1, <1>2, <2>1, <2>4, <2>5
<1>4. ASSUME NEW i \in Nat, NextFails(d, i), index' \in 1 .. MaxIndex + 1
      PROVE  /\ disk' \in Disks /\ SameFiles(d, disk') /\ old' \subseteq old
             /\ cur' = 0 /\ faults' \in 0 .. MaxFaults /\ faults' # 0
  <2>1. disk' \in {d, Created(i, d)} /\ old' \subseteq old /\ cur' = 0
    BY <1>4 DEF NextFails
  <2>2. faults' \in 0 .. MaxFaults /\ faults' # 0
    BY <1>1, <1>4 DEF NextFails, Fault
  <2>3. SameFiles(d, d)
    BY DEF SameFiles
  <2>. QED BY <2>1, <2>2, <2>3, CreatedFacts
<1>. QED BY <1>1, <1>2, <1>3, <1>4 DEF NewFile

\* The entries in log.i and in log.i.ttarctmp.
Log(i) == In(disk[<<i, "log">>])
Tmp(i) == In(disk[<<i, "tmp">>])

\* A step of the writer: it writes the entries in E to log.c.
Writes(E, c) ==
    /\ E \subseteq Entry /\ E \cap written = {} /\ written' = written \cup E
    /\ c \in Index /\ Log(c)' = Log(c) \cup E
    /\ \A i \in Index : /\ i # c => Log(i)' = Log(i)
                        /\ disk'[<<i, "tmp">>] = disk[<<i, "tmp">>]
    /\ cur' # 0 => disk'[<<cur', "log">>] # NoFile /\ ~Full(disk'[<<cur', "log">>])
    /\ faults' = 0 => faults = 0
    /\ UNCHANGED <<arctmp, archives, purged, worker_vars>>

(* A step of the writer that writes only new entries keeps the files in order. *)
LEMMA WriterKeeps ==
    ASSUME FilesInv, TypeOK', NEW E, NEW c, Writes(E, c)
    PROVE  FilesInv'
<1>1. /\ KeptWithoutFault /\ MarkedAreFinal /\ ArchivedOnce
      /\ RoundOf /\ OnePlace /\ MarkedThisRound
  BY DEF FilesInv
<1>2. /\ UNCHANGED <<arctmp, archives, purged, wpc, left, zip, flush>> /\ Zipped' = Zipped
      /\ \A i \in Index : disk'[<<i, "tmp">>] = disk[<<i, "tmp">>] /\ Tmp(i)' = Tmp(i)
  BY DEF Writes, worker_vars, Zipped, Tmp
<1>3. Marked' = Marked /\ \A n \in Marked : disk'[n] = disk[n]
  BY <1>2 DEF Marked, Name
<1>4. \A x : x \in OnDisk <=> \E i \in Index : x \in Log(i) \/ x \in Tmp(i)
  BY Spread DEF OnDisk, Log, Tmp
<1>5. \A x : x \in OnDisk' <=> \E i \in Index : x \in Log(i)' \/ x \in Tmp(i)'
  BY Spread DEF OnDisk, Log, Tmp
<1>6. OnDisk' = OnDisk \cup E
  <2>1. ASSUME NEW x PROVE x \in OnDisk' <=> x \in OnDisk \/ x \in E
    <3>1. \A i \in Index : x \in Log(i)' <=> x \in Log(i) \/ (i = c /\ x \in E)
      BY DEF Writes
    <3>2. c \in Index
      BY DEF Writes
    <3>. QED BY <1>2, <1>4, <1>5, <3>1, <3>2
  <2>. QED BY <2>1
<1>7. KeptWithoutFault'
  BY <1>1, <1>2, <1>6 DEF KeptWithoutFault, LogsKept, Writes
<1>8. MarkedAreFinal'
  BY <1>1, <1>2 DEF MarkedAreFinal, Writes
<1>9. ArchivedOnce' /\ RoundOf'
  BY <1>1, <1>2 DEF ArchivedOnce, RoundOf
<1>10. OnePlace'
  <2>1. E \cap OnDisk = {} /\ E \cap Zipped = {}
    BY <1>1 DEF OnePlace, Writes
  <2>2. \A i \in Index : E \cap Log(i) = {} /\ E \cap Tmp(i) = {}
    BY <1>4, <2>1
  <2>3. /\ \A i, j \in Index : i # j => Log(i) \cap Log(j) = {}
        /\ \A i, j \in Index : Log(i) \cap Tmp(j) = {}
        /\ \A i \in Index : Log(i) \cap Zipped = {}
        /\ \A i \in Index : <<i, "path">> \in zip => Tmp(i) \cap Zipped = {}
    BY <1>1 DEF OnePlace, Log, Tmp
  <2>4. \A i \in Index : Log(i)' = (IF i = c THEN Log(i) \cup E ELSE Log(i))
    BY DEF Writes
  <2>5. /\ \A i, j \in Index : i # j => Log(i)' \cap Log(j)' = {}
        /\ \A i, j \in Index : Log(i)' \cap Tmp(j)' = {}
        /\ \A i \in Index : Log(i)' \cap Zipped' = {}
        /\ \A i \in Index : <<i, "path">> \in zip' => Tmp(i)' \cap Zipped' = {}
    <3>1. ASSUME NEW i \in Index, NEW j \in Index, i # j PROVE Log(i)' \cap Log(j)' = {}
      BY <2>2, <2>3, <2>4, <3>1
    <3>2. ASSUME NEW i \in Index, NEW j \in Index PROVE Log(i)' \cap Tmp(j)' = {}
      <4>1. Tmp(j)' = Tmp(j) /\ Log(i) \cap Tmp(j) = {} /\ E \cap Tmp(j) = {}
        BY <1>2, <2>2, <2>3
      <4>. QED BY <2>4, <4>1
    <3>3. ASSUME NEW i \in Index PROVE Log(i)' \cap Zipped' = {}
      BY <1>2, <2>1, <2>3, <2>4
    <3>. QED BY <1>2, <2>3, <3>1, <3>2, <3>3
  <2>6. (OnDisk \cup Zipped \cup purged)' \subseteq written'
    BY <1>1, <1>2, <1>6 DEF OnePlace, Writes
  <2>. QED BY <2>5, <2>6 DEF OnePlace, Log, Tmp
<1>11. MarkedThisRound'
  <2>1. faults' = 0 => faults = 0
    BY DEF Writes
  <2>. QED BY <1>1, <1>2, <1>3, <2>1 DEF MarkedThisRound
<1>. QED BY <1>7, <1>8, <1>9, <1>10, <1>11 DEF FilesInv

(* ... such as opening the next file, also after a restart,                   *)
LEMMA NewFileKeeps ==
    ASSUME FilesInv, NewFile(disk), up' \in BOOLEAN,
           UNCHANGED <<arctmp, archives, worker_vars, ghost_vars>>
    PROVE  FilesInv'
<1>1. TypeOK
  BY DEF FilesInv
<1>2. disk \in Disks /\ old \subseteq {n \in Name : disk[n] # NoFile}
  BY <1>1 DEF TypeOK, Disks
<1>3. /\ disk' \in Disks /\ SameFiles(disk, disk')
      /\ old' \subseteq {n \in Name : disk'[n] # NoFile}
      /\ cur' \in 0 .. MaxIndex /\ index' \in 1 .. MaxIndex + 1
      /\ faults' \in 0 .. MaxFaults /\ (faults' = 0 => faults = 0)
      /\ cur' # 0 => disk'[<<cur', "log">>] # NoFile /\ ~Full(disk'[<<cur', "log">>])
  BY <1>1, <1>2, NextFileFacts
<1>4. TypeOK'
  BY <1>1, <1>3 DEF TypeOK, Disks, worker_vars, ghost_vars
<1>5. 1 \in Index
  BY LogFileAssumption DEF Index
<1>6. \A i \in Index : Log(i)' = Log(i) /\ disk'[<<i, "tmp">>] = disk[<<i, "tmp">>]
  BY <1>3 DEF SameFiles, Log, Name
<1>7. Writes({}, 1)
  BY <1>3, <1>5, <1>6 DEF Writes, ghost_vars
<1>. QED BY <1>4, <1>7, WriterKeeps

(* ... and __lio_fidx_output() with an entry that was never written.          *)
LEMMA OutputKeeps ==
    ASSUME FilesInv, NEW e \in Entry, e \notin written, Output(e)
    PROVE  FilesInv'
<1>1. TypeOK /\ MarkedAreFinal /\ cur # 0 /\ up
  BY DEF FilesInv, Output
<1>2. PICK c \in Index : c = cur
  BY <1>1, LogFileAssumption DEF TypeOK, Index
<1> DEFINE n == <<c, "log">>
           d == [disk EXCEPT ![n] = Append(disk[n], e)]
<1>3. /\ n \in Name /\ disk[n] \in Seq(Entry) /\ disk \in Disks
      /\ index \in 1 .. MaxIndex + 1 /\ faults \in 0 .. MaxFaults
  BY <1>2, <1>1, LogFileAssumption DEF TypeOK, MarkedAreFinal, Disks, Index, Name
<1>4. Append(disk[n], e) \in Seq(Entry) /\ In(Append(disk[n], e)) = In(disk[n]) \cup {e}
  BY <1>3, InAppend
<1>5. /\ d \in Disks /\ d[n] = Append(disk[n], e) /\ d[n] # NoFile
      /\ \A k \in Name : k # n => d[k] = disk[k]
  BY <1>3, <1>4, InFacts DEF Disks
<1>6. old \subseteq {k \in Name : d[k] # NoFile}
  BY <1>1, <1>5 DEF TypeOK
<1>7. /\ written' = written \cup {e}
      /\ UNCHANGED <<up, arctmp, archives, worker_vars, purged>>
      /\ \/ __fidx_next(d)
         \/ /\ ~Full(d[n]) /\ disk' = d /\ old' = old \ {n}
            /\ UNCHANGED <<cur, index, faults>>
  BY <1>2 DEF Output
<1>8. /\ disk' \in Disks /\ SameFiles(d, disk')
      /\ old' \subseteq {k \in Name : disk'[k] # NoFile}
      /\ cur' \in 0 .. MaxIndex /\ index' \in 1 .. MaxIndex + 1
      /\ faults' \in 0 .. MaxFaults /\ (faults' = 0 => faults = 0)
      /\ cur' # 0 => disk'[<<cur', "log">>] # NoFile /\ ~Full(disk'[<<cur', "log">>])
  <2>1. CASE __fidx_next(d)
    BY <1>1, <1>5, <1>6, <2>1, NextIsNewFile, NextFileFacts
  <2>2. CASE /\ ~Full(d[n]) /\ disk' = d /\ old' = old \ {n}
             /\ UNCHANGED <<cur, index, faults>>
    <3>1. SameFiles(d, disk')
      BY <2>2 DEF SameFiles
    <3>2. cur \in 0 .. MaxIndex
      BY <1>1 DEF TypeOK
    <3>. QED BY <1>2, <1>3, <1>5, <1>6, <2>2, <3>1, <3>2
  <2>. QED BY <1>7, <2>1, <2>2
<1>9. TypeOK'
  BY <1>1, <1>7, <1>8 DEF TypeOK, Disks, worker_vars
<1>10. Log(c)' = Log(c) \cup {e}
  BY <1>3, <1>4, <1>5, <1>8 DEF SameFiles, Log
<1>11. \A i \in Index : /\ i # c => Log(i)' = Log(i)
                        /\ disk'[<<i, "tmp">>] = disk[<<i, "tmp">>]
  <2>1. \A i \in Index : /\ <<i, "log">> \in Name /\ <<i, "tmp">> \in Name
                         /\ i # c => <<i, "log">> # n
                         /\ <<i, "tmp">> # n
    BY DEF Name
  <2>. QED BY <1>5, <1>8, <2>1 DEF SameFiles, Log
<1>12. Writes({e}, c)
  BY <1>3, <1>7, <1>8, <1>10, <1>11 DEF Writes
<1>. QED BY <1>9, <1>12, WriterKeeps

(* A step that leaves the disk alone has only to respect the round of the worker. *)
LEMMA SameDiskKeeps ==
    ASSUME FilesInv, TypeOK', RoundOf', MarkedThisRound',
           UNCHANGED <<disk, arctmp, archives, written, purged>>,
           cur' \in {0, cur}, faults' = 0 => faults = 0,
           \A i \in Index : <<i, "path">> \in zip' => <<i, "path">> \in zip
    PROVE  FilesInv'
<1>1. KeptWithoutFault /\ MarkedAreFinal /\ ArchivedOnce /\ OnePlace
  BY DEF FilesInv
<1>2. OnDisk' = OnDisk /\ Zipped' = Zipped
  BY DEF OnDisk, Zipped
<1>3. KeptWithoutFault' /\ ArchivedOnce'
  BY <1>1, <1>2 DEF KeptWithoutFault, LogsKept, ArchivedOnce
<1>4. MarkedAreFinal'
  BY <1>1 DEF MarkedAreFinal
<1>5. OnePlace'
  BY <1>1, <1>2 DEF OnePlace
<1>. QED BY <1>3, <1>4, <1>5 DEF FilesInv

(* A lost entry, time, the end of the log io, and a crash.                    *)
LEMMA OutsideKeeps ==
    ASSUME FilesInv, OutputLost \/ TimePasses \/ __lio_fidx_destroy \/ Crash
    PROVE  FilesInv'
<1>1. TypeOK /\ RoundOf /\ MarkedThisRound
  BY DEF FilesInv
<1>2. MaxFaults \in Nat /\ faults \in 0 .. MaxFaults /\ 0 \in 0 .. MaxIndex /\ 1 \in 1 .. MaxIndex + 1
  BY <1>1, LogFileAssumption DEF TypeOK
<1>3. CASE OutputLost
  <2>1. CASE __fidx_next(disk)
    <3>1. up' \in BOOLEAN
      BY <1>1, <1>3 DEF OutputLost, TypeOK
    <3>. QED BY <1>1, <1>3, <2>1, <3>1, NextIsNewFile, NewFileKeeps DEF OutputLost
  <2>2. CASE Fault /\ UNCHANGED <<cur, index, disk, old>>
    <3>1. /\ faults' \in 0 .. MaxFaults /\ faults' # 0
          /\ UNCHANGED <<up, cur, index, disk_vars, worker_vars, ghost_vars>>
      BY <1>2, <1>3, <2>2 DEF OutputLost, Fault, disk_vars
    <3>2. TypeOK' /\ RoundOf' /\ MarkedThisRound'
      BY <1>1, <3>1 DEF TypeOK, RoundOf, MarkedThisRound, disk_vars, worker_vars, ghost_vars
    <3>. QED BY <3>1, <3>2, SameDiskKeeps DEF disk_vars, worker_vars, ghost_vars
  <2>. QED BY <1>3, <2>1, <2>2 DEF OutputLost
<1>4. CASE TimePasses
  <2>1. TypeOK'
    BY <1>1, <1>4 DEF TimePasses, TypeOK, worker_vars, ghost_vars
  <2>2. RoundOf' /\ MarkedThisRound'
    BY <1>1, <1>4 DEF TimePasses, RoundOf, MarkedThisRound, Marked, Zipped, worker_vars
  <2>. QED BY <1>4, <2>1, <2>2, SameDiskKeeps DEF TimePasses, worker_vars, ghost_vars
<1>5. CASE __lio_fidx_destroy
  <2>1. TypeOK'
    BY <1>1, <1>2, <1>5 DEF __lio_fidx_destroy, TypeOK, disk_vars, worker_vars, ghost_vars
  <2>2. RoundOf' /\ MarkedThisRound'
    BY <1>1, <1>5 DEF __lio_fidx_destroy, RoundOf, MarkedThisRound, Marked, Zipped, disk_vars, worker_vars
  <2>. QED BY <1>5, <2>1, <2>2, SameDiskKeeps
           DEF __lio_fidx_destroy, disk_vars, worker_vars, ghost_vars
<1>6. CASE Crash
  <2>1. faults' \in 0 .. MaxFaults /\ faults' # 0
    BY <1>2, <1>6 DEF Crash, Fault
  <2>2. TypeOK'
    BY <1>1, <1>2, <1>6, <2>1 DEF Crash, TypeOK, disk_vars, ghost_vars
  <2>3. RoundOf' /\ MarkedThisRound'
    BY <1>1, <1>6, <2>1 DEF Crash, RoundOf, MarkedThisRound, disk_vars
  <2>. QED BY <1>6, <2>1, <2>2, <2>3, SameDiskKeeps DEF Crash, disk_vars, ghost_vars
<1>. QED BY <1>3, <1>4, <1>5, <1>6

(* The scan of the directory, except for the marking of files.                *)
LEMMA ScanKeeps ==
    ASSUME FilesInv,
           ArchiveBegin \/ (\E n \in Name : ScanSkip(n)) \/ (\E i \in Index : ScanLeft(i)) \/ ScanDone
    PROVE  FilesInv'
<1>1. TypeOK /\ RoundOf /\ MarkedThisRound
  BY DEF FilesInv
<1>2. /\ MaxFaults \in Nat /\ faults \in 0 .. MaxFaults
      /\ Fault => faults' \in 0 .. MaxFaults /\ faults' # 0
  BY <1>1, LogFileAssumption DEF TypeOK, Fault
<1>3. CASE ArchiveBegin
  <2>1. TypeOK'
    BY <1>1, <1>3 DEF ArchiveBegin, TypeOK, disk_vars, ghost_vars
  <2>2. RoundOf' /\ zip = {} /\ zip' = {}
    BY <1>1, <1>3 DEF ArchiveBegin, RoundOf, disk_vars
  <2>3. MarkedThisRound'
    <3>1. \A i \in Index : Marked = {} => disk[<<i, "tmp">>] = NoFile
      BY DEF Marked, Name
    <3>. QED BY <1>1, <1>3, <2>2, <3>1 DEF ArchiveBegin, MarkedThisRound, disk_vars
  <2>. QED BY <1>3, <2>1, <2>2, <2>3, SameDiskKeeps DEF ArchiveBegin, disk_vars, ghost_vars
<1>4. CASE \E n \in Name : ScanSkip(n)
  <2>1. PICK n \in Name : ScanSkip(n)
    BY <1>4
  <2>2. TypeOK'
    BY <1>1, <2>1 DEF ScanSkip, TypeOK, disk_vars, ghost_vars
  <2>3. RoundOf' /\ MarkedThisRound'
    BY <1>1, <2>1 DEF ScanSkip, RoundOf, MarkedThisRound, disk_vars
  <2>. QED BY <2>1, <2>2, <2>3, SameDiskKeeps DEF ScanSkip, disk_vars, ghost_vars
<1>5. CASE \E i \in Index : ScanLeft(i)
  <2>1. PICK i \in Index : ScanLeft(i)
    BY <1>5
  <2>2. /\ wpc = "scan" /\ disk[<<i, "tmp">>] # NoFile /\ left' = left \ {<<i, "tmp">>}
        /\ UNCHANGED <<up, cur, index, disk, old, arctmp, archives, wpc, written, purged>>
        /\ \/ zip' = Added(i, LeftSource(i)) /\ flush' = TRUE /\ faults' = faults
           \/ Fault /\ UNCHANGED <<zip, flush>>
    BY <2>1 DEF ScanLeft, Eligible, Full, NoFault, disk_vars, ghost_vars
  <2>3. /\ Added(i, LeftSource(i)) \subseteq zip \cup {<<i, "bare">>}
        /\ <<i, "path">> \in zip => Added(i, LeftSource(i)) = zip
    BY DEF Added, LeftSource
  <2>4. TypeOK'
    <3>1. zip' \subseteq Index \X {"bare", "path"}
      BY <1>1, <2>2, <2>3 DEF TypeOK
    <3>2. flush' \in BOOLEAN /\ faults' \in 0 .. MaxFaults
      BY <1>1, <1>2, <2>2 DEF TypeOK
    <3>. QED BY <1>1, <2>2, <3>1, <3>2 DEF TypeOK
  <2>5. RoundOf'
    BY <1>1, <2>2 DEF RoundOf
  <2>6. MarkedThisRound'
    <3>1. ASSUME faults' = 0
          PROVE  /\ faults = 0 /\ zip' = zip /\ flush' = TRUE
                 /\ \A j \in Index : <<j, "log">> \in left' => <<j, "log">> \in left
      BY <1>1, <1>2, <2>2, <2>3, <3>1 DEF MarkedThisRound
    <3>. QED BY <1>1, <2>2, <3>1 DEF MarkedThisRound
  <2>7. \A j \in Index : <<j, "path">> \in zip' => <<j, "path">> \in zip
    BY <2>2, <2>3
  <2>8. faults' = 0 => faults = 0
    BY <1>2, <2>2
  <2>. QED BY <2>2, <2>4, <2>5, <2>6, <2>7, <2>8, SameDiskKeeps
<1>6. CASE ScanDone
  <2>1. /\ wpc = "scan" /\ flush' = FALSE
        /\ UNCHANGED <<up, cur, index, disk, old, arctmp, archives, left, written, purged>>
        /\ \/ flush /\ wpc' = "close" /\ faults' = faults /\ zip' = zip
           \/ wpc' = "idle" /\ zip' = {} /\ (flush => Fault) /\ (~flush => faults' = faults)
    BY <1>6 DEF ScanDone, NoFault, disk_vars, ghost_vars
  <2>2. TypeOK' /\ (faults' = 0 => faults = 0)
    BY <1>1, <1>2, <2>1 DEF TypeOK
  <2>3. RoundOf'
    BY <1>1, <2>1 DEF RoundOf
  <2>4. MarkedThisRound'
    <3>1. CASE wpc' = "close"
      BY <1>1, <2>1, <3>1 DEF MarkedThisRound
    <3>2. CASE wpc' = "idle"
      <4>1. ASSUME faults' = 0 PROVE Marked' = {}
        <5>1. faults = 0 /\ zip = {}
          BY <1>1, <1>2, <2>1, <3>2, <4>1 DEF MarkedThisRound
        <5>2. \A i \in Index : disk[<<i, "tmp">>] = NoFile
          BY <1>1, <2>1, <5>1 DEF MarkedThisRound
        <5>. QED BY <2>1, <5>2 DEF Marked, Name
      <4>. QED BY <3>2, <4>1 DEF MarkedThisRound
    <3>. QED BY <2>1, <3>1, <3>2
  <2>. QED BY <2>1, <2>2, <2>3, <2>4, SameDiskKeeps
<1>. QED BY <1>3, <1>4, <1>5, <1>6

(* A full log file is marked: its entries move to log.N.ttarctmp.             *)
LEMMA ScanLogKeeps ==
    ASSUME FilesInv, NEW i \in Index, ScanLog(i)
    PROVE  FilesInv'
<1> DEFINE n == <<i, "log">>
           t == <<i, "tmp">>
<1>1. /\ TypeOK /\ KeptWithoutFault /\ MarkedAreFinal /\ ArchivedOnce
      /\ RoundOf /\ OnePlace /\ MarkedThisRound
  BY DEF FilesInv
<1>2. /\ MaxFaults \in Nat /\ faults \in 0 .. MaxFaults
      /\ Fault => faults' \in 0 .. MaxFaults /\ faults' # 0
  BY <1>1, LogFileAssumption DEF TypeOK, Fault
<1>3. /\ wpc = "scan" /\ n \in left /\ Full(disk[n])
      /\ UNCHANGED <<up, cur, index, arctmp, archives, wpc, written, purged>>
  BY DEF ScanLog, Eligible, ghost_vars
<1>4. /\ n \in Name /\ t \in Name /\ n # t /\ t[2] = "tmp"
      /\ \A j \in Index : j # i => <<j, "log">> # n /\ <<j, "tmp">> # t
      /\ \A j \in Index : /\ <<j, "log">> \in Name /\ <<j, "tmp">> \in Name
                          /\ <<j, "log">> # t /\ <<j, "tmp">> # n
  BY DEF Name
<1>5. CASE /\ Fault /\ UNCHANGED <<disk, old>> /\ left' = left \ {n} /\ UNCHANGED <<zip, flush>>
  <2>1. TypeOK' /\ RoundOf' /\ MarkedThisRound'
    BY <1>1, <1>2, <1>3, <1>5 DEF TypeOK, RoundOf, MarkedThisRound
  <2>. QED BY <1>2, <1>3, <1>5, <2>1, SameDiskKeeps
<1>6. CASE /\ disk' = [disk EXCEPT ![t] = disk[n], ![n] = NoFile]
           /\ old' = (old \ {n}) \cup {t}
           /\ left' \in {left \ {n}, (left \ {n}) \cup {t}}
           /\ \/ zip' = Added(i, <<i, "path">>) /\ flush' = TRUE /\ faults' = faults
              \/ Fault /\ UNCHANGED <<zip, flush>>
  <2>1. disk \in Disks /\ disk[n] \in Seq(Entry) /\ disk[n] # NoFile
    BY <1>1, <1>3, <1>4 DEF TypeOK, Full, Disks
  <2>2. /\ disk' \in Disks /\ disk'[n] = NoFile /\ disk'[t] = disk[n]
        /\ \A k \in Name : k # n /\ k # t => disk'[k] = disk[k]
    BY <1>4, <1>6, <2>1 DEF Disks
  <2>3. /\ Log(i)' = {} /\ Tmp(i)' = Log(i)
        /\ \A j \in Index : j # i => /\ Log(j)' = Log(j) /\ Tmp(j)' = Tmp(j)
                                     /\ disk'[<<j, "tmp">>] = disk[<<j, "tmp">>]
                                     /\ disk'[<<j, "log">>] = disk[<<j, "log">>]
    BY <1>4, <2>2, InFacts DEF Log, Tmp
  <2>4. zip' \subseteq zip \cup {<<i, "path">>} /\ flush' \in BOOLEAN /\ faults' \in 0 .. MaxFaults
    BY <1>1, <1>2, <1>6 DEF Added, TypeOK
  <2>5. TypeOK'
    <3>1. zip' \subseteq Index \X {"bare", "path"}
      BY <1>1, <2>4 DEF TypeOK
    <3>2. left' \subseteq Name
      BY <1>1, <1>4, <1>6 DEF TypeOK
    <3>3. old' \subseteq {k \in Name : disk'[k] # NoFile}
      BY <1>1, <1>4, <1>6, <2>1, <2>2 DEF TypeOK
    <3>. QED BY <1>1, <1>3, <2>2, <2>4, <3>1, <3>2, <3>3 DEF TypeOK, Disks
  <2>6. \A x : x \in OnDisk <=> \E j \in Index : x \in Log(j) \/ x \in Tmp(j)
    BY Spread DEF OnDisk, Log, Tmp
  <2>7. \A x : x \in OnDisk' <=> \E j \in Index : x \in Log(j)' \/ x \in Tmp(j)'
    BY Spread DEF OnDisk, Log, Tmp
  <2>8. OnDisk' \subseteq OnDisk
    BY <2>3, <2>6, <2>7
  <2>9. ASSUME faults' = 0
        PROVE  /\ faults = 0 /\ disk[t] = NoFile /\ Tmp(i) = {}
               /\ zip' = zip \cup {<<i, "path">>} /\ flush' = TRUE
    <3>1. faults = 0 /\ zip' = Added(i, <<i, "path">>) /\ flush' = TRUE
      BY <1>2, <1>6, <2>9
    <3>2. <<i, "path">> \notin zip /\ disk[t] = NoFile /\ \A s \in zip : s[2] = "path"
      BY <1>1, <1>3, <3>1 DEF MarkedThisRound
    <3>3. \A s \in zip : s = <<s[1], "path">>
      BY <1>1, <3>2 DEF TypeOK
    <3>4. \A s \in zip : s[1] # i
      BY <3>2, <3>3
    <3>. QED BY <3>1, <3>2, <3>4, InFacts DEF Added, Tmp
  <2>10. Zipped' = Zipped
    BY <1>3 DEF Zipped
  <2>11. KeptWithoutFault'
    <3>1. ASSUME faults' = 0 PROVE OnDisk \subseteq OnDisk'
      <4>1. ASSUME NEW x \in OnDisk PROVE x \in OnDisk'
        <5>1. PICK j \in Index : x \in Log(j) \/ x \in Tmp(j)
          BY <2>6
        <5>2. x \in Log(j)' \/ x \in Tmp(j)'
          BY <2>3, <2>9, <3>1, <5>1
        <5>. QED BY <2>7, <5>2
      <4>. QED BY <4>1
    <3>. QED BY <1>1, <1>3, <2>9, <2>10, <3>1 DEF KeptWithoutFault, LogsKept
  <2>12. MarkedAreFinal'
    <3>1. cur # i
      BY <1>1, <1>3, LogFileAssumption DEF MarkedAreFinal, Index
    <3>2. cur # 0 => cur \in Index
      BY <1>1, LogFileAssumption DEF TypeOK, Index
    <3>3. \A j \in Index : disk'[<<j, "tmp">>] # NoFile => Full(disk'[<<j, "tmp">>])
      BY <1>1, <1>3, <2>2, <2>3 DEF MarkedAreFinal
    <3>. QED BY <1>1, <1>3, <2>3, <3>1, <3>2, <3>3 DEF MarkedAreFinal
  <2>13. ArchivedOnce' /\ RoundOf'
    BY <1>1, <1>3, <2>4 DEF ArchivedOnce, RoundOf
  <2>14. OnePlace'
    <3>1. /\ \A j, k \in Index : j # k => Log(j) \cap Log(k) = {}
          /\ \A j, k \in Index : Log(j) \cap Tmp(k) = {}
          /\ \A j \in Index : Log(j) \cap Zipped = {}
          /\ \A j \in Index : <<j, "path">> \in zip => Tmp(j) \cap Zipped = {}
      BY <1>1 DEF OnePlace, Log, Tmp
    <3>2. ASSUME NEW j \in Index, NEW k \in Index, j # k PROVE Log(j)' \cap Log(k)' = {}
      BY <2>3, <3>1, <3>2
    <3>3. ASSUME NEW j \in Index, NEW k \in Index PROVE Log(j)' \cap Tmp(k)' = {}
      <4>1. CASE j = i
        BY <2>3, <4>1
      <4>2. CASE j # i
        BY <2>3, <3>1, <4>2
      <4>. QED BY <4>1, <4>2
    <3>4. ASSUME NEW j \in Index PROVE Log(j)' \cap Zipped' = {}
      BY <2>3, <2>10, <3>1
    <3>5. ASSUME NEW j \in Index, <<j, "path">> \in zip' PROVE Tmp(j)' \cap Zipped' = {}
      <4>1. CASE j = i
        BY <2>3, <2>10, <3>1, <4>1
      <4>2. CASE j # i
        BY <2>3, <2>4, <2>10, <3>1, <3>5, <4>2
      <4>. QED BY <4>1, <4>2
    <3>6. (OnDisk \cup Zipped \cup purged)' \subseteq written'
      BY <1>1, <1>3, <2>8, <2>10 DEF OnePlace
    <3>. QED BY <3>2, <3>3, <3>4, <3>5, <3>6 DEF OnePlace, Log, Tmp
  <2>15. MarkedThisRound'
    <3>1. ASSUME faults' = 0
          PROVE  /\ \A s \in zip' : s[2] = "path"
                 /\ \A j \in Index : disk'[<<j, "tmp">>] # NoFile => <<j, "path">> \in zip'
                 /\ \A j \in Index : <<j, "path">> \in zip' => <<j, "log">> \notin left'
      <4>1. /\ \A s \in zip : s[2] = "path"
            /\ \A j \in Index : disk[<<j, "tmp">>] # NoFile => <<j, "path">> \in zip
            /\ \A j \in Index : <<j, "path">> \in zip => <<j, "log">> \notin left
        BY <1>1, <1>3, <2>9, <3>1 DEF MarkedThisRound
      <4>2. \A s \in zip' : s[2] = "path"
        BY <2>9, <3>1, <4>1
      <4>3. \A j \in Index : disk'[<<j, "tmp">>] # NoFile => <<j, "path">> \in zip'
        BY <2>3, <2>9, <3>1, <4>1
      <4>4. ASSUME NEW j \in Index, <<j, "path">> \in zip' PROVE <<j, "log">> \notin left'
        <5>1. CASE j = i
          BY <1>4, <1>6, <5>1
        <5>2. CASE j # i
          BY <1>4, <1>6, <2>4, <4>1, <4>4, <5>2
        <5>. QED BY <5>1, <5>2
      <4>. QED BY <4>2, <4>3, <4>4
    <3>. QED BY <1>3, <2>9, <3>1 DEF MarkedThisRound
  <2>. QED BY <2>5, <2>11, <2>12, <2>13, <2>14, <2>15 DEF FilesInv
<1>. QED BY <1>5, <1>6 DEF ScanLog, RenameFails, NoFault

(* tt_zip_destroy() writes the archive, or fails.                             *)
LEMMA CloseZipKeeps ==
    ASSUME FilesInv, CloseZip
    PROVE  FilesInv'
<1>1. /\ TypeOK /\ KeptWithoutFault /\ MarkedAreFinal /\ ArchivedOnce
      /\ RoundOf /\ OnePlace /\ MarkedThisRound
  BY DEF FilesInv
<1>2. /\ MaxFaults \in Nat /\ faults \in 0 .. MaxFaults
      /\ Fault => faults' \in 0 .. MaxFaults /\ faults' # 0
  BY <1>1, LogFileAssumption DEF TypeOK, Fault
<1>3. /\ wpc = "close" /\ zip' = {} /\ wpc' = "rename" /\ arctmp = NoFile
      /\ UNCHANGED <<up, cur, index, disk, old, archives, left, flush, written, purged>>
  BY <1>1 DEF CloseZip, RoundOf, ghost_vars
<1> DEFINE U == UNION {In(disk[<<s[1], "tmp">>]) : s \in zip}
<1>4. CASE (\A s \in zip : s[2] = "path") /\ arctmp' = U /\ faults' = faults
  <2>1. \A s \in zip : s[1] \in Index /\ s = <<s[1], "path">>
    BY <1>1, <1>4 DEF TypeOK
  <2>2. \A x : x \in U <=> \E i \in Index : <<i, "path">> \in zip /\ x \in Tmp(i)
    <3>1. \A x : x \in U <=> \E s \in zip : x \in In(disk[<<s[1], "tmp">>])
      OBVIOUS
    <3>. QED BY <2>1, <3>1 DEF Tmp
  <2>3. \A x : x \in OnDisk <=> \E i \in Index : x \in Log(i) \/ x \in Tmp(i)
    BY Spread DEF OnDisk, Log, Tmp
  <2>4. U \subseteq OnDisk /\ U \subseteq written /\ U \subseteq Entry /\ U # NoFile
    <3>1. U \subseteq OnDisk
      BY <2>2, <2>3
    <3>2. U \subseteq written /\ written \subseteq Entry
      BY <1>1, <3>1 DEF OnePlace, TypeOK
    <3>. QED BY <3>1, <3>2, LogFileAssumption
  <2>. HIDE DEF U
  <2>5. Zipped = UNION archives /\ OnDisk' = OnDisk
    BY <1>3 DEF Zipped, OnDisk
  <2>6. \A x : x \in Zipped' <=> x \in Zipped \/ x \in U
    <3>1. Zipped' = (UNION archives) \cup U
      BY <1>3, <1>4, <2>4 DEF Zipped
    <3>. QED BY <2>5, <3>1
  <2>7. TypeOK'
    BY <1>1, <1>3, <1>4, <2>4 DEF TypeOK
  <2>8. KeptWithoutFault'
    BY <1>1, <1>3, <1>4, <2>5, <2>6 DEF KeptWithoutFault, LogsKept
  <2>9. MarkedAreFinal' /\ RoundOf'
    BY <1>1, <1>3 DEF MarkedAreFinal, RoundOf
  <2>10. /\ \A i, j \in Index : Log(i) \cap Tmp(j) = {}
         /\ \A i \in Index : Log(i) \cap Zipped = {}
         /\ \A i \in Index : <<i, "path">> \in zip => Tmp(i) \cap Zipped = {}
    BY <1>1 DEF OnePlace, Log, Tmp
  <2>11. ArchivedOnce'
    <3>1. U \cap (UNION archives) = {}
      BY <2>2, <2>5, <2>10
    <3>. QED BY <1>1, <1>3, <1>4, <3>1 DEF ArchivedOnce
  <2>12. OnePlace'
    <3>1. ASSUME NEW i \in Index PROVE Log(i) \cap Zipped' = {}
      <4>1. Log(i) \cap U = {}
        BY <2>2, <2>10
      <4>. QED BY <2>6, <2>10, <4>1
    <3>2. (OnDisk \cup Zipped \cup purged)' \subseteq written'
      BY <1>1, <1>3, <2>4, <2>5, <2>6 DEF OnePlace
    <3>. QED BY <1>1, <1>3, <3>1, <3>2 DEF OnePlace, Log
  <2>13. MarkedThisRound'
    <3>1. ASSUME faults' = 0, NEW n \in Marked' PROVE In(disk'[n]) \subseteq Zipped'
      <4>1. PICK i \in Index : n = <<i, "tmp">> /\ disk[n] # NoFile
        BY <1>3 DEF Marked, Name
      <4>2. <<i, "path">> \in zip
        BY <1>1, <1>3, <1>4, <3>1, <4>1 DEF MarkedThisRound
      <4>3. \A x \in In(disk[n]) : x \in U
        BY <2>2, <4>1, <4>2 DEF Tmp
      <4>. QED BY <1>3, <2>6, <4>3
    <3>. QED BY <1>3, <3>1 DEF MarkedThisRound
  <2>. QED BY <2>7, <2>8, <2>9, <2>11, <2>12, <2>13 DEF FilesInv
<1>5. CASE /\ IF \A s \in zip : s[2] = "path" THEN Fault ELSE faults' = faults
           /\ UNCHANGED arctmp
  <2>1. faults' # 0 /\ faults' \in 0 .. MaxFaults
    BY <1>1, <1>2, <1>3, <1>5 DEF MarkedThisRound
  <2>2. TypeOK' /\ RoundOf' /\ MarkedThisRound'
    BY <1>1, <1>3, <1>5, <2>1 DEF TypeOK, RoundOf, MarkedThisRound
  <2>. QED BY <1>3, <1>5, <2>1, <2>2, SameDiskKeeps
<1>. QED BY <1>4, <1>5 DEF CloseZip, NoFault

(* The archive gets its final name, or not.                                   *)
LEMMA RenameZipKeeps ==
    ASSUME FilesInv, RenameZip
    PROVE  FilesInv'
<1>1. /\ TypeOK /\ KeptWithoutFault /\ MarkedAreFinal /\ ArchivedOnce
      /\ RoundOf /\ OnePlace /\ MarkedThisRound
  BY DEF FilesInv
<1>2. /\ MaxFaults \in Nat /\ faults \in 0 .. MaxFaults
      /\ Fault => faults' \in 0 .. MaxFaults /\ faults' # 0
  BY <1>1, LogFileAssumption DEF TypeOK, Fault
<1>3. /\ wpc = "rename" /\ zip = {}
      /\ UNCHANGED <<up, cur, index, disk, old, zip, flush, written, purged>>
  BY <1>1 DEF RenameZip, RoundOf, ghost_vars
<1>4. Marked' = Marked /\ Marked \subseteq Name /\ \A n \in Marked : n[2] = "tmp"
  BY <1>3 DEF Marked
<1>5. ASSUME archives' = ArchivesWith(arctmp), arctmp' = NoFile,
             \/ faults' = faults /\ wpc' = "sweep" /\ left' = Marked
             \/ Fault /\ wpc' = "idle" /\ left' = {}
      PROVE  FilesInv'
  <2>1. Zipped' = Zipped /\ OnDisk' = OnDisk
    <3>1. OnDisk' = OnDisk
      BY <1>3 DEF OnDisk
    <3>2. Zipped' = UNION ArchivesWith(arctmp)
      BY <1>5 DEF Zipped
    <3>3. CASE arctmp = NoFile
      BY <3>1, <3>2, <3>3 DEF Zipped, ArchivesWith
    <3>4. CASE arctmp # NoFile
      <4>1. Zipped = (UNION archives) \cup arctmp /\ Zipped' = UNION (archives \cup {arctmp})
        BY <3>2, <3>4 DEF Zipped, ArchivesWith
      <4>2. \A x : x \in UNION (archives \cup {arctmp}) <=> x \in UNION archives \/ x \in arctmp
        OBVIOUS
      <4>. QED BY <3>1, <4>1, <4>2
    <3>. QED BY <3>3, <3>4
  <2>2. TypeOK' /\ (faults' = 0 => faults = 0)
    BY <1>1, <1>2, <1>3, <1>4, <1>5 DEF TypeOK, ArchivesWith
  <2>3. KeptWithoutFault' /\ MarkedAreFinal'
    BY <1>1, <1>3, <2>1, <2>2 DEF KeptWithoutFault, LogsKept, MarkedAreFinal
  <2>4. ArchivedOnce'
    BY <1>1, <1>5 DEF ArchivedOnce, ArchivesWith
  <2>5. RoundOf'
    BY <1>3, <1>4, <1>5 DEF RoundOf
  <2>6. OnePlace'
    BY <1>1, <1>3, <2>1 DEF OnePlace
  <2>7. MarkedThisRound'
    BY <1>1, <1>2, <1>3, <1>4, <1>5, <2>1 DEF MarkedThisRound
  <2>. QED BY <2>2, <2>3, <2>4, <2>5, <2>6, <2>7 DEF FilesInv
<1>6. CASE Fault /\ UNCHANGED <<archives, arctmp>> /\ wpc' = "sweep" /\ left' = Marked
  <2>1. TypeOK' /\ RoundOf' /\ MarkedThisRound'
    BY <1>1, <1>2, <1>3, <1>4, <1>6 DEF TypeOK, RoundOf, MarkedThisRound
  <2>. QED BY <1>2, <1>3, <1>6, <2>1, SameDiskKeeps
<1>. QED BY <1>5, <1>6 DEF RenameZip, NoFault

(* A marked file is removed: without a fault its entries are in the archive.  *)
LEMMA SweepKeeps ==
    ASSUME FilesInv, NEW n \in Name, Sweep(n)
    PROVE  FilesInv'
<1>1. /\ TypeOK /\ KeptWithoutFault /\ MarkedAreFinal /\ ArchivedOnce
      /\ RoundOf /\ OnePlace /\ MarkedThisRound
  BY DEF FilesInv
<1>2. /\ MaxFaults \in Nat /\ faults \in 0 .. MaxFaults
      /\ Fault => faults' \in 0 .. MaxFaults /\ faults' # 0
  BY <1>1, LogFileAssumption DEF TypeOK, Fault
<1>3. /\ wpc = "sweep" /\ n \in left /\ left' = left \ {n} /\ zip = {}
      /\ UNCHANGED <<up, cur, index, arctmp, archives, wpc, zip, flush, written, purged>>
  BY <1>1 DEF Sweep, RoundOf, ghost_vars
<1>4. PICK i \in Index : n = <<i, "tmp">>
  BY <1>1, <1>3 DEF RoundOf, Name
<1>5. CASE disk' = [disk EXCEPT ![n] = NoFile] /\ old' = old \ {n} /\ faults' = faults
  <2>1. /\ disk' \in Disks /\ disk'[n] = NoFile /\ \A k \in Name : k # n => disk'[k] = disk[k]
    BY <1>1, <1>5 DEF TypeOK, Disks
  <2>2. \A j \in Index : /\ <<j, "log">> \in Name /\ <<j, "tmp">> \in Name /\ <<j, "log">> # n
                         /\ j # i => <<j, "tmp">> # n
    BY <1>4 DEF Name
  <2>3. \A j \in Index : /\ disk'[<<j, "log">>] = disk[<<j, "log">>] /\ Log(j)' = Log(j)
                         /\ j # i => disk'[<<j, "tmp">>] = disk[<<j, "tmp">>] /\ Tmp(j)' = Tmp(j)
    BY <2>1, <2>2 DEF Log, Tmp
  <2>4. Tmp(i)' = {}
    BY <1>4, <2>1, InFacts DEF Tmp
  <2>5. TypeOK'
    BY <1>1, <1>3, <1>5, <2>1 DEF TypeOK, Disks
  <2>6. \A x : x \in OnDisk <=> \E j \in Index : x \in Log(j) \/ x \in Tmp(j)
    BY Spread DEF OnDisk, Log, Tmp
  <2>7. \A x : x \in OnDisk' <=> \E j \in Index : x \in Log(j)' \/ x \in Tmp(j)'
    BY Spread DEF OnDisk, Log, Tmp
  <2>8. OnDisk' \subseteq OnDisk /\ Zipped' = Zipped
    BY <1>3, <2>3, <2>4, <2>6, <2>7 DEF Zipped
  <2>9. KeptWithoutFault'
    <3>1. ASSUME faults = 0, NEW x \in OnDisk PROVE x \in OnDisk' \/ x \in Zipped
      <4>1. PICK j \in Index : x \in Log(j) \/ x \in Tmp(j)
        BY <2>6
      <4>2. CASE x \in Tmp(i)
        <5>1. n \in Marked
          BY <1>4, <4>2, InFacts DEF Marked, Tmp
        <5>. QED BY <1>1, <1>3, <1>4, <3>1, <4>2, <5>1 DEF MarkedThisRound, Tmp
      <4>3. CASE x \notin Tmp(i)
        <5>1. x \in Log(j)' \/ x \in Tmp(j)'
          BY <2>3, <4>1, <4>3
        <5>. QED BY <2>7, <5>1
      <4>. QED BY <4>2, <4>3
    <3>. QED BY <1>1, <1>3, <1>5, <2>8, <3>1 DEF KeptWithoutFault, LogsKept
  <2>10. MarkedAreFinal'
    <3>1. cur # 0 => cur \in Index
      BY <1>1, LogFileAssumption DEF TypeOK, Index
    <3>. QED BY <1>1, <1>3, <1>4, <2>1, <2>3, <3>1 DEF MarkedAreFinal
  <2>11. ArchivedOnce' /\ RoundOf'
    BY <1>1, <1>3 DEF ArchivedOnce, RoundOf
  <2>12. OnePlace'
    <3>1. /\ \A j, k \in Index : j # k => Log(j) \cap Log(k) = {}
          /\ \A j, k \in Index : Log(j) \cap Tmp(k) = {}
          /\ \A j \in Index : Log(j) \cap Zipped = {}
      BY <1>1 DEF OnePlace, Log, Tmp
    <3>2. ASSUME NEW j \in Index, NEW k \in Index PROVE Log(j)' \cap Tmp(k)' = {}
      BY <2>3, <2>4, <3>1
    <3>3. (OnDisk \cup Zipped \cup purged)' \subseteq written'
      BY <1>1, <1>3, <2>8 DEF OnePlace
    <3>4. /\ \A j, k \in Index : j # k => Log(j)' \cap Log(k)' = {}
          /\ \A j \in Index : Log(j)' \cap Zipped' = {}
      BY <2>3, <2>8, <3>1
    <3>. QED BY <1>3, <3>2, <3>3, <3>4 DEF OnePlace, Log, Tmp
  <2>13. MarkedThisRound'
    <3>1. \A k \in Marked' : k \in Marked /\ k # n /\ disk'[k] = disk[k]
      BY <2>1 DEF Marked
    <3>. QED BY <1>1, <1>3, <1>5, <2>8, <3>1 DEF MarkedThisRound
  <2>. QED BY <2>5, <2>9, <2>10, <2>11, <2>12, <2>13 DEF FilesInv
<1>6. CASE Fault /\ UNCHANGED <<disk, old>>
  <2>1. TypeOK' /\ RoundOf' /\ MarkedThisRound'
    BY <1>1, <1>2, <1>3, <1>6 DEF TypeOK, RoundOf, MarkedThisRound
  <2>. QED BY <1>2, <1>3, <1>6, <2>1, SameDiskKeeps
<1>. QED BY <1>5, <1>6 DEF Sweep, NoFault

(* The end of a round, and the removal of old archives.                       *)
LEMMA RoundEndKeeps ==
    ASSUME FilesInv, SweepDone \/ __liof_w_purge_remove
    PROVE  FilesInv'
<1>1. /\ TypeOK /\ KeptWithoutFault /\ MarkedAreFinal /\ ArchivedOnce
      /\ RoundOf /\ OnePlace /\ MarkedThisRound
  BY DEF FilesInv
<1>2. CASE SweepDone
  <2>1. TypeOK'
    BY <1>1, <1>2 DEF SweepDone, TypeOK, disk_vars, ghost_vars
  <2>2. RoundOf' /\ MarkedThisRound'
    BY <1>1, <1>2 DEF SweepDone, RoundOf, MarkedThisRound, Marked, disk_vars
  <2>. QED BY <1>2, <2>1, <2>2, SameDiskKeeps DEF SweepDone, disk_vars, ghost_vars
<1>3. CASE __liof_w_purge_remove
  <2>1. /\ wpc = "idle" /\ purged' = purged \cup Zipped /\ archives' = {} /\ arctmp' = NoFile
        /\ UNCHANGED <<up, cur, index, faults, disk, old, wpc, left, zip, flush, written>>
    BY <1>3 DEF __liof_w_purge_remove, worker_vars
  <2>2. Zipped' = {} /\ OnDisk' = OnDisk /\ Zipped \subseteq written
    BY <1>1, <2>1 DEF Zipped, OnDisk, OnePlace
  <2>3. TypeOK'
    BY <1>1, <2>1, <2>2 DEF TypeOK
  <2>4. KeptWithoutFault' /\ MarkedAreFinal' /\ ArchivedOnce' /\ RoundOf'
    BY <1>1, <2>1, <2>2 DEF KeptWithoutFault, LogsKept, MarkedAreFinal, ArchivedOnce, RoundOf
  <2>5. OnePlace'
    BY <1>1, <2>1, <2>2 DEF OnePlace
  <2>6. MarkedThisRound'
    BY <1>1, <2>1 DEF MarkedThisRound, Marked
  <2>. QED BY <2>3, <2>4, <2>5, <2>6 DEF FilesInv
<1>. QED BY <1>2, <1>3

-----------------------------------------------------------------------------

\* The steps of the log files; the writer never writes an entry again.
FileNext ==
    \/ NewFile(disk) /\ up' \in BOOLEAN /\ UNCHANGED <<arctmp, archives, worker_vars, ghost_vars>>
    \/ \E e \in Entry : e \notin written /\ Output(e)
    \/ OutputLost \/ TimePasses \/ __lio_fidx_destroy \/ Crash
    \/ Worker \/ __liof_w_purge_remove

(* All of them together.                                                      *)
LEMMA FilesKeep ==
    ASSUME FilesInv, [FileNext]_vars
    PROVE  FilesInv'
<1>1. CASE UNCHANGED vars
  <2>1. UNCHANGED <<up, cur, index, faults, disk, old, arctmp, archives, wpc, left, zip, flush,
                    written, purged>>
    BY <1>1 DEF vars, disk_vars, worker_vars, ghost_vars
  <2>2. TypeOK' /\ RoundOf'
    BY <2>1 DEF FilesInv, TypeOK, RoundOf
  <2>3. MarkedThisRound'
    BY <2>1 DEF FilesInv, MarkedThisRound, Marked, Zipped
  <2>. QED BY <2>1, <2>2, <2>3, SameDiskKeeps
<1>2. CASE FileNext
  BY <1>2, NewFileKeeps, OutputKeeps, OutsideKeeps, ScanKeeps, ScanLogKeeps, CloseZipKeeps,
     RenameZipKeeps, SweepKeeps, RoundEndKeeps DEF FileNext, Worker
<1>. QED BY <1>1, <1>2

\* The way through the buffers, without what follows from it.
PipeParts ==
    /\ Async!TypeOK /\ Async!InOrder /\ Async!ExitLast /\ Async!EventOnItsWay
    /\ WrittenFirst /\ AnnouncedKept

(* The entry that is read next, or what is written instead, was never written. *)
LEMMA HeadFacts ==
    ASSUME PipeParts, obuf # <<>>,
           NEW x \in {Head(obuf).e, Async!Garbage(Head(obuf).e)}
    PROVE  /\ x \in Entry /\ x \notin written
           /\ PutNo(x) = obuf[1].e /\ obuf[1].e \in Nat \ {0} /\ Head(obuf) = obuf[1]
           /\ \A d \in written : PutNo(d) < PutNo(x)
<1>1. /\ obuf \in Seq(Async!Frames) /\ 1 \in DOMAIN obuf /\ Head(obuf) = obuf[1]
  BY DEF PipeParts, Async!TypeOK
<1>2. obuf[1] \in Async!Frames
  BY <1>1
<1>3. obuf[1].e \in 1 .. MaxEntry /\ MaxEntry \in Nat /\ Entry = 1 .. 2 * MaxEntry
  BY <1>2, LogPipeAssumption DEF Async!Frames
<1>4. x \in Entry /\ PutNo(x) = obuf[1].e
  BY <1>1, <1>3 DEF PutNo, Async!Garbage
<1>5. \A d \in written : PutNo(d) < PutNo(x)
  BY <1>1, <1>4 DEF PipeParts, WrittenFirst
<1>6. x \notin written
  BY <1>3, <1>4, <1>5
<1>. QED BY <1>1, <1>3, <1>4, <1>5, <1>6

(* A step of the pipe is a step of the files that writes nothing twice.       *)
LEMMA PipeStepsFiles ==
    ASSUME TypeOK, PipeParts, [PipeNext]_log_vars
    PROVE  [FileNext]_vars
<1>1. ASSUME NEW x, x \in Entry, x \notin written, ToFile(x) PROVE FileNext
  BY <1>1 DEF ToFile, FileNext
<1>2. CASE Hand
  <2>1. CASE Async!Deliver /\ ToFile(Head(obuf).e)
    BY <1>1, <2>1, HeadFacts DEF Async!Deliver
  <2>2. CASE Async!Misread /\ ToFile(Async!Garbage(Head(obuf).e))
    BY <1>1, <2>2, HeadFacts DEF Async!Misread
  <2>3. CASE Reopen
    BY <2>3 DEF Reopen, NewFile, FileNext
  <2>. QED BY <1>2, <2>1, <2>2, <2>3 DEF Hand
<1>3. CASE Create
  <2>1. ASSUME tt_logio_file_create PROVE FileNext
    <3>1. MaxIndex \in Nat /\ index = 1
      BY <2>1, LogFileAssumption DEF tt_logio_file_create
    <3>2. \A i \in index .. MaxIndex + 1 : i \in Nat
      BY <3>1
    <3>3. 1 \in 1 .. MaxIndex + 1
      BY <3>1
    <3>4. NewFile(disk)
      BY <2>1, <3>2, <3>3 DEF tt_logio_file_create, NewFile
    <3>. QED BY <2>1, <3>4 DEF tt_logio_file_create, FileNext
  <2>. QED BY <1>3, <2>1 DEF Create
<1>4. CASE Destroy \/ Loggers \/ Posts \/ (Async!IoFiber /\ UNCHANGED vars) \/ Aside \/ PipeCrash
  BY <1>4 DEF Destroy, Loggers, Posts, Aside, PipeCrash, FileNext
<1>5. CASE UNCHANGED log_vars
  BY <1>5 DEF log_vars
<1>. QED BY <1>2, <1>3, <1>4, <1>5 DEF PipeNext, IoFiber

(* A put adds one frame at the end of the buffer.                             *)
LEMMA HeldAppend ==
    ASSUME NEW buf \in Seq(Async!Frames), NEW f \in Async!Frames
    PROVE  /\ Append(buf, f) \in Seq(Async!Frames)
           /\ DOMAIN buf = 1 .. Len(buf) /\ Len(buf) \in Nat
           /\ DOMAIN Append(buf, f) = 1 .. Len(buf) + 1
           /\ \A i \in 1 .. Len(buf) : Append(buf, f)[i] = buf[i]
           /\ Append(buf, f)[Len(buf) + 1] = f
           /\ Async!Held(Append(buf, f)) = Async!Held(buf) \cup {f.e}
<1> DEFINE g == Append(buf, f)
<1>1. /\ g \in Seq(Async!Frames) /\ Len(buf) \in Nat
      /\ DOMAIN buf = 1 .. Len(buf) /\ DOMAIN g = 1 .. Len(buf) + 1
      /\ \A i \in 1 .. Len(buf) : g[i] = buf[i]
      /\ g[Len(buf) + 1] = f
  OBVIOUS
<1>. HIDE DEF g
<1>2. ASSUME NEW x PROVE x \in Async!Held(g) <=> x \in Async!Held(buf) \/ x = f.e
  <2>1. x \in Async!Held(g) <=> \E i \in 1 .. Len(buf) + 1 : x = g[i].e
    BY <1>1 DEF Async!Held
  <2>2. x \in Async!Held(buf) <=> \E i \in 1 .. Len(buf) : x = buf[i].e
    BY <1>1 DEF Async!Held
  <2>3. \A i : i \in 1 .. Len(buf) + 1 <=> i \in 1 .. Len(buf) \/ i = Len(buf) + 1
    BY <1>1
  <2>. QED BY <1>1, <2>1, <2>2, <2>3
<1>. QED BY <1>1, <1>2 DEF g

\* buf is what is left of old when the first k frames were read.
Rest(buf, old_buf, k) ==
    /\ buf \in Seq(Async!Frames) /\ k \in 1 .. Len(old_buf) /\ Len(buf) = Len(old_buf) - k
    /\ \A i \in 1 .. Len(buf) : buf[i].e = old_buf[i + k].e

(* Reading on, past k frames, and writing at most the first of them keeps the order. *)
LEMMA ReadKeeps ==
    ASSUME PipeParts, NEW k, Rest(obuf', obuf, k),
           UNCHANGED <<apc, sending, closing, ibuf, evq, puts, announced, nomem>>,
           apc = "drain", spoiled' \subseteq 1 .. MaxEntry,
           written' \subseteq written \cup {Head(obuf).e, Async!Garbage(Head(obuf).e)},
           AnnouncedKept'
    PROVE  PipeParts'
<1>1. /\ Async!TypeOK /\ Async!InOrder /\ Async!ExitLast /\ Async!EventOnItsWay
      /\ WrittenFirst
  BY DEF PipeParts
<1>2. /\ obuf \in Seq(Async!Frames) /\ obuf' \in Seq(Async!Frames) /\ Len(obuf) \in Nat /\ Len(obuf') \in Nat
      /\ DOMAIN obuf = 1 .. Len(obuf) /\ DOMAIN obuf' = 1 .. Len(obuf')
      /\ k \in 1 .. Len(obuf) /\ Len(obuf') = Len(obuf) - k /\ obuf # <<>>
  BY <1>1 DEF Async!TypeOK, Rest
<1>3. \A i \in DOMAIN obuf' : /\ i + k \in DOMAIN obuf /\ obuf'[i].e = obuf[i + k].e
                              /\ 1 < i + k
  BY <1>2 DEF Rest
<1>4. 1 \in DOMAIN obuf
  BY <1>2
<1>5. /\ \A i \in DOMAIN obuf : obuf[i].e \in Nat
      /\ \A i \in DOMAIN ibuf : ibuf[i].e \in Nat
      /\ puts \in Nat
  <2>1. \A f \in Async!Frames : f.e \in Nat
    BY LogPipeAssumption DEF Async!Frames
  <2>. QED BY <1>1, <2>1 DEF Async!TypeOK
<1>6. Async!TypeOK'
  BY <1>1, <1>2 DEF Async!TypeOK
<1>7. Async!InOrder'
  <2>1. \A i, j \in DOMAIN obuf' : i < j => obuf'[i].e < obuf'[j].e
    <3>1. SUFFICES ASSUME NEW i \in DOMAIN obuf', NEW j \in DOMAIN obuf', i < j
                   PROVE  obuf[i + k].e < obuf[j + k].e
      BY <1>3
    <3>2. i + k < j + k
      BY <1>2, <3>1
    <3>. QED BY <1>1, <1>3, <3>2 DEF Async!InOrder
  <2>2. /\ \A i \in DOMAIN obuf', j \in DOMAIN ibuf : obuf'[i].e < ibuf[j].e
        /\ \A i \in DOMAIN obuf' : obuf'[i].e <= puts
    BY <1>1, <1>3 DEF Async!InOrder
  <2>. QED BY <1>1, <2>1, <2>2 DEF Async!InOrder
<1>8. Async!ExitLast' /\ Async!EventOnItsWay'
  BY <1>1 DEF Async!ExitLast, Async!EventOnItsWay
<1>9. WrittenFirst'
  <2>1. ASSUME NEW d \in written'
        PROVE  /\ PutNo(d) \in 1 .. puts
               /\ \A i \in DOMAIN obuf' : PutNo(d) < obuf'[i].e
               /\ \A i \in DOMAIN ibuf : PutNo(d) < ibuf[i].e
    <3>1. CASE d \in written
      BY <1>1, <1>3, <3>1 DEF WrittenFirst
    <3>2. CASE d \in {Head(obuf).e, Async!Garbage(Head(obuf).e)}
      <4>1. PutNo(d) = obuf[1].e /\ obuf[1].e \in Nat \ {0}
        BY <1>2, <3>2, HeadFacts
      <4>2. \A i \in DOMAIN obuf' : obuf[1].e < obuf'[i].e
        BY <1>1, <1>3, <1>4 DEF Async!InOrder
      <4>. QED BY <1>1, <1>4, <1>5, <4>1, <4>2 DEF Async!InOrder
    <3>. QED BY <2>1, <3>1, <3>2
  <2>2. \A d : PutNo(d)' = PutNo(d)
    BY DEF PutNo
  <2>. QED BY <2>1, <2>2 DEF WrittenFirst, PutNo
<1>. QED BY <1>6, <1>7, <1>8, <1>9 DEF PipeParts

(* A function on 1 .. n is a sequence of length n.                            *)
LEMMA FunIsSeq ==
    ASSUME NEW S, NEW n \in Nat, NEW g \in [1 .. n -> S]
    PROVE  g \in Seq(S) /\ Len(g) = n
  OBVIOUS

(* An entry handed to the file is written, or something failed.               *)
LEMMA ToFileFacts ==
    ASSUME TypeOK, NEW x, ToFile(x)
    PROVE  /\ written \subseteq written' /\ written' \subseteq written \cup {x}
           /\ faults' = 0 => faults = 0 /\ x \in written'
<1>1. faults \in Nat
  BY LogFileAssumption DEF TypeOK
<1>2. CASE OutputLost
  <2>1. Fault \/ (__fidx_next(disk) /\ cur' = 0)
    BY <1>2 DEF OutputLost
  <2>2. ASSUME NextOpens(disk) PROVE cur' # 0
    <3>1. PICK S \in SUBSET Index : S # {} /\ cur' = Min(S)
      BY <2>2 DEF NextOpens
    <3>. QED BY <3>1, MinFacts, LogFileAssumption DEF Index
  <2>3. Fault
    BY <2>1, <2>2 DEF __fidx_next, NextFails
  <2>. QED BY <1>1, <1>2, <2>3 DEF OutputLost, Fault, ghost_vars
<1>3. CASE Output(x)
  <2>1. faults' = 0 => faults = 0
    BY <1>1, <1>3 DEF Output, __fidx_next, NextOpens, NextFails, Fault, NoFault
  <2>. QED BY <1>3, <2>1 DEF Output
<1>. QED BY <1>2, <1>3 DEF ToFile

(* The io fiber hands on an entry as it was put, or misread.                  *)
LEMMA HandKeeps ==
    ASSUME TypeOK, PipeParts,
           \/ Async!Deliver /\ ToFile(Head(obuf).e)
           \/ Async!Misread /\ ToFile(Async!Garbage(Head(obuf).e))
    PROVE  PipeParts'
<1>1. obuf \in Seq(Async!Frames) /\ spoiled \subseteq 1 .. MaxEntry
  BY DEF PipeParts, Async!TypeOK
<1>2. \A x : x \in Async!Held(obuf) <=> \E i \in DOMAIN obuf : x = obuf[i].e
  BY DEF Async!Held
<1>3. \A x : x \in Async!Held(obuf') <=> \E i \in DOMAIN obuf' : x = obuf'[i].e
  BY DEF Async!Held
<1>4. Len(obuf) \in Nat /\ DOMAIN obuf = 1 .. Len(obuf)
  BY <1>1
<1>5. CASE Async!Deliver /\ ToFile(Head(obuf).e)
  <2>1. /\ apc = "drain" /\ obuf # <<>> /\ obuf' = Tail(obuf)
        /\ UNCHANGED <<apc, sending, closing, ibuf, evq, puts, announced, spoiled, nomem>>
    BY <1>5 DEF Async!Deliver
  <2>2. /\ obuf' \in Seq(Async!Frames) /\ 1 \in 1 .. Len(obuf) /\ Len(obuf') = Len(obuf) - 1
        /\ DOMAIN obuf' = 1 .. Len(obuf) - 1 /\ Head(obuf) = obuf[1]
        /\ \A i \in 1 .. Len(obuf) - 1 : obuf'[i] = obuf[i + 1]
    BY <1>1, <2>1
  <2>3. Rest(obuf', obuf, 1)
    BY <1>4, <2>2 DEF Rest
  <2>4. /\ written \subseteq written' /\ written' \subseteq written \cup {Head(obuf).e}
        /\ faults' = 0 => faults = 0 /\ Head(obuf).e \in written'
    BY <1>5, ToFileFacts
  <2>5. \A x \in Async!Held(obuf) : x = Head(obuf).e \/ x \in Async!Held(obuf')
    <3>1. ASSUME NEW x, NEW i \in DOMAIN obuf, x = obuf[i].e, i # 1
          PROVE  \E j \in DOMAIN obuf' : x = obuf'[j].e
      <4>1. i - 1 \in DOMAIN obuf' /\ obuf'[i - 1] = obuf[(i - 1) + 1] /\ (i - 1) + 1 = i
        BY <1>4, <2>2, <3>1
      <4>. QED BY <3>1, <4>1
    <3>. QED BY <1>2, <1>3, <2>2, <3>1
  <2>6. AnnouncedKept'
    BY <2>1, <2>4, <2>5 DEF PipeParts, AnnouncedKept
  <2>. QED BY <1>1, <2>1, <2>3, <2>4, <2>6, ReadKeeps
<1>6. CASE Async!Misread /\ ToFile(Async!Garbage(Head(obuf).e))
  <2>1. /\ apc = "drain" /\ obuf # <<>> /\ spoiled' = spoiled \cup Async!Held(obuf)
        /\ UNCHANGED <<apc, sending, closing, ibuf, evq, puts, announced, nomem>>
    BY <1>6 DEF Async!Misread
  <2>2. PICK k \in 2 .. Len(obuf) + 1 :
            obuf' = [i \in 1 .. Len(obuf) + 1 - k |-> [e |-> obuf[i + k - 1].e, whole |-> FALSE]]
    BY <1>6 DEF Async!Misread
  <2>3. PICK m \in 1 .. Len(obuf) : m = k - 1
    BY <1>4, <2>2
  <2>4. obuf' = [i \in 1 .. Len(obuf) - m |-> [e |-> obuf[i + m].e, whole |-> FALSE]]
    <3>1. Len(obuf) + 1 - k = Len(obuf) - m /\ \A i \in 1 .. Len(obuf) - m : i + k - 1 = i + m
      BY <1>4, <2>2, <2>3
    <3>. QED BY <2>2, <3>1
  <2>5. \A i \in 1 .. Len(obuf) - m : i + m \in DOMAIN obuf
    BY <1>4, <2>3
  <2>6. \A i \in DOMAIN obuf : obuf[i] \in Async!Frames /\ obuf[i].e \in 1 .. MaxEntry
    <3>1. \A f \in Async!Frames : f.e \in 1 .. MaxEntry
      BY DEF Async!Frames
    <3>. QED BY <1>1, <3>1
  <2>7. \A i \in 1 .. Len(obuf) - m : [e |-> obuf[i + m].e, whole |-> FALSE] \in Async!Frames
    BY <2>5, <2>6 DEF Async!Frames
  <2>8. obuf' \in Seq(Async!Frames) /\ Len(obuf') = Len(obuf) - m
    <3>1. Len(obuf) - m \in Nat
      BY <1>4, <2>3
    <3>2. obuf' \in [1 .. Len(obuf) - m -> Async!Frames]
      BY <2>4, <2>7
    <3>. QED BY <3>1, <3>2, FunIsSeq
  <2>9. Rest(obuf', obuf, m)
    BY <1>4, <2>3, <2>4, <2>8 DEF Rest
  <2>10. /\ written \subseteq written' /\ written' \subseteq written \cup {Async!Garbage(Head(obuf).e)}
         /\ faults' = 0 => faults = 0
    BY <1>6, ToFileFacts
  <2>11. AnnouncedKept'
    BY <2>1, <2>10 DEF PipeParts, AnnouncedKept
  <2>12. spoiled' \subseteq 1 .. MaxEntry
    <3>1. \A x \in Async!Held(obuf) : x \in 1 .. MaxEntry
      BY <1>2, <2>6
    <3>. QED BY <1>1, <2>1, <3>1
  <2>. QED BY <2>1, <2>9, <2>10, <2>11, <2>12, ReadKeeps
<1>. QED BY <1>5, <1>6

(* Steps of the files alone do not touch the buffers.                         *)
LEMMA FileStepKeeps ==
    ASSUME PipeParts, UNCHANGED async_vars, written' = written, faults' = 0 => faults = 0
    PROVE  PipeParts'
<1>1. UNCHANGED <<apc, sending, closing, ibuf, obuf, evq, puts, announced, spoiled, nomem>>
  BY DEF async_vars
<1>2. Async!TypeOK' /\ Async!InOrder'
  BY <1>1 DEF PipeParts, Async!TypeOK, Async!InOrder
<1>3. Async!ExitLast' /\ Async!EventOnItsWay'
  BY <1>1 DEF PipeParts, Async!ExitLast, Async!EventOnItsWay
<1>4. WrittenFirst' /\ AnnouncedKept'
  BY <1>1 DEF PipeParts, WrittenFirst, PutNo, AnnouncedKept
<1>. QED BY <1>2, <1>3, <1>4 DEF PipeParts

(* The numbers in the buffers and in the files.                               *)
LEMMA FrameFacts ==
    ASSUME PipeParts
    PROVE  /\ ibuf \in Seq(Async!Frames) /\ obuf \in Seq(Async!Frames)
           /\ \A i \in DOMAIN ibuf : ibuf[i].e \in Nat
           /\ \A i \in DOMAIN obuf : obuf[i].e \in Nat
           /\ \A d \in written : PutNo(d) \in 1 .. puts
           /\ puts \in Nat /\ MaxEntry \in Nat /\ sending \in Nat /\ nomem \in Nat
           /\ Async!Held(ibuf) \subseteq 1 .. MaxEntry /\ Async!Held(obuf) \subseteq 1 .. MaxEntry
<1>1. Async!TypeOK
  BY DEF PipeParts
<1>2. \A f \in Async!Frames : f.e \in Nat /\ f.e \in 1 .. MaxEntry
  BY LogPipeAssumption DEF Async!Frames
<1>3. \A i \in DOMAIN ibuf : ibuf[i] \in Async!Frames
  BY <1>1 DEF Async!TypeOK
<1>4. \A i \in DOMAIN obuf : obuf[i] \in Async!Frames
  BY <1>1 DEF Async!TypeOK
<1>5. ibuf \in Seq(Async!Frames) /\ obuf \in Seq(Async!Frames)
  BY <1>1 DEF Async!TypeOK
<1>6. puts \in Nat /\ MaxEntry \in Nat /\ sending \in Nat /\ nomem \in Nat
  BY <1>1, LogPipeAssumption DEF Async!TypeOK
<1>7. Async!Held(ibuf) \subseteq 1 .. MaxEntry /\ Async!Held(obuf) \subseteq 1 .. MaxEntry
  BY <1>2, <1>3, <1>4 DEF Async!Held
<1>8. \A d \in written : PutNo(d) \in 1 .. puts
  BY DEF PipeParts, WrittenFirst
<1>. QED BY <1>2, <1>3, <1>4, <1>5, <1>6, <1>7, <1>8

(* __lio_async_output() with the lock held: the entry is the newest.          *)
LEMMA PutKeeps ==
    ASSUME PipeParts, Async!Put, UNCHANGED <<written, faults>>
    PROVE  PipeParts'
<1>1. /\ Async!TypeOK /\ Async!InOrder /\ Async!ExitLast /\ Async!EventOnItsWay
      /\ WrittenFirst /\ AnnouncedKept
  BY DEF PipeParts
<1> DEFINE p == puts + 1
<1>2. /\ apc # "off" /\ ~closing /\ sending < Threads /\ puts < MaxEntry
      /\ puts' = p /\ sending' = sending + 1
      /\ UNCHANGED <<apc, closing, obuf, evq, announced>>
  BY DEF Async!Put
<1>3. /\ ibuf \in Seq(Async!Frames) /\ obuf \in Seq(Async!Frames)
      /\ \A i \in DOMAIN ibuf : ibuf[i].e \in Nat
      /\ \A i \in DOMAIN obuf : obuf[i].e \in Nat
      /\ puts \in Nat /\ MaxEntry \in Nat /\ sending \in Nat /\ nomem \in Nat
  BY FrameFacts
<1>4. p \in 1 .. MaxEntry /\ p \in Nat /\ puts < p
  BY <1>2, <1>3
<1>5. \/ /\ ibuf' = Append(ibuf, [e |-> p, whole |-> TRUE])
         /\ UNCHANGED <<spoiled, nomem>>
      \/ /\ nomem' \in 0 .. MaxNoMem
         /\ \/ ibuf' = Append(ibuf, [e |-> p, whole |-> FALSE]) \/ ibuf' = ibuf
         /\ spoiled' = spoiled \cup {p}
  BY <1>3, LogPipeAssumption DEF Async!Put, Async!Frame, Async!NoMem
<1>6. \/ UNCHANGED ibuf
      \/ \E w \in BOOLEAN : ibuf' = Append(ibuf, [e |-> p, whole |-> w])
  BY <1>5
<1>7. /\ ibuf' \in Seq(Async!Frames)
      /\ \/ UNCHANGED ibuf
         \/ /\ DOMAIN ibuf = 1 .. Len(ibuf) /\ Len(ibuf) \in Nat /\ DOMAIN ibuf' = 1 .. Len(ibuf) + 1
            /\ \A i \in 1 .. Len(ibuf) : ibuf'[i].e = ibuf[i].e
            /\ ibuf'[Len(ibuf) + 1].e = p
            /\ Async!Held(ibuf') = Async!Held(ibuf) \cup {p}
  <2>1. ASSUME NEW w \in BOOLEAN, ibuf' = Append(ibuf, [e |-> p, whole |-> w])
        PROVE  /\ ibuf' \in Seq(Async!Frames)
               /\ DOMAIN ibuf = 1 .. Len(ibuf) /\ Len(ibuf) \in Nat /\ DOMAIN ibuf' = 1 .. Len(ibuf) + 1
               /\ \A i \in 1 .. Len(ibuf) : ibuf'[i].e = ibuf[i].e
               /\ ibuf'[Len(ibuf) + 1].e = p
               /\ Async!Held(ibuf') = Async!Held(ibuf) \cup {p}
    <3> DEFINE f == [e |-> p, whole |-> w]
    <3>1. f \in Async!Frames /\ f.e = p
      BY <1>4 DEF Async!Frames
    <3>. HIDE DEF f
    <3>. QED BY <1>3, <2>1, <3>1, HeldAppend DEF f
  <2>. QED BY <1>3, <1>6, <2>1
<1>. HIDE DEF p
<1>8. Async!TypeOK'
  <2>1. puts' \in 0 .. MaxEntry /\ sending' \in 0 .. Threads
    BY <1>2, <1>3, <1>4, LogPipeAssumption
  <2>2. announced' \subseteq 1 .. puts'
    <3>1. \A x \in 1 .. puts : x \in 1 .. p
      BY <1>3, <1>4
    <3>. QED BY <1>1, <1>2, <3>1 DEF Async!TypeOK
  <2>3. nomem' \in 0 .. MaxNoMem /\ spoiled' \subseteq 1 .. MaxEntry
    BY <1>1, <1>4, <1>5 DEF Async!TypeOK
  <2>. QED BY <1>1, <1>2, <1>7, <2>2, <2>1, <2>3 DEF Async!TypeOK
<1>9. \A j \in DOMAIN ibuf' : \/ j \in DOMAIN ibuf /\ ibuf'[j].e = ibuf[j].e
                              \/ ibuf'[j].e = p /\ \A i \in DOMAIN ibuf' : i < j => i \in DOMAIN ibuf /\ ibuf'[i].e = ibuf[i].e
  BY <1>7
<1>10. Async!InOrder'
  <2>1. \A i \in DOMAIN ibuf : ibuf[i].e < p
    BY <1>1, <1>3, <1>4 DEF Async!InOrder
  <2>2. \A i \in DOMAIN obuf : obuf[i].e < p
    BY <1>1, <1>3, <1>4 DEF Async!InOrder
  <2>3. \A i, j \in DOMAIN ibuf' : i < j => ibuf'[i].e < ibuf'[j].e
    <3>1. SUFFICES ASSUME NEW i \in DOMAIN ibuf', NEW j \in DOMAIN ibuf', i < j
                   PROVE  ibuf'[i].e < ibuf'[j].e
      OBVIOUS
    <3>2. CASE UNCHANGED ibuf
      BY <1>1, <3>1, <3>2 DEF Async!InOrder
    <3>3. CASE /\ DOMAIN ibuf = 1 .. Len(ibuf) /\ Len(ibuf) \in Nat /\ DOMAIN ibuf' = 1 .. Len(ibuf) + 1
               /\ \A q \in 1 .. Len(ibuf) : ibuf'[q].e = ibuf[q].e
               /\ ibuf'[Len(ibuf) + 1].e = p
      <4>1. i \in DOMAIN ibuf /\ ibuf'[i].e = ibuf[i].e
        BY <3>1, <3>3
      <4>2. CASE j \in DOMAIN ibuf
        BY <1>1, <3>1, <3>3, <4>1, <4>2 DEF Async!InOrder
      <4>3. CASE j \notin DOMAIN ibuf
        <5>1. j = Len(ibuf) + 1
          BY <3>3, <4>3
        <5>. QED BY <2>1, <3>3, <4>1, <5>1
      <4>. QED BY <4>2, <4>3
    <3>. QED BY <1>7, <3>2, <3>3
  <2>4. \A i \in DOMAIN obuf, j \in DOMAIN ibuf' : obuf[i].e < ibuf'[j].e
    BY <1>1, <1>9, <2>2 DEF Async!InOrder
  <2>5. /\ \A i \in DOMAIN obuf : obuf[i].e <= p
        /\ \A i \in DOMAIN ibuf' : ibuf'[i].e <= p
    BY <1>3, <1>4, <1>9, <2>1, <2>2
  <2>. QED BY <1>1, <1>2, <2>3, <2>4, <2>5 DEF Async!InOrder
<1>11. Async!ExitLast'
  BY <1>1, <1>2 DEF Async!ExitLast
<1>12. Async!EventOnItsWay'
  <2>1. p \notin announced
    BY <1>1, <1>3, <1>4 DEF Async!TypeOK
  <2>2. Async!Held(ibuf') \cap announced = Async!Held(ibuf) \cap announced
    BY <1>7, <2>1
  <2>. QED BY <1>1, <1>2, <2>2 DEF Async!EventOnItsWay
<1>13. WrittenFirst'
  <2>1. ASSUME NEW d \in written PROVE PutNo(d) \in 1 .. p /\ PutNo(d) < p
    <3>1. PutNo(d) \in 1 .. puts
      BY <1>1 DEF WrittenFirst
    <3>. QED BY <1>3, <1>4, <3>1
  <2>2. ASSUME NEW d \in written, NEW j \in DOMAIN ibuf' PROVE PutNo(d) < ibuf'[j].e
    BY <1>1, <1>9, <2>1 DEF WrittenFirst
  <2>3. \A d : PutNo(d)' = PutNo(d)
    BY DEF PutNo
  <2>. QED BY <1>1, <1>2, <2>1, <2>2, <2>3 DEF WrittenFirst, PutNo
<1>14. AnnouncedKept'
  BY <1>1, <1>2, <1>5, <1>7 DEF AnnouncedKept
<1>. QED BY <1>8, <1>10, <1>11, <1>12, <1>13, <1>14 DEF PipeParts

(* The rest of it, and the exit event of __lio_async_destroy().               *)
LEMMA EventsKeep ==
    ASSUME PipeParts, UNCHANGED <<written, faults>>, Async!Post \/ Async!__lio_async_destroy
    PROVE  PipeParts'
<1>1. /\ Async!TypeOK /\ Async!InOrder /\ Async!ExitLast /\ Async!EventOnItsWay
      /\ WrittenFirst /\ AnnouncedKept
  BY DEF PipeParts
<1>2. /\ evq \in Seq({"data", "exit"}) /\ puts \in Nat /\ sending \in Nat /\ nomem \in Nat
      /\ Threads \in Nat /\ MaxNoMem \in Nat /\ sending <= Threads
  BY <1>1, LogPipeAssumption DEF Async!TypeOK
<1>3. UNCHANGED <<apc, ibuf, obuf, puts, spoiled>>
  BY DEF Async!Post, Async!__lio_async_destroy
<1>4. Async!InOrder' /\ WrittenFirst'
  BY <1>1, <1>3 DEF Async!InOrder, WrittenFirst, PutNo
<1>5. ASSUME NEW ev \in {"data", "exit"}, evq' = Append(evq, ev)
      PROVE  /\ evq' \in Seq({"data", "exit"}) /\ Len(evq) \in Nat /\ DOMAIN evq = 1 .. Len(evq)
             /\ Len(evq') = Len(evq) + 1 /\ DOMAIN evq' = 1 .. Len(evq) + 1
             /\ \A i \in 1 .. Len(evq) : evq'[i] = evq[i]
             /\ evq'[Len(evq) + 1] = ev
  BY <1>2, <1>5
<1>6. CASE Async!Post
  <2>1. /\ sending > 0 /\ sending' = sending - 1 /\ closing' = closing
        /\ \/ evq' = Append(evq, "data") /\ announced' = announced \cup Async!Held(ibuf) /\ nomem' = nomem
           \/ nomem' \in 0 .. MaxNoMem /\ UNCHANGED <<evq, announced>>
    BY <1>2, <1>6 DEF Async!Post, Async!NoMem
  <2>2. \A i \in DOMAIN evq : evq[i] # "exit"
    BY <1>1, <1>2, <2>1 DEF Async!ExitLast
  <2>3. announced' \subseteq 1 .. puts
    <3>1. \A x \in Async!Held(ibuf) : \E i \in DOMAIN ibuf : x = ibuf[i].e
      BY DEF Async!Held
    <3>2. Async!Held(ibuf) \subseteq 1 .. MaxEntry
      BY FrameFacts
    <3>3. \A x \in Async!Held(ibuf) : x \in Nat /\ 1 <= x /\ x <= puts
      BY <1>1, <3>1, <3>2, LogPipeAssumption DEF Async!InOrder
    <3>4. Async!Held(ibuf) \subseteq 1 .. puts
      BY <1>2, <3>3
    <3>5. announced \subseteq 1 .. puts
      BY <1>1 DEF Async!TypeOK
    <3>. QED BY <2>1, <3>4, <3>5
  <2>4. Async!TypeOK'
    <3>1. evq' \in Seq({"data", "exit"})
      BY <1>2, <1>5, <2>1
    <3>2. sending' \in 0 .. Threads
      BY <1>2, <2>1
    <3>3. nomem' \in 0 .. MaxNoMem
      BY <1>1, <2>1 DEF Async!TypeOK
    <3>. QED BY <1>1, <1>3, <2>1, <2>3, <3>1, <3>2, <3>3 DEF Async!TypeOK
  <2>5. Async!ExitLast'
    <3>1. \A i \in DOMAIN evq' : evq'[i] # "exit"
      <4>1. CASE evq' = evq
        BY <2>2, <4>1
      <4>2. CASE evq' = Append(evq, "data")
        BY <1>5, <2>2, <4>2
      <4>. QED BY <2>1, <4>1, <4>2
    <3>. QED BY <3>1 DEF Async!ExitLast
  <2>6. Async!EventOnItsWay'
    <3>1. CASE evq' = Append(evq, "data")
      <4>1. Len(evq) + 1 \in DOMAIN evq' /\ evq'[Len(evq) + 1] = "data"
        BY <1>5, <3>1
      <4>. QED BY <4>1 DEF Async!EventOnItsWay
    <3>2. CASE UNCHANGED <<evq, announced>>
      BY <1>1, <1>3, <3>2 DEF Async!EventOnItsWay
    <3>. QED BY <2>1, <3>1, <3>2
  <2>7. AnnouncedKept'
    BY <1>1, <1>3, <2>1 DEF AnnouncedKept
  <2>. QED BY <1>4, <2>4, <2>5, <2>6, <2>7 DEF PipeParts
<1>7. CASE Async!__lio_async_destroy
  <2>1. /\ ~closing /\ closing' = TRUE /\ sending = 0 /\ evq' = Append(evq, "exit")
        /\ UNCHANGED <<sending, announced, nomem>>
    BY <1>7 DEF Async!__lio_async_destroy
  <2>2. Async!TypeOK'
    BY <1>1, <1>3, <1>5, <2>1 DEF Async!TypeOK
  <2>3. \A i \in DOMAIN evq : evq[i] # "exit"
    BY <1>1, <2>1 DEF Async!ExitLast
  <2>4. Async!ExitLast'
    <3>1. ASSUME NEW i \in DOMAIN evq', evq'[i] = "exit" PROVE i = Len(evq')
      BY <1>5, <2>1, <2>3, <3>1
    <3>. QED BY <2>1, <3>1 DEF Async!ExitLast
  <2>5. Async!EventOnItsWay'
    <3>1. ASSUME NEW i \in DOMAIN evq, evq[i] = "data" PROVE i \in DOMAIN evq' /\ evq'[i] = "data"
      BY <1>5, <2>1, <3>1
    <3>. QED BY <1>1, <1>3, <2>1, <3>1 DEF Async!EventOnItsWay
  <2>6. AnnouncedKept'
    BY <1>1, <1>3, <2>1 DEF AnnouncedKept
  <2>. QED BY <1>4, <2>2, <2>4, <2>5, <2>6 DEF PipeParts
<1>. QED BY <1>6, <1>7

(* An empty buffer holds nothing.                                             *)
LEMMA EmptyFacts ==
    /\ <<>> \in Seq(Async!Frames) /\ <<>> \in Seq({"data", "exit"})
    /\ DOMAIN <<>> = {} /\ Async!Held(<<>>) = {}
<1>1. <<>> \in Seq(Async!Frames)
  OBVIOUS
<1>2. <<>> \in Seq({"data", "exit"})
  OBVIOUS
<1>3. DOMAIN <<>> = {}
  OBVIOUS
<1>4. Async!Held(<<>>) = {}
  BY <1>3 DEF Async!Held
<1>. QED BY <1>1, <1>2, <1>3, <1>4

(* The io fiber exchanges the buffers, gives up a buffer, finishes or ends.   *)
LEMMA FiberKeeps ==
    ASSUME PipeParts, UNCHANGED <<written, faults>>,
           \/ Async!tt_logio_async_create \/ Async!Swap \/ Async!Inconsistent
           \/ Async!DrainDone \/ Async!ExitRecv
    PROVE  PipeParts'
<1>1. /\ Async!TypeOK /\ Async!InOrder /\ Async!ExitLast /\ Async!EventOnItsWay
      /\ WrittenFirst /\ AnnouncedKept
  BY DEF PipeParts
<1>2. CASE Async!tt_logio_async_create
  <2>1. /\ apc = "off" /\ apc' = "recv" /\ ibuf' = <<>> /\ obuf' = <<>> /\ evq' = <<>> /\ closing' = FALSE
        /\ UNCHANGED <<sending, puts, announced, spoiled, nomem>>
    BY <1>2 DEF Async!tt_logio_async_create
  <2>2. ibuf = <<>> /\ obuf = <<>>
    BY <1>1, <2>1 DEF Async!InOrder
  <2>3. Async!TypeOK' /\ Async!InOrder'
    BY <1>1, <2>1, EmptyFacts DEF Async!TypeOK, Async!InOrder
  <2>4. Async!ExitLast' /\ Async!EventOnItsWay'
    BY <2>1, EmptyFacts DEF Async!ExitLast, Async!EventOnItsWay
  <2>5. WrittenFirst' /\ AnnouncedKept'
    BY <1>1, <2>1, <2>2, EmptyFacts DEF WrittenFirst, PutNo, AnnouncedKept
  <2>. QED BY <2>3, <2>4, <2>5 DEF PipeParts
<1>3. CASE Async!Swap
  <2>1. /\ apc = "recv" /\ evq # <<>> /\ Head(evq) # "exit" /\ evq' = Tail(evq) /\ apc' = "drain"
        /\ obuf' = ibuf /\ ibuf' = obuf
        /\ UNCHANGED <<sending, closing, puts, announced, spoiled, nomem>>
    BY <1>3 DEF Async!Swap, Async!ExitFirst
  <2>2. obuf = <<>>
    BY <1>1, <2>1 DEF Async!InOrder
  <2>3. evq \in Seq({"data", "exit"})
    BY <1>1 DEF Async!TypeOK
  <2>4. /\ evq' \in Seq({"data", "exit"}) /\ Len(evq) \in Nat /\ Len(evq') = Len(evq) - 1
        /\ DOMAIN evq' = 1 .. Len(evq) - 1 /\ DOMAIN evq = 1 .. Len(evq)
        /\ \A i \in 1 .. Len(evq) - 1 : evq'[i] = evq[i + 1]
    BY <2>1, <2>3
  <2>5. Async!TypeOK'
    BY <1>1, <2>1, <2>4 DEF Async!TypeOK
  <2>6. Async!InOrder'
    BY <1>1, <2>1, <2>2, EmptyFacts DEF Async!InOrder
  <2>7. Async!ExitLast'
    <3>1. ASSUME NEW i \in DOMAIN evq', evq'[i] = "exit"
          PROVE  i = Len(evq') /\ closing /\ sending = 0
      <4>1. i + 1 \in DOMAIN evq /\ evq[i + 1] = "exit"
        BY <2>4, <3>1
      <4>2. i + 1 = Len(evq) /\ closing /\ sending = 0
        BY <1>1, <4>1 DEF Async!ExitLast
      <4>. QED BY <2>4, <3>1, <4>2
    <3>. QED BY <2>1, <3>1 DEF Async!ExitLast
  <2>8. Async!EventOnItsWay'
    BY <2>1, <2>2, EmptyFacts DEF Async!EventOnItsWay
  <2>9. WrittenFirst' /\ AnnouncedKept'
    BY <1>1, <2>1 DEF WrittenFirst, PutNo, AnnouncedKept
  <2>. QED BY <2>5, <2>6, <2>7, <2>8, <2>9 DEF PipeParts
<1>4. CASE Async!Inconsistent
  <2>1. /\ apc = "drain" /\ spoiled' = spoiled \cup Async!Held(obuf) /\ obuf' = <<>>
        /\ UNCHANGED <<apc, sending, closing, ibuf, evq, puts, announced, nomem>>
    BY <1>4 DEF Async!Inconsistent
  <2>2. Async!TypeOK'
    BY <1>1, <2>1, EmptyFacts, FrameFacts DEF Async!TypeOK
  <2>3. Async!InOrder'
    BY <1>1, <2>1, EmptyFacts DEF Async!InOrder
  <2>4. Async!ExitLast' /\ Async!EventOnItsWay'
    BY <1>1, <2>1 DEF Async!ExitLast, Async!EventOnItsWay
  <2>5. WrittenFirst' /\ AnnouncedKept'
    BY <1>1, <2>1, EmptyFacts DEF WrittenFirst, PutNo, AnnouncedKept
  <2>. QED BY <2>2, <2>3, <2>4, <2>5 DEF PipeParts
<1>5. CASE Async!DrainDone
  <2>1. /\ apc = "drain" /\ obuf = <<>> /\ apc' = "recv"
        /\ UNCHANGED <<sending, closing, ibuf, obuf, evq, puts, announced, spoiled, nomem>>
    BY <1>5 DEF Async!DrainDone
  <2>2. Async!TypeOK' /\ Async!InOrder'
    BY <1>1, <2>1 DEF Async!TypeOK, Async!InOrder
  <2>3. Async!ExitLast' /\ Async!EventOnItsWay'
    BY <1>1, <2>1 DEF Async!ExitLast, Async!EventOnItsWay
  <2>4. WrittenFirst' /\ AnnouncedKept'
    BY <1>1, <2>1 DEF WrittenFirst, PutNo, AnnouncedKept
  <2>. QED BY <2>2, <2>3, <2>4 DEF PipeParts
<1>6. CASE Async!ExitRecv
  <2>1. /\ apc = "recv" /\ evq # <<>> /\ Head(evq) = "exit" /\ apc' = "off"
        /\ ibuf' = <<>> /\ evq' = <<>> /\ closing' = FALSE
        /\ UNCHANGED <<sending, obuf, puts, announced, spoiled, nomem>>
    BY <1>6 DEF Async!ExitRecv, Async!ExitFirst
  <2>2. evq \in Seq({"data", "exit"}) /\ obuf = <<>>
    BY <1>1, <2>1 DEF Async!TypeOK, Async!InOrder
  <2>3. 1 \in DOMAIN evq /\ evq[1] = "exit" /\ DOMAIN evq = 1 .. Len(evq)
    BY <2>1, <2>2
  <2>4. Len(evq) = 1
    BY <1>1, <2>3 DEF Async!ExitLast
  <2>5. Async!Held(ibuf) \cap announced = {}
    <3>1. ~\E i \in DOMAIN evq : evq[i] = "data"
      BY <2>3, <2>4
    <3>. QED BY <1>1, <3>1 DEF Async!EventOnItsWay
  <2>6. Async!TypeOK' /\ Async!InOrder'
    BY <1>1, <2>1, <2>2, EmptyFacts DEF Async!TypeOK, Async!InOrder
  <2>7. Async!ExitLast' /\ Async!EventOnItsWay'
    BY <2>1, EmptyFacts DEF Async!ExitLast, Async!EventOnItsWay
  <2>8. WrittenFirst'
    BY <1>1, <2>1, <2>2, EmptyFacts DEF WrittenFirst, PutNo
  <2>9. AnnouncedKept'
    BY <1>1, <2>1, <2>5, EmptyFacts DEF AnnouncedKept
  <2>. QED BY <2>6, <2>7, <2>8, <2>9 DEF PipeParts
<1>. QED BY <1>2, <1>3, <1>4, <1>5, <1>6

(* A crash empties the buffers.                                               *)
LEMMA CrashKeeps ==
    ASSUME TypeOK, PipeParts, Crash, Async!Crash
    PROVE  PipeParts'
<1>1. Async!TypeOK /\ WrittenFirst
  BY DEF PipeParts
<1>2. faults' # 0 /\ written' = written
  BY LogFileAssumption DEF TypeOK, Crash, Fault, ghost_vars
<1>3. /\ apc' = "off" /\ sending' = 0 /\ closing' = FALSE
      /\ ibuf' = <<>> /\ obuf' = <<>> /\ evq' = <<>>
      /\ announced' \subseteq announced
      /\ UNCHANGED <<puts, spoiled, nomem>>
  BY DEF Async!Crash
<1>4. Async!TypeOK'
  <2>1. 0 \in 0 .. Threads
    BY LogPipeAssumption
  <2>2. announced' \subseteq 1 .. puts'
    BY <1>1, <1>3 DEF Async!TypeOK
  <2>. QED BY <1>1, <1>3, <2>1, <2>2, EmptyFacts DEF Async!TypeOK
<1>5. Async!InOrder' /\ Async!ExitLast' /\ Async!EventOnItsWay'
  BY <1>3, EmptyFacts DEF Async!InOrder, Async!ExitLast, Async!EventOnItsWay
<1>6. WrittenFirst' /\ AnnouncedKept'
  BY <1>1, <1>2, <1>3, EmptyFacts DEF WrittenFirst, PutNo, AnnouncedKept
<1>. QED BY <1>4, <1>5, <1>6 DEF PipeParts

(* The worker, the purge and time write no entry.                             *)
LEMMA AsideFacts ==
    ASSUME TypeOK, Worker \/ __liof_w_purge_remove \/ TimePasses
    PROVE  written' = written /\ (faults' = 0 => faults = 0)
<1>1. faults \in Nat
  BY LogFileAssumption DEF TypeOK
<1>. USE <1>1 DEF Fault, NoFault, disk_vars, worker_vars, ghost_vars
<1>2. CASE TimePasses \/ __liof_w_purge_remove
  BY <1>2 DEF TimePasses, __liof_w_purge_remove
<1>3. CASE ArchiveBegin \/ ScanDone \/ SweepDone \/ \E n \in Name : ScanSkip(n) \/ Sweep(n)
  BY <1>3 DEF ArchiveBegin, ScanDone, SweepDone, ScanSkip, Sweep
<1>4. CASE CloseZip \/ RenameZip
  BY <1>4 DEF CloseZip, RenameZip
<1>5. CASE \E i \in Index : ScanLeft(i) \/ ScanLog(i)
  BY <1>5 DEF ScanLeft, ScanLog
<1>. QED BY <1>2, <1>3, <1>4, <1>5 DEF Worker

(* Only the io fiber that hands on an entry writes.                           *)
LEMMA OthersWriteNothing ==
    ASSUME TypeOK, PipeNext
    PROVE  \/ Async!Deliver /\ ToFile(Head(obuf).e)
           \/ Async!Misread /\ ToFile(Async!Garbage(Head(obuf).e))
           \/ written' = written
<1>. USE DEF ghost_vars
<1>1. CASE Create
  BY <1>1 DEF Create, tt_logio_file_create, vars
<1>2. CASE Destroy
  BY <1>2 DEF Destroy, __lio_fidx_destroy, vars
<1>3. CASE Loggers \/ Posts \/ (Async!IoFiber /\ UNCHANGED vars)
  BY <1>3 DEF Loggers, Posts, vars
<1>4. CASE Hand
  BY <1>4 DEF Hand, Reopen
<1>5. CASE Aside
  BY <1>5, AsideFacts DEF Aside
<1>6. CASE PipeCrash
  BY <1>6 DEF PipeCrash, Crash
<1>. QED BY <1>1, <1>2, <1>3, <1>4, <1>5, <1>6 DEF PipeNext, IoFiber

\* The inductive invariant.
IInv == FilesInv /\ PipeParts

(* The invariant holds at first,                                              *)
LEMMA InitInv == PipeInit => IInv
<1>. SUFFICES ASSUME PipeInit PROVE IInv
  OBVIOUS
<1>1. /\ up = FALSE /\ cur = 0 /\ index = 1 /\ disk = [n \in Name |-> NoFile] /\ old = {}
      /\ wpc = "idle" /\ left = {} /\ zip = {} /\ flush = FALSE
      /\ arctmp = NoFile /\ archives = {} /\ written = {} /\ purged = {} /\ faults = 0
  BY DEF PipeInit, Init
<1>2. /\ apc = "off" /\ sending = 0 /\ closing = FALSE
      /\ ibuf = <<>> /\ obuf = <<>> /\ evq = <<>>
      /\ puts = 0 /\ announced = {} /\ spoiled = {} /\ nomem = 0
  BY DEF PipeInit, Async!Init
<1>3. \A n \in Name : disk[n] = NoFile /\ In(disk[n]) = {}
  BY <1>1, InFacts
<1>4. \A i \in Index : <<i, "log">> \in Name /\ <<i, "tmp">> \in Name
  BY DEF Name
<1>5. OnDisk = {} /\ Zipped = {} /\ Marked = {}
  BY <1>1, <1>3 DEF OnDisk, Zipped, Marked
<1>6. TypeOK
  <2>1. 0 \in 0 .. MaxIndex /\ 1 \in 1 .. MaxIndex + 1 /\ 0 \in 0 .. MaxFaults
    BY LogFileAssumption
  <2>. QED BY <1>1, <2>1 DEF TypeOK
<1>7. KeptWithoutFault /\ MarkedAreFinal /\ ArchivedOnce /\ RoundOf
  BY <1>1, <1>3, <1>4 DEF KeptWithoutFault, LogsKept, MarkedAreFinal, ArchivedOnce, RoundOf
<1>8. OnePlace
  BY <1>1, <1>3, <1>4, <1>5 DEF OnePlace
<1>9. MarkedThisRound
  BY <1>1, <1>5 DEF MarkedThisRound
<1>10. Async!TypeOK
  <2>1. 0 \in 0 .. Threads /\ 0 \in 0 .. MaxEntry /\ 0 \in 0 .. MaxNoMem
    BY LogPipeAssumption
  <2>. QED BY <1>2, <2>1, EmptyFacts DEF Async!TypeOK
<1>11. Async!InOrder /\ Async!ExitLast /\ Async!EventOnItsWay
  BY <1>2, EmptyFacts DEF Async!InOrder, Async!ExitLast, Async!EventOnItsWay
<1>12. WrittenFirst /\ AnnouncedKept
  BY <1>1, <1>2 DEF WrittenFirst, AnnouncedKept
<1>. QED BY <1>6, <1>7, <1>8, <1>9, <1>10, <1>11, <1>12 DEF IInv, FilesInv, PipeParts

(* ... every step keeps it,                                                   *)
LEMMA NextKeeps ==
    ASSUME IInv, [PipeNext]_log_vars
    PROVE  IInv'
<1>1. FilesInv /\ TypeOK /\ PipeParts
  BY DEF IInv, FilesInv
<1>2. FilesInv'
  BY <1>1, PipeStepsFiles, FilesKeep
<1>3. PipeParts'
  <2>1. ASSUME UNCHANGED vars PROVE UNCHANGED <<written, faults>>
    BY <2>1 DEF vars, ghost_vars
  <2>2. CASE Create
    <3>1. CASE tt_logio_file_create /\ UNCHANGED async_vars
      <4>1. written' = written /\ (faults' = 0 => faults = 0)
        BY <1>1, <3>1, LogFileAssumption
           DEF tt_logio_file_create, NextOpens, NextFails, Fault, NoFault, ghost_vars, TypeOK
      <4>. QED BY <1>1, <3>1, <4>1, FileStepKeeps
    <3>2. CASE Async!tt_logio_async_create /\ UNCHANGED vars
      BY <1>1, <2>1, <3>2, FiberKeeps
    <3>. QED BY <2>2, <3>1, <3>2 DEF Create
  <2>3. CASE Destroy
    <3>1. CASE __lio_fidx_destroy /\ UNCHANGED async_vars
      BY <1>1, <3>1, FileStepKeeps DEF __lio_fidx_destroy, ghost_vars
    <3>2. CASE Async!ExitRecv /\ UNCHANGED vars
      BY <1>1, <2>1, <3>2, FiberKeeps
    <3>. QED BY <2>3, <3>1, <3>2 DEF Destroy
  <2>4. CASE Loggers \/ Posts
    BY <1>1, <2>1, <2>4, PutKeeps, EventsKeep DEF Loggers, Posts
  <2>5. CASE Async!IoFiber /\ UNCHANGED vars
    BY <1>1, <2>1, <2>5, FiberKeeps DEF Async!IoFiber
  <2>6. CASE Hand
    <3>1. CASE Reopen /\ UNCHANGED async_vars
      <4>1. written' = written /\ (faults' = 0 => faults = 0)
        BY <1>1, <3>1, LogFileAssumption
           DEF Reopen, NextOpens, Fault, NoFault, ghost_vars, TypeOK
      <4>. QED BY <1>1, <3>1, <4>1, FileStepKeeps
    <3>2. CASE \/ Async!Deliver /\ ToFile(Head(obuf).e)
               \/ Async!Misread /\ ToFile(Async!Garbage(Head(obuf).e))
      BY <1>1, <3>2, HandKeeps
    <3>. QED BY <2>6, <3>1, <3>2 DEF Hand
  <2>7. CASE Aside
    <3>1. written' = written /\ (faults' = 0 => faults = 0)
      BY <1>1, <2>7, AsideFacts DEF Aside
    <3>. QED BY <1>1, <2>7, <3>1, FileStepKeeps DEF Aside
  <2>8. CASE PipeCrash
    BY <1>1, <2>8, CrashKeeps DEF PipeCrash
  <2>9. CASE UNCHANGED log_vars
    <3>1. UNCHANGED async_vars /\ UNCHANGED vars
      BY <2>9 DEF log_vars
    <3>. QED BY <1>1, <2>1, <3>1, FileStepKeeps
  <2>. QED BY <2>2, <2>3, <2>4, <2>5, <2>6, <2>7, <2>8, <2>9 DEF PipeNext, IoFiber
<1>. QED BY <1>2, <1>3 DEF IInv

(* ... so it holds in every behaviour.                                        *)
LEMMA PipeInductive == PipeSpec => []IInv
<1>1. PipeInit => IInv
  BY InitInv
<1>2. IInv /\ [PipeNext]_log_vars => IInv'
  BY NextKeeps
<1>. QED BY <1>1, <1>2, PTL DEF PipeSpec

(* For every instance, whatever fails and whenever the process dies: without  *)
(* a fault no entry that was written is lost, the worker (__liof_w_archive()) *)
(* takes complete files only and never the open one, and archives no entry    *)
(* twice.                                                                     *)
THEOREM FilesInvariant == PipeSpec => []FilesInv
<1>1. IInv => FilesInv
  BY DEF IInv
<1>. QED BY <1>1, PipeInductive, PTL

(* The way through the buffers (__lio_async_output(), __logio_async()): the   *)
(* buffers keep the order of the puts, an announced entry has an event behind *)
(* it, and when the asynchronous io has ended without a fault every announced *)
(* entry that was not spoiled is in a file or an archive.                     *)
THEOREM PipeInvariant == PipeSpec => []PipeInv
<1>1. IInv => PipeInv
  <2>. SUFFICES ASSUME IInv PROVE PipeInv
    OBVIOUS
  <2>1. FilesInv /\ PipeParts
    BY DEF IInv
  <2>2. ASSUME apc = "off", faults = 0
        PROVE  announced \ spoiled \subseteq OnDisk \cup Zipped \cup purged
    <3>1. ibuf = <<>> /\ obuf = <<>>
      BY <2>1, <2>2 DEF PipeParts, Async!InOrder
    <3>2. announced \subseteq written \cup spoiled
      BY <2>1, <2>2, <3>1, EmptyFacts DEF PipeParts, AnnouncedKept
    <3>3. written \subseteq OnDisk \cup Zipped \cup purged
      BY <2>1, <2>2 DEF FilesInv, KeptWithoutFault, LogsKept
    <3>. QED BY <3>2, <3>3
  <2>3. Durable
    BY <2>2 DEF Durable
  <2>. QED BY <2>1, <2>3 DEF PipeInv, PipeParts
<1>. QED BY <1>1, PipeInductive, PTL

(* tt_logio_output() of the file gets the entries in the order of the lock in *)
(* __lio_async_output(), whatever is lost or misread in between.              *)
THEOREM EntriesKeepTheirOrder == PipeSpec => HandedInOrder
<1>1. ASSUME IInv, [PipeNext]_log_vars
      PROVE  [\A e \in written' \ written, d \in written : PutNo(d) < PutNo(e)]_log_vars
  <2>1. TypeOK /\ PipeParts
    BY <1>1 DEF IInv, FilesInv
  <2>2. SUFFICES ASSUME PipeNext
                 PROVE  \A e \in written' \ written, d \in written : PutNo(d) < PutNo(e)
    BY <1>1
  <2>3. CASE \/ Async!Deliver /\ ToFile(Head(obuf).e)
             \/ Async!Misread /\ ToFile(Async!Garbage(Head(obuf).e))
    <3>1. obuf # <<>>
      BY <2>3 DEF Async!Deliver, Async!Misread
    <3>2. PICK x \in {Head(obuf).e, Async!Garbage(Head(obuf).e)} : ToFile(x)
      BY <2>3
    <3>3. written' \subseteq written \cup {x}
      BY <2>1, <3>2, ToFileFacts
    <3>. QED BY <2>1, <3>1, <3>2, <3>3, HeadFacts
  <2>4. CASE written' = written
    BY <2>4
  <2>. QED BY <2>2, <2>3, <2>4, OthersWriteNothing, <2>1
<1>. QED BY <1>1, PipeInductive, PTL DEF PipeSpec, HandedInOrder

\* Every entry of a log file is in a file of the next state.
LogsStay == \A i \in Index : In(disk[<<i, "log">>]) \subseteq UNION {In(disk'[n]) : n \in Name}

(* Renaming and removing never take an entry of an unmarked file from the disk. *)
LEMMA KeepLogs ==
    ASSUME FilesInv, FileNext
    PROVE  LogsStay
<1>1. TypeOK /\ MarkedAreFinal /\ RoundOf
  BY DEF FilesInv
<1>2. disk \in Disks /\ old \subseteq {n \in Name : disk[n] # NoFile}
  BY <1>1 DEF TypeOK, Disks
<1>3. \A i \in Index : <<i, "log">> \in Name /\ <<i, "tmp">> \in Name
  BY DEF Name
<1>4. ASSUME \A i \in Index : Log(i) \subseteq Log(i)' \/ Log(i) \subseteq Tmp(i)'
      PROVE  LogsStay
  BY <1>3, <1>4 DEF LogsStay, Log, Tmp
<1>5. ASSUME disk' = disk PROVE LogsStay
  BY <1>4, <1>5 DEF Log
<1>6. CASE NewFile(disk)
  <2>1. SameFiles(disk, disk')
    BY <1>1, <1>2, <1>6, NextFileFacts
  <2>. QED BY <1>3, <1>4, <2>1 DEF SameFiles, Log
<1>7. ASSUME NEW e \in Entry, Output(e) PROVE LogsStay
  <2>1. PICK c \in Index : c = cur
    BY <1>1, <1>7, LogFileAssumption DEF TypeOK, Output, Index
  <2> DEFINE n == <<c, "log">>
             d == [disk EXCEPT ![n] = Append(disk[n], e)]
  <2>2. n \in Name /\ disk[n] \in Seq(Entry)
    BY <1>1, <1>7, <2>1 DEF TypeOK, MarkedAreFinal, Output, Name
  <2>3. Append(disk[n], e) \in Seq(Entry) /\ In(Append(disk[n], e)) = In(disk[n]) \cup {e}
    BY <2>2, InAppend
  <2>4. /\ d \in Disks /\ d[n] = Append(disk[n], e) /\ d[n] # NoFile
        /\ \A k \in Name : k # n => d[k] = disk[k]
    BY <1>2, <2>2, <2>3, InFacts DEF Disks
  <2>5. old \subseteq {k \in Name : d[k] # NoFile}
    BY <1>2, <2>4
  <2>6. __fidx_next(d) \/ disk' = d
    BY <1>7, <2>1 DEF Output
  <2>7. SameFiles(d, disk')
    <3>1. CASE __fidx_next(d)
      BY <1>1, <2>4, <2>5, <3>1, NextIsNewFile, NextFileFacts
    <3>2. CASE disk' = d
      BY <3>2 DEF SameFiles
    <3>. QED BY <2>6, <3>1, <3>2
  <2>8. \A k \in Name : In(disk[k]) \subseteq In(disk'[k])
    BY <2>3, <2>4, <2>7 DEF SameFiles
  <2>. QED BY <1>3, <1>4, <2>8 DEF Log
<1>8. ASSUME NEW i \in Index, ScanLog(i) PROVE LogsStay
  <2> DEFINE n == <<i, "log">>
             t == <<i, "tmp">>
  <2>1. CASE disk' = disk
    BY <1>5, <2>1
  <2>2. CASE disk' = [disk EXCEPT ![t] = disk[n], ![n] = NoFile]
    <3>1. n # t /\ \A j \in Index : j # i => <<j, "log">> # n /\ <<j, "log">> # t
      OBVIOUS
    <3>2. disk'[t] = disk[n] /\ \A j \in Index : j # i => disk'[<<j, "log">>] = disk[<<j, "log">>]
      BY <1>2, <1>3, <2>2, <3>1 DEF Disks
    <3>. QED BY <1>4, <3>2 DEF Log, Tmp
  <2>. QED BY <1>8, <2>1, <2>2 DEF ScanLog, RenameFails
<1>9. ASSUME NEW n \in Name, Sweep(n) PROVE LogsStay
  <2>1. \A i \in Index : <<i, "log">> # n
    BY <1>1, <1>9 DEF Sweep, RoundOf
  <2>2. disk' = disk \/ disk' = [disk EXCEPT ![n] = NoFile]
    BY <1>9 DEF Sweep
  <2>3. \A i \in Index : disk'[<<i, "log">>] = disk[<<i, "log">>]
    BY <1>2, <1>3, <2>1, <2>2 DEF Disks
  <2>. QED BY <1>4, <2>3 DEF Log
<1>10. CASE OutputLost \/ TimePasses \/ __lio_fidx_destroy \/ Crash \/ __liof_w_purge_remove
  <2>1. __fidx_next(disk) => LogsStay
    BY <1>1, <1>6, NextIsNewFile
  <2>. QED BY <1>5, <1>10, <2>1
           DEF OutputLost, TimePasses, __lio_fidx_destroy, Crash, __liof_w_purge_remove, disk_vars
<1>11. CASE \/ ArchiveBegin \/ ScanDone \/ CloseZip \/ RenameZip \/ SweepDone
            \/ \E n \in Name : ScanSkip(n)
            \/ \E i \in Index : ScanLeft(i)
  BY <1>5, <1>11
     DEF ArchiveBegin, ScanDone, CloseZip, RenameZip, SweepDone, ScanSkip, ScanLeft, disk_vars
<1>. QED BY <1>6, <1>7, <1>8, <1>9, <1>10, <1>11 DEF FileNext, Worker

(* Whatever fails, no step takes an entry of an unmarked log file from the    *)
(* disk: only what __liof_w_archive() has marked before can be lost.          *)
THEOREM UnmarkedFilesStay == PipeSpec => UnmarkedStay
<1>1. ASSUME IInv, [PipeNext]_log_vars
      PROVE  [\A i \in Index : In(disk[<<i, "log">>]) \subseteq UNION {In(disk'[n]) : n \in Name}]_vars
  BY <1>1, PipeStepsFiles, KeepLogs DEF IInv, FilesInv, LogsStay
<1>. QED BY <1>1, PipeInductive, PTL DEF PipeSpec, UnmarkedStay
=============================================================================
