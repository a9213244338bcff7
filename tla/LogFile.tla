------------------------------- MODULE LogFile ------------------------------
(***************************************************************************)
(* Log files by index and the worker that archives them:                   *)
(* source/log/io/tt_log_io_file.c, on a disk that survives a crash.        *)
(*                                                                         *)
(* The writer appends to log.1, log.2, ... and goes to the next when one is *)
(* full.  The worker, a fiber of a task of its own, marks full and old      *)
(* files by renaming them to log.N.ttarctmp, puts them into a zip file      *)
(* archive.ttarctmp, renames that to its final name, and removes all marked *)
(* files.  Writer and worker share nothing but the directory.  (Suffixes by *)
(* date differ from those by index only in how the name is chosen.)         *)
(*                                                                         *)
(* External: the file system; a rename replaces its target, a directory     *)
(* may or may not show an entry that is made while it is read.  libzip:     *)
(* zip_close() writes all or nothing.  The process does not run in the log  *)
(* directory.                                                               *)
(***************************************************************************)
EXTENDS Naturals, Sequences, FiniteSets, FiniteSetsExt

CONSTANTS Entry,      \* what is logged, numbered in this order
          MaxSize,    \* max_log_size, in entries
          MaxIndex,   \* bound of the index of a file
          MaxFaults,  \* bound of the operations that fail and of the crashes
          NoFile

ASSUME LogFileAssumption ==
    /\ MaxSize \in Nat \ {0} /\ MaxIndex \in Nat \ {0}
    /\ MaxFaults \in Nat
    /\ Entry \subseteq Nat
    /\ NoFile \notin Seq(Entry) /\ \A S \in SUBSET Entry : NoFile # S

Index == 1 .. MaxIndex

\* log.i and log.i.ttarctmp
Name == Index \X {"log", "tmp"}

VARIABLES
    up,        \* the log io exists
    disk,      \* disk[n]: the content of file n, or NoFile
    old,       \* the files last written keep_log_sec ago or longer
    cur,       \* the index of the open file, 0 if !f_opened
    index,     \* u_suffix.fidx.index
    wpc,       \* where the worker is
    left,      \* the directory entries it has yet to read
    zip,       \* the files in the zip file under construction
    flush,     \* archived, later flush, of __liof_w_archive()
    arctmp,    \* the entries in archive.ttarctmp, or NoFile
    archives,  \* the archives, each as the set of its entries
    written,   \* the entries that were written to a file
    purged,    \* the entries in archives that were removed by age
    faults     \* how much has gone wrong

disk_vars == <<disk, old, arctmp, archives>>
worker_vars == <<wpc, left, zip, flush>>
ghost_vars == <<written, purged>>
vars == <<up, cur, index, faults, disk_vars, worker_vars, ghost_vars>>

\* The entries in a file that may not be there.
In(file) == IF file = NoFile THEN {} ELSE {file[i] : i \in DOMAIN file}

Zipped == (UNION archives) \cup (IF arctmp = NoFile THEN {} ELSE arctmp)

Full(file) == file # NoFile /\ Len(file) >= MaxSize

Fault == faults < MaxFaults /\ faults' = faults + 1

NoFault == faults' = faults

Init ==
    /\ up = FALSE /\ cur = 0 /\ index = 1
    /\ disk = [n \in Name |-> NoFile]
    /\ old = {}
    /\ wpc = "idle" /\ left = {} /\ zip = {} /\ flush = FALSE
    /\ arctmp = NoFile /\ archives = {}
    /\ written = {} /\ purged = {}
    /\ faults = 0

-----------------------------------------------------------------------------
(* The writer.                                                              *)

\* The file can take more: it is new or not full.
Usable(i, d) == ~Full(d[<<i, "log">>])

\* tt_fopen() with TT_FO_CREAT.
Created(i, d) ==
    IF i \in Index /\ d[<<i, "log">>] = NoFile THEN [d EXCEPT ![<<i, "log">>] = <<>>] ELSE d

\* The first file from the index on that is usable is opened.
NextOpens(d) ==
    LET Found == {i \in Index : i >= index /\ Usable(i, d)}
        i == Min(Found)
    IN  /\ Found # {}
        /\ cur' = i
        /\ index' = i + 1
        /\ disk' = Created(i, d)
        /\ old' = old \ {n \in Name : d[n] = NoFile}
        /\ NoFault

\* Something fails at file i, after the full ones before it and maybe after it was
\* created (tt_fseek()).
NextFails(d, i) ==
    /\ Fault
    /\ \A j \in index .. i - 1 : ~Usable(j, d)
    /\ cur' = 0
    /\ disk' \in {d, Created(i, d)}
    /\ old' = old \ {n \in Name : d[n] = NoFile}

__fidx_next(d) ==
    \/ NextOpens(d)
    \/ \E i \in index .. MaxIndex + 1 : NextFails(d, i) /\ index' = i

\* tt_logio_file_create(), also after a crash: it begins with log.1 again.
tt_logio_file_create ==
    /\ ~up
    /\ index = 1
    /\ \/ NextOpens(disk) /\ up' = TRUE
       \/ /\ \E i \in index .. MaxIndex + 1 : NextFails(disk, i)
          /\ up' = FALSE /\ index' = 1
    /\ UNCHANGED <<arctmp, archives, worker_vars, ghost_vars>>

\* __lio_fidx_output() with a file that is open: the entry is written, and the
\* next file opened when this one is full.
Output(e) ==
    LET n == <<cur, "log">>
        d == [disk EXCEPT ![n] = Append(@, e)]
    IN  /\ up
        /\ cur # 0
        /\ written' = written \cup {e}
        /\ IF Full(d[n])
           THEN __fidx_next(d)
           ELSE /\ disk' = d
                /\ old' = old \ {n}
                /\ UNCHANGED <<cur, index, faults>>
        /\ UNCHANGED <<up, arctmp, archives, worker_vars, purged>>

\* ... and when an earlier attempt to open the next file failed: it tries again
\* before it writes, ...
Reopen ==
    /\ up
    /\ cur = 0
    /\ NextOpens(disk)
    /\ UNCHANGED <<up, arctmp, archives, worker_vars, ghost_vars>>

\* ... and if that fails too, or the write itself, the entry is lost, with a warning.
\* (What a failing write leaves of it in the file is not looked at.)
OutputLost ==
    /\ up
    /\ \/ cur = 0 /\ __fidx_next(disk) /\ cur' = 0
       \/ cur # 0 /\ Fault /\ UNCHANGED <<cur, index, disk, old>>
    /\ UNCHANGED <<up, arctmp, archives, worker_vars, ghost_vars>>

-----------------------------------------------------------------------------
(* The worker.                                                              *)

\* The archive timer: __liof_w_archive() up to opening the directory.  A zip
\* file of that name must not exist (TT_ZA_EXCL).
ArchiveBegin ==
    /\ up
    /\ wpc = "idle"
    /\ arctmp = NoFile
    /\ wpc' = "scan"
    /\ left' = {n \in Name : disk[n] # NoFile}
    /\ UNCHANGED <<up, cur, index, faults, disk_vars, zip, flush, ghost_vars>>

\* Wrong variant: the size of the file does not matter.
Eligible_anySize(n) == disk[n] # NoFile /\ n \in old

\* A file that is full and old.
Eligible(n) == Full(disk[n]) /\ n \in old

ScanSkip(n) ==
    /\ wpc = "scan"
    /\ n \in left
    /\ ~Eligible(n)
    /\ left' = left \ {n}
    /\ UNCHANGED <<up, cur, index, faults, disk_vars, wpc, zip, flush, ghost_vars>>

\* The source of a file left by an earlier round is its bare name.
LeftSource(i) == <<i, "bare">>

\* tt_zip_add_file(): a name that is in the zip file already is refused.
Added(i, source) == IF \E s \in zip : s[1] = i THEN zip ELSE zip \cup {source}

\* A file left by an earlier round.
ScanLeft(i) ==
    /\ wpc = "scan"
    /\ <<i, "tmp">> \in left
    /\ Eligible(<<i, "tmp">>)
    /\ left' = left \ {<<i, "tmp">>}
    /\ \/ /\ zip' = Added(i, LeftSource(i))
          /\ flush' = TRUE
          /\ NoFault
       \/ /\ Fault    \* tt_zipsrc_file_create()
          /\ UNCHANGED <<zip, flush>>
    /\ UNCHANGED <<up, cur, index, disk_vars, wpc, ghost_vars>>

\* Wrong variant: a file that cannot be renamed is removed.
RenameFails_removes(n) == disk' = [disk EXCEPT ![n] = NoFile] /\ old' = old \ {n}

\* A file that cannot be renamed stays as it is, for the next round.
RenameFails(n) == UNCHANGED <<disk, old>>

\* A log file: marked, then added.  The mark may show up in the directory.
ScanLog(i) ==
    LET n == <<i, "log">>
        t == <<i, "tmp">>
    IN  /\ wpc = "scan"
        /\ n \in left
        /\ Eligible(n)
        /\ \/ /\ Fault    \* tt_fs_rename()
              /\ RenameFails(n)
              /\ left' = left \ {n}
              /\ UNCHANGED <<zip, flush>>
           \/ /\ disk' = [disk EXCEPT ![t] = disk[n], ![n] = NoFile]
              /\ old' = (old \ {n}) \cup {t}
              /\ left' \in {left \ {n}, (left \ {n}) \cup {t}}
              /\ \/ /\ zip' = Added(i, <<i, "path">>)
                    /\ flush' = TRUE
                    /\ NoFault
                 \/ /\ Fault    \* tt_zipsrc_file_create()
                    /\ UNCHANGED <<zip, flush>>
        /\ UNCHANGED <<up, cur, index, arctmp, archives, wpc, ghost_vars>>

\* The end of the directory: the zip file is written if there is anything in it
\* and its final name can be made.
ScanDone ==
    /\ wpc = "scan"
    /\ left = {}
    /\ \/ /\ flush
          /\ wpc' = "close"
          /\ NoFault
          /\ UNCHANGED zip
       \/ /\ flush => Fault
          /\ ~flush => NoFault
          /\ wpc' = "idle"
          /\ zip' = {}
    /\ flush' = FALSE
    /\ UNCHANGED <<up, cur, index, disk_vars, left, ghost_vars>>

\* tt_zip_destroy(): zip_close() reads the files; one it cannot read makes it
\* fail as a whole, which only leaves a message.
CloseZip ==
    /\ wpc = "close"
    /\ \/ /\ \A s \in zip : s[2] = "path"
          /\ arctmp' = UNION {In(disk[<<s[1], "tmp">>]) : s \in zip}
          /\ NoFault
       \/ /\ IF \A s \in zip : s[2] = "path" THEN Fault ELSE NoFault
          /\ UNCHANGED arctmp
    /\ zip' = {}
    /\ wpc' = "rename"
    /\ UNCHANGED <<up, cur, index, disk, old, archives, left, flush, ghost_vars>>

\* The files the last loop removes.
Marked == {n \in Name : n[2] = "tmp" /\ disk[n] # NoFile}

\* tt_fs_rename() of the zip file, if there is one.
ArchivesWith(file) == IF file = NoFile THEN archives ELSE archives \cup {file}

\* The zip file gets its final name, whether there is one or not, and the
\* directory is read once more, if it can be opened.
RenameZip ==
    /\ wpc = "rename"
    /\ \/ /\ archives' = ArchivesWith(arctmp)
          /\ arctmp' = NoFile
          /\ NoFault
          /\ wpc' = "sweep" /\ left' = Marked
       \/ /\ Fault    \* tt_fs_rename()
          /\ UNCHANGED <<archives, arctmp>>
          /\ wpc' = "sweep" /\ left' = Marked
       \/ /\ archives' = ArchivesWith(arctmp)
          /\ arctmp' = NoFile
          /\ Fault    \* tt_dopen()
          /\ wpc' = "idle" /\ left' = {}
    /\ UNCHANGED <<up, cur, index, disk, old, zip, flush, ghost_vars>>

Sweep(n) ==
    /\ wpc = "sweep"
    /\ n \in left
    /\ left' = left \ {n}
    /\ \/ /\ disk' = [disk EXCEPT ![n] = NoFile]
          /\ old' = old \ {n}
          /\ NoFault
       \/ /\ Fault    \* tt_fremove()
          /\ UNCHANGED <<disk, old>>
    /\ UNCHANGED <<up, cur, index, arctmp, archives, wpc, zip, flush, ghost_vars>>

SweepDone ==
    /\ wpc = "sweep"
    /\ left = {}
    /\ wpc' = "idle"
    /\ UNCHANGED <<up, cur, index, faults, disk_vars, left, zip, flush, ghost_vars>>

\* The purge timer: __liof_w_purge_remove() removes what is old enough and whose
\* name begins with the name of archives, a zip file without its final name too.
__liof_w_purge_remove ==
    /\ up
    /\ wpc = "idle"
    /\ Zipped # {}
    /\ purged' = purged \cup Zipped
    /\ archives' = {}
    /\ arctmp' = NoFile
    /\ UNCHANGED <<up, cur, index, faults, disk, old, worker_vars, written>>

-----------------------------------------------------------------------------
(* The environment.                                                         *)

\* Longer than keep_log_sec passes and nothing is written.
TimePasses ==
    /\ old # {n \in Name : disk[n] # NoFile}
    /\ old' = {n \in Name : disk[n] # NoFile}
    /\ UNCHANGED <<up, cur, index, faults, disk, arctmp, archives, worker_vars, ghost_vars>>

\* __lio_fidx_destroy(): the file is closed, and the worker, which sees the exit
\* event when it is idle, ends.
__lio_fidx_destroy ==
    /\ up
    /\ wpc = "idle"
    /\ up' = FALSE /\ cur' = 0 /\ index' = 1
    /\ UNCHANGED <<faults, disk_vars, worker_vars, ghost_vars>>

\* The process dies; the disk stays.
Crash ==
    /\ up
    /\ Fault
    /\ up' = FALSE /\ cur' = 0 /\ index' = 1
    /\ wpc' = "idle" /\ left' = {} /\ zip' = {} /\ flush' = FALSE
    /\ UNCHANGED <<disk_vars, ghost_vars>>

Worker ==
    \/ ArchiveBegin
    \/ \E n \in Name : ScanSkip(n) \/ Sweep(n)
    \/ \E i \in Index : ScanLeft(i) \/ ScanLog(i)
    \/ ScanDone \/ CloseZip \/ RenameZip \/ SweepDone

-----------------------------------------------------------------------------

(* The types of the variables. *)
TypeOK ==
    /\ up \in BOOLEAN /\ flush \in BOOLEAN
    /\ cur \in 0 .. MaxIndex /\ index \in 1 .. MaxIndex + 1
    /\ disk \in [Name -> Seq(Entry) \cup {NoFile}]
    /\ old \subseteq {n \in Name : disk[n] # NoFile}
    /\ wpc \in {"idle", "scan", "close", "rename", "sweep"}
    /\ left \subseteq Name
    /\ zip \subseteq Index \X {"bare", "path"}
    /\ arctmp # NoFile => arctmp \subseteq Entry
    /\ archives \subseteq SUBSET Entry
    /\ written \subseteq Entry /\ purged \subseteq Entry
    /\ faults \in 0 .. MaxFaults

OnDisk == UNION {In(disk[n]) : n \in Name}

(* Every entry ever written is in a log file or in an archive, or was purged    *)
(* with an archive.                                                             *)
LogsKept == written \subseteq OnDisk \cup Zipped \cup purged

(* Without a fault nothing is lost, whatever the writer does while the worker   *)
(* renames, zips and removes its files.                                         *)
KeptWithoutFault == faults = 0 => LogsKept

(* The worker never takes the file the writer has open, and what it takes is    *)
(* complete: marked files are full, the open one is unmarked and is not.        *)
MarkedAreFinal ==
    /\ \A i \in Index : disk[<<i, "tmp">>] # NoFile => Full(disk[<<i, "tmp">>])
    /\ cur # 0 => disk[<<cur, "log">>] # NoFile /\ ~Full(disk[<<cur, "log">>])

(* No entry is archived twice, though files of the same index come and go and a *)
(* file may stay behind after it was archived.                                  *)
ArchivedOnce ==
    /\ \A a, b \in archives : a # b => a \cap b = {}
    /\ arctmp # NoFile => arctmp \cap (UNION archives) = {}

(* Where the worker is in its round tells what it may hold: sources and no      *)
(* zip file yet while it scans, and only marked files to remove at the end.     *)
RoundOf ==
    /\ wpc \in {"idle", "rename", "sweep"} => zip = {}
    /\ wpc \in {"scan", "close"} => arctmp = NoFile
    /\ wpc = "sweep" => \A n \in left : n[2] = "tmp"

(* An entry in a log file is nowhere else, neither in another log file nor in a *)
(* marked one nor in an archive, and a marked file that will be zipped is in no *)
(* archive.                                                                     *)
OnePlace ==
    /\ \A i, j \in Index : i # j => In(disk[<<i, "log">>]) \cap In(disk[<<j, "log">>]) = {}
    /\ \A i, j \in Index : In(disk[<<i, "log">>]) \cap In(disk[<<j, "tmp">>]) = {}
    /\ \A i \in Index : In(disk[<<i, "log">>]) \cap Zipped = {}
    /\ \A i \in Index : <<i, "path">> \in zip => In(disk[<<i, "tmp">>]) \cap Zipped = {}
    /\ OnDisk \cup Zipped \cup purged \subseteq written

(* Without a fault the marked files are those of the running round: in the zip  *)
(* file while it is made, then in the archive, and gone with the round.         *)
MarkedThisRound ==
    faults = 0 =>
        /\ wpc = "idle" => Marked = {}
        /\ wpc \in {"scan", "close"} =>
              /\ \A s \in zip : s[2] = "path"
              /\ \A i \in Index : disk[<<i, "tmp">>] # NoFile => <<i, "path">> \in zip
        /\ wpc = "scan" => /\ zip # {} => flush
                           /\ \A i \in Index : <<i, "path">> \in zip => <<i, "log">> \notin left
        /\ wpc \in {"rename", "sweep"} => \A n \in Marked : In(disk[n]) \subseteq Zipped
        /\ wpc = "sweep" => Marked \subseteq left

(* Whatever fails, an entry of an unmarked file stays in an unmarked or in a    *)
(* marked file: only a file that was marked before can be lost.                 *)
UnmarkedStay ==
    [][\A i \in Index : In(disk[<<i, "log">>]) \subseteq
            UNION {In(disk'[n]) : n \in Name}]_vars

\* There are full log files waiting to be archived.
Waiting == \E i \in Index : Full(disk[<<i, "log">>])

(* Full log files do not stay for ever while the program runs, also not after a *)
(* failure left archive.ttarctmp behind: the purge takes that away.             *)
FullLeaves == (up /\ Waiting) ~> (~up \/ ~Waiting)

(* Writer and worker (__lio_fidx_output(), __liof_w_archive()) share the       *)
(* files: without a fault every entry is kept, and in any case the worker only *)
(* takes complete files and archives no entry twice.                           *)
FilesInv ==
    /\ TypeOK /\ KeptWithoutFault /\ MarkedAreFinal /\ ArchivedOnce
    /\ RoundOf /\ OnePlace /\ MarkedThisRound
=============================================================================
