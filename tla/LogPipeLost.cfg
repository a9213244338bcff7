\* One thing goes wrong, as when the zip file cannot be written: the round goes on and
\* removes the marked log files, and an entry that was written is lost.
CONSTANTS
    Threads = 1
    MaxEntry = 3
    MaxNoMem = 0
    Entry = {1, 2, 3, 4, 5, 6}
    MaxSize = 2
    MaxIndex = 2
    MaxFaults = 1
    NoFile = NoFile
SPECIFICATION PipeSpec
INVARIANTS LogsKept
CHECK_DEADLOCK FALSE
