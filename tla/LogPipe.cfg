\* Two threads, files of two entries.
CONSTANTS
    Threads = 2
    MaxEntry = 3
    MaxNoMem = 1
    Entry = {1, 2, 3, 4, 5, 6}
    MaxSize = 2
    MaxIndex = 2
    MaxFaults = 1
    NoFile = NoFile
SPECIFICATION PipeSpec
INVARIANTS FilesInv PipeInv
PROPERTIES HandedInOrder UnmarkedStay Progress
CHECK_DEADLOCK FALSE
