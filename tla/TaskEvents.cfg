\* Two tasks of a client and a server each, and one of a client; the second may be
\* told to exit.
CONSTANTS
    t1 = t1
    t2 = t2
    t3 = t3
    c1 = c1
    s1 = s1
    c2 = c2
    s2 = s2
    c3 = c3
    Task = {t1, t2, t3}
    Tfl <- TflThree
    Server = {s1, s2}
    Main = Main
    None = None
    MaxOps <- OpsThree
    MayExit = {t2}
SPECIFICATION FairSpec
INVARIANTS EventInv StartInv PostsInOrder
PROPERTIES CallsAndTasksEnd
CHECK_DEADLOCK FALSE
