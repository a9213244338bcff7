\* Two fibers, a stream and a listening socket; a message needs two turns.
CONSTANTS
    Fiber = {f1, f2}
    Main = Main
    Stream = {s1}
    Listener = {l1}
    Null = Null
    Gone = Gone
    Box = Box
    NoSkt = NoSkt
    BufLen = 1
    MsgLen = 2
    Room = 1
    MaxIn = 1
    MaxOps = 2
    MaxMail = 1
SPECIFICATION FairSpec
INVARIANTS SocketInv Accounting
PROPERTY CallsReturn
CHECK_DEADLOCK FALSE
