\* A timer is started again before its expiry was received.
CONSTANTS
    Fiber = {f1, f2}
    Item = {t1, t2}
    Main = Main
    NoFiber = NoFiber
    POS_NULL = POS_NULL
    Forever = Forever
    Delay = {0, 1, 2}
    MaxWait = 9
    MaxClock = 4
SPECIFICATION RestartSpec
INVARIANT SendTimerAssert
CHECK_DEADLOCK FALSE
