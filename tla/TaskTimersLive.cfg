\* Two fibers, two timers, with fairness.
CONSTANTS
    Fiber = {f1, f2}
    Item = {t1}
    Main = Main
    NoFiber = NoFiber
    POS_NULL = POS_NULL
    Forever = Forever
    Delay = {1, 2}
    MaxWait = 9
    MaxClock = 3
SPECIFICATION FairSpec
PROPERTY TimerExpires
CHECK_DEADLOCK FALSE
