\* Two fibers, two timers, delays of up to two ticks.
CONSTANTS
    f1 = f1
    f2 = f2
    t1 = t1
    t2 = t2
    Fiber = {f1, f2}
    Item = {t1, t2}
    Main = Main
    NoFiber = NoFiber
    POS_NULL = POS_NULL
    Forever = Forever
    Delay = {0, 1, 2}
    MaxWait = 9
    MaxClock = 4
SPECIFICATION Spec
SYMMETRY Symmetry
INVARIANTS TimerInv NoMissedTimer NotEarly AccurateWait NoTimerLeak
CHECK_DEADLOCK FALSE
