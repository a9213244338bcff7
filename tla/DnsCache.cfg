\* Two fibers, two names; long enough for an entry to expire, to fall out of
\* use and to be created again.
CONSTANTS
    Fiber = {f1, f2}
    n1 = n1
    n2 = n2
    Item <- MCName
    Rr <- MCRr
    None = None
    POS_NULL = POS_NULL
    Forever = 9
    Ttl = {0, 1}
    Second = 2
    Limit = 1
    MaxClock = 3
SPECIFICATION FairSpec
INVARIANTS CacheInv TtlInv
PROPERTIES GetReturns
CHECK_DEADLOCK FALSE
