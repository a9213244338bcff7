\* Three callers, three file operations, a group of one to three workers; threads may
\* fail to start.
CONSTANTS
    Pusher = {p1, p2, p3}
    Event = {e1, e2, e3}
    Boss = Boss
    Exit = Exit
    NoEvent = NoEvent
    MinNum = 1
    MaxNum = 3
    BoolSpan = 256
    MayFail = TRUE
SPECIFICATION GroupFairSpec
INVARIANTS GroupInv AllJoined
PROPERTY EventsServed
CHECK_DEADLOCK FALSE
