\* Two sending threads, two messages, one exit request and one finished io.
CONSTANTS
    Sender = {s1, s2}
    MsgEv = {m1, m2}
    ExitEv = {x1}
    WorkEv = {w1}
    None = None
SPECIFICATION PollerFairSpec
INVARIANTS PollerInv
PROPERTIES MailboxSpec EventsHandled
CHECK_DEADLOCK FALSE
