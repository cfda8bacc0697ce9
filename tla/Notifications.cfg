\* Two tabs of one user, two publishers and two notifications, one failing
\* INSERT; a channel of one element is full after one.  The bound on
\* notifications ends the run.
SPECIFICATION FairNotificationsSpec
CONSTANTS
    Users = {u1}
    NoUser = nobody
    Streams = {s1, s2}
    Publishers = {p1, p2}
    Capacity = 1
    LoggerWraps = FALSE
    MaxNotes = 2
    MaxErrors = 1
INVARIANTS
    NoSendOnClosed
    OnceEach
    PushedIsStored
PROPERTIES
    PublishReturns
    GoneIsUnsubscribed
CHECK_DEADLOCK FALSE
