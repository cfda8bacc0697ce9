\* The chain of middlewares that main sets up.
SPECIFICATION NotificationsSpec
CONSTANTS
    Users = {u1}
    NoUser = nobody
    Streams = {s1}
    Publishers = {p1}
    Capacity = 1
    LoggerWraps = TRUE
    MaxNotes = 1
    MaxErrors = 0
INVARIANTS
    StreamIsServed
CHECK_DEADLOCK FALSE
