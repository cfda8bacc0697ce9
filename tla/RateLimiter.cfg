\* Two addresses, two requests at a time, five in all.  A bucket of two tokens
\* is refilled in two ticks, and an entry deleted after three: the clock goes far
\* enough for a deletion and a return.
SPECIFICATION LimiterSpec
CONSTANTS
    IPs = {ip1, ip2}
    Requests = {r1, r2}
    NoIP = none
    Burst = 2
    IdleTimeout = 3
    MaxStall = 1
    MaxTime = 6
    MaxAsked = 5
INVARIANTS
    NeverOrphaned
PROPERTIES
    ImplementsBucket
CHECK_DEADLOCK FALSE
