\* A request and the watcher, each holding a connection, exhaust the pool; a
\* socket that needs one competes with both.
CONSTANTS
    Requests = {r1}
    Watcher = watcher
    MaxConns = 2
    Socket = {s1}
SPECIFICATION SocketsSpec
INVARIANTS
    PoolBalanced
    NoCutTransaction
PROPERTIES
    SocketServed
    ShutdownEnds
    SocketReleased
\* The process exits.
CHECK_DEADLOCK FALSE
