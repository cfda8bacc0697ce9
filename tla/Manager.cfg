\* One container, two requests and the watcher, two faults and one crash.  No
\* symmetry: ExpiredIsStopped is a liveness property.
SPECIFICATION FairManagerSpec
CONSTANTS
    Containers = {c1}
    Requests = {r1, r2}
    Watcher = watcher
    None = none
    HealthStatuses = {"healthy"}
    AutoStopTimeout = 0
    MaxTime = 1
    MaxFaults = 2
    MaxCrashes = 1
    MaxEvents = 1
    ApiCalls = {"start", "stop", "remove"}
INVARIANTS
    StatusAgrees
PROPERTIES
    ExpiredIsStopped
    ImplementsContract
