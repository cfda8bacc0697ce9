\* One container, one request and two event goroutines.
SPECIFICATION FairRecoverySpec
CONSTANTS
    Containers = {c1}
    Requests = {r1}
    Watcher = watcher
    None = none
    Handlers = {h1, h2}
    MaxRestarts = 1
    MaxCount = 6
    HealthStatuses = {}
    AutoStopTimeout = 0
    MaxTime = 0
    MaxFaults = 0
    MaxCrashes = 0
    MaxEvents = 1
    ApiCalls = {"start", "stop", "remove"}
PROPERTIES
    StopIsNotACrash
