\* One container, one request that starts it again and again while its process
\* exits, and two event goroutines; one fault.
SPECIFICATION FairRecoverySpec
CONSTANTS
    Containers = {c1}
    Requests = {r1}
    Watcher = watcher
    None = none
    Handlers = {h1, h2}
    MaxRestarts = 1
    MaxCount = 0
    HealthStatuses = {}
    AutoStopTimeout = 0
    MaxTime = 0
    MaxFaults = 1
    MaxCrashes = 0
    MaxEvents = 1
    ApiCalls = {"start"}
VIEW LivenessView
PROPERTIES
    StartingIsTransient
    RecoveryQuiesces
    CrashIsHandled
