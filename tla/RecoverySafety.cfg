\* One container, one request (starts and removes) and two event goroutines,
\* health checks; one failing call and one crash.
\* The clock stands still: the auto-stop watcher has runs of its own.
SPECIFICATION RecoverySpec
CONSTANTS
    Containers = {c1}
    Requests = {r1}
    Watcher = watcher
    None = none
    Handlers = {h1, h2}
    MaxRestarts = 1
    MaxCount = 5
    HealthStatuses = {"healthy"}
    AutoStopTimeout = 0
    MaxTime = 0
    MaxFaults = 1
    MaxCrashes = 1
    MaxEvents = 1
    ApiCalls = {"start", "remove"}
SYMMETRY Symmetry
VIEW SafetyView
INVARIANTS
    RestartBudget
    OpenedIsTold
    RowHasContainer
    NoUntracked
