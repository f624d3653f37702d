SPECIFICATION MCSpec
CONSTANTS
    a = a
    b = b
    NoWorker = NoWorker
    NoService = 0
    Worker = {a, b}
    Service = {1, 2, 3}
    Requests = {"start", "stop", "reconcile"}
    Stale = FALSE
    MaxRequests = 2
    MaxCrashes = 1
    MaxStalls = 0
    MaxFaults = 0
INVARIANTS
    OneOwner
    OneFinalExport
PROPERTIES
    ShutdownCompletes
    UnstoppedStays
    OneLoopInTheEnd
CHECK_DEADLOCK FALSE
