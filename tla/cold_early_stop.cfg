SPECIFICATION Spec
CONSTANTS
    NoBundle = NoBundle
    Node = {a, b}
    Main = a
    OneAtATime = TRUE
    LoopStopsFirst = TRUE
    ManualExports = FALSE
    MaxExports = 5
    MaxKills = 0
    MaxReadErrors = 0
    MaxWriteErrors = 0
INVARIANT
    ReturningNodesFollow
CHECK_DEADLOCK FALSE
