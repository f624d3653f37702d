SPECIFICATION MCSpec
CONSTANTS
    a = a
    b = b
    NoBundle = NoBundle
    Node = {a, b}
    Main = a
    OneAtATime = TRUE
    LoopStopsFirst = FALSE
    ManualExports = TRUE
    MaxExports = 5
    MaxKills = 2
    MaxReadErrors = 0
    MaxWriteErrors = 1
INVARIANTS
    WriterKnowsStore
    AuthorityNotLost
PROPERTIES
    StoreAdvances
    OrderlyTakeoverCompletes
CHECK_DEADLOCK FALSE
