SPECIFICATION MCSpec
CONSTANTS
    a = a
    b = b
    c = c
    x = x
    y = y
    NoValue = NoValue
    NoPlan = NoPlan
    SupportsLocked = TRUE
    Surrogate = FALSE
    Policy = "disabled"
    AllowDeletes = TRUE
    Overrides <- LocalBody
    Rows <- PolicyRows
    Tables <- PolicyTables
    Recordings = {}
    Kinds = {"apply", "initialize"}
    Fresh = TRUE
    Concurrent = FALSE
    MaxBundles = 2
    MaxEdits = 1
    MaxFaults = 0
INVARIANTS
    NewStayDisabledUnlessInterrupted
    UndisturbedPlansSucceed
    LinksMatchByIdentity
    RecordingsResolve
PROPERTIES
    ProtectedRowsUntouched
    ImportMirrorsMain
CHECK_DEADLOCK FALSE
