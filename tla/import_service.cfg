SPECIFICATION Spec
CONSTANTS
    a = a
    b = b
    c = c
    x = x
    y = y
    NoValue = NoValue
    NoPlan = NoPlan
    SupportsLocked = FALSE
    Surrogate = FALSE
    Policy = "disabled"
    AllowDeletes = TRUE
    Overrides <- NoOverrides
    Rows <- PolicyRows
    Tables <- PolicyTables
    Recordings = {}
    Kinds = {"apply"}
    Fresh = FALSE
    Concurrent = FALSE
    MaxBundles = 2
    MaxEdits = 0
    MaxFaults = 0
INVARIANT
    NewRecordsStayDisabled
CHECK_DEADLOCK FALSE
