SPECIFICATION MCSpec
CONSTANTS
    Scope <- Selections
    Full <- Everything
    Key = {"k", "l"}
    Behind = TRUE
    MaxBundles = 3
    MaxEdits = 3
INVARIANT
    AcceptanceInv
PROPERTIES
    NeverBack
    OnlyConfirmed
    DirectConverges
CHECK_DEADLOCK FALSE
