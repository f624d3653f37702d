SPECIFICATION MCSpec
CONSTANTS
    u = u
    v = v
    NoTx = NoTx
    Name = {u, v}
    Profile = {p}
    Group = {g}
    Ids = {1, 2, 3}
    Selected = {u, v}
    ActivePolicy <- Policies
    ImportProfiles = TRUE
    AllowDeletes = TRUE
    MaxEdits = 2
INVARIANT
    AccountsResolve
PROPERTIES
    AllOrNothing
    LocalKeysKept
    ExcludedUnchanged
CHECK_DEADLOCK FALSE
