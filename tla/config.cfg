SPECIFICATION MCSpec
CONSTANTS
    Domain <- Domains
    Content <- ContentDomains
    Old <- OldRecords
    Imported <- NewRecords
    MaxEdits = 4
    SupportedDomains <- SupportedTable
    Dependencies <- DependencyTable
    Presets <- Scopes
    Adapters <- AdapterTable
    References <- ReferenceTable
    MaxRequested = 3
INVARIANTS
    CarefulIsIntended
    ScopeInv
    AppliedInOrder
PROPERTY
    SyncRestores
CHECK_DEADLOCK FALSE
