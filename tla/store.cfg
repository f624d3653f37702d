SPECIFICATION MCSpec
CONSTANTS
    n1 = n1
    n2 = n2
    None = None
    Torn = Torn
    Failed = Failed
    Writer = {n1, n2}
    Reader = {r1}
    HashRank <- HashRanks
    Backend = "sftp"
    OneAtATime = TRUE
    KnowsNewest = TRUE
    MaxSequence = 5
INVARIANTS
    PrunedAreSuperseded
    ReadsAreFresh
    ReadFailsOnlyIfOvertaken
    ReportedResolves
PROPERTY
    ImplementsLatest
CHECK_DEADLOCK FALSE
