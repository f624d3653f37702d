SPECIFICATION MCSpec
CONSTANTS
    n1 = n1
    n2 = n2
    None = None
    Node <- TwoNodes
    Peer <- PeerOf
    Main = n1
    Mode = "direct"
    ClientAccess = "external_proxy"
    AutomaticApply = {n1, n2}
    Operator = {"op1"}
    Operations = {"request_handoff", "export_now", "proxy_ready", "proxy_not_ready"}
    ApplyOutcomes = {"applied", "error"}
    Faults = {"outbound_write"}
    Crashes = 1
    PlainLimit = 2
    MaxSequence = 4
INVARIANTS
    KnowsNewestUnlessExported
    FencedUnlessAcquired
PROPERTIES
    AuthorityPassesOn
    OwnSequenceAdvances
    CalmHandoffCompletes
