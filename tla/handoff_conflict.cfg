SPECIFICATION Spec
CONSTANTS
    n1 = n1
    n2 = n2
    None = None
    Node <- TwoNodes
    Peer <- PeerOf
    Main = n1
    Mode = "direct"
    ClientAccess = "external_proxy"
    AutomaticApply = {n1, n2}
    Operator = {"op1", "op2"}
    Operations = {"request_handoff", "import_latest"}
    ApplyOutcomes = {"applied", "conflict"}
    Faults = {}
    Crashes = 0
    PlainLimit = 5
    MaxSequence = 6
INVARIANT
    AtMostOneAuthority
