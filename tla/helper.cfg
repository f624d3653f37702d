SPECIFICATION HelperSpec
CONSTANTS
    Worker = {w1, w2}
    Helper = {h1, h2, h3}
    NoHelper = NoHelper
    MaxOps = 5
SYMMETRY Processes
INVARIANTS
    OneServer
    PidNamesServer
PROPERTY
    GracefulStopFlushes
CHECK_DEADLOCK FALSE
