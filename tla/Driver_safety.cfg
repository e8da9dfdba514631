SPECIFICATION Spec
CONSTANTS
    PVs = {p1, p2}
    IOCs = {iocA}
    None = None
    Serves <- MCServes
    CmdCap = 2
    ReconnectCap = 1
    LifecycleCap = 1
    MaxLoops = 2
    MaxSessions = 2
    MaxOps = 3
SYMMETRY Symmetry
INVARIANTS
    Routable
    TokenIsNewest
    SubscribedHasHome
PROPERTY
    CancelledNeverRetries
CHECK_DEADLOCK FALSE
