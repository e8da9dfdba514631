SPECIFICATION Spec
CONSTANTS
    PVs = {p1}
    MaxLoops = 2
    LifecycleCap = 2
    BulkAt = 1
    MaxCommands = 2
    MaxBreaks = 1
    MaxFaults = 1
CHECK_DEADLOCK FALSE
INVARIANTS
    LiveIsNotDown
    StoredHasRow

    
