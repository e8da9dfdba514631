SPECIFICATION Spec
CONSTANTS
    p1 = p1
    p2 = p2
    Nobody = Nobody
    PVs = {p1, p2}
    Initial <- MCInitial
    Layout <- ScalarAndString
    BusCap = 1
    DrainMax = 2
    DefaultBeat = 1
    Beats <- MCBeats
    MaxUpdates = 3
    MaxOps = 1
    MaxTicks = 1
CHECK_DEADLOCK FALSE
INVARIANTS
    EveryUpdateCounted
    RowsInOrder
    HeartbeatRepeats
