SPECIFICATION Spec
CONSTANTS
    WindowSize = 2
    AllowedLateness = 1
    MaxFutureSkew = 1
    NoWatermark <- MCNoWatermark
    Members = {m1, m2}
    Partitions = {"p", "q"}
    Nobody = nobody
    Events = {"a", "b", "c"}
    OccurredAt <- MCOccurredAt
    Log <- MCLog
    Now = 3
    Faults = {"expel"}
    MaxFaults = 1
    MaxMoves = 0
CHECK_DEADLOCK FALSE
INVARIANTS
    RedeliveryIsCaught
