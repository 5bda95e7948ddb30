SPECIFICATION FairSpec
CONSTANTS
    WindowSize = 2
    AllowedLateness = 1
    MaxFutureSkew = 1
    NoWatermark <- MCNoWatermark
    Members = {m1, m2}
    Partitions = {"p", "q"}
    Nobody = nobody
    Events = {"a", "b", "c"}
    OccurredAt <- MCOccurredAt
    Log <- MCLog
    Now = 3
    Faults = {"crash", "expel", "write"}
    MaxFaults = 1
    MaxMoves = 1
CHECK_DEADLOCK FALSE
INVARIANTS
    TypeOK
    CommittedIsHandled
    SingleWriter
    CountedOnce
    LedgeredHasEffect
    RefusedIsLate
PROPERTIES
    OffsetsNeverGoBack
    EventuallyCommitted
    HandoversKeepThePromise
