SPECIFICATION Spec
CONSTANTS
    WindowSize = 2
    AllowedLateness = 1
    MaxFutureSkew = 1
    NoWatermark <- MCNoWatermark
    Events <- MCEvents
    OccurredAt <- MCOccurredAt
    MerchantOf <- MCMerchantOf
    Violating <- MCViolating
    Garbage <- MCGarbage
    Topics <- TopicsMixed
    MaxBatch = 2
    CacheSize = 1
    MaxClock = 3
    Faults = {"crash", "stop", "lookup", "sink", "ack", "dlq", "timeout", "commit"}
    MaxFaults = 2
INVARIANTS
    TypeOK
    AppliedIsLedgered
    CacheIsLedgered
    CommittedIsHandled
    LedgeredHasEffect
    AtMostOncePerCopy
    
    EveryLetterLands
    NoPrematureClose
PROPERTIES
    ClosedRowIsFinal
