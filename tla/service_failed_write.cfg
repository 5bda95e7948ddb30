SPECIFICATION Spec
CONSTANTS
    WindowSize = 2
    AllowedLateness = 1
    MaxFutureSkew = 1
    NoWatermark <- MCNoWatermark
    Events <- MCEvents
    OccurredAt <- MCOccurredAt
    MerchantOf <- MCMerchantOf
    Violating <- MCViolating
    Garbage <- MCGarbage
    Topics <- TopicsMixed
    MaxBatch = 2
    CacheSize = 1
    MaxClock = 3
    Faults = {"sink"}
    MaxFaults = 1
INVARIANTS
    FailedWriteLosesNothing
