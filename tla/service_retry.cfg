SPECIFICATION Spec
CONSTANTS
    WindowSize = 2
    AllowedLateness = 1
    MaxFutureSkew = 1
    NoWatermark <- MCNoWatermark
    Events <- MCEvents
    OccurredAt <- MCOccurredAt
    MerchantOf <- MCMerchantOf
    Violating <- MCViolating
    Garbage <- MCGarbage
    Topics <- TopicsRetry
    MaxBatch = 2
    CacheSize = 1
    MaxClock = 0
    Faults = {}
    MaxFaults = 0
INVARIANTS
    RetryIsCaught
