SPECIFICATION FairSpec
CONSTANTS
    WindowSize = 2
    AllowedLateness = 1
    MaxFutureSkew = 1
    NoWatermark <- MCNoWatermark
    Events <- MCEvents
    OccurredAt <- MCOccurredAt
    MerchantOf <- MCMerchantOf
    Violating <- MCViolating
    Garbage <- MCGarbage
    Topics <- TopicsDistinct
    MaxBatch = 2
    CacheSize = 1
    MaxClock = 2
    Faults = {"crash", "stop", "commit"}
    MaxFaults = 2
PROPERTIES
    ImplementsExactlyOnce
    EventuallyCommitted
