SPECIFICATION FairSpec
CONSTANTS
    WindowSize = 2
    AllowedLateness = 1
    MaxFutureSkew = 1
    NoWatermark <- MCNoWatermark
    Events <- MCEvents
    OccurredAt <- MCOccurredAt
    MerchantOf <- MCMerchantOf
    Violating <- MCViolating
    Garbage <- MCGarbage
    Topics <- TopicsQuiet
    MaxBatch = 2
    CacheSize = 1
    MaxClock = 4
    Faults = {}
    MaxFaults = 0
PROPERTIES
    QuietWindowsClose
