SPECIFICATION Spec
CONSTANTS
    CacheSize = 2
    Ids <- MCIds
    Violating <- MCViolating
    MaxBatch = 3
    MaxCommits = 5
INVARIANTS
    TypeOK
    MemoryIsTheMostRecent
    FilterKeepsFirstUnknown
    
PROPERTIES
    MemoryIsCacheAfter
