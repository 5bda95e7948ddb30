SPECIFICATION Spec
CONSTANTS
    Records = {"good", "garbage", "wrong", "late"}
    Undecodable = {"garbage"}
    Violating = {"wrong"}
    TooLate = {"late"}
    Topics <- MCTopics
    Commands = {c1, c2}
    Retention = 1
    Faults = {"abort", "timeout", "restart", "seek"}
    MaxFaults = 2
    MaxClock = 2
CHECK_DEADLOCK FALSE
INVARIANTS
    TypeOK
    
    ReplayedIsDelivered
    ReplayedOnce
PROPERTIES
    ProtectedForRetention
