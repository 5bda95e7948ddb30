SPECIFICATION Spec
CONSTANTS
    Records = {"good", "garbage", "wrong", "late"}
    Undecodable = {"garbage"}
    Violating = {"wrong"}
    TooLate = {"late"}
    Topics <- MCTopicsWrong
    Commands = {c1}
    Retention = 1
    Faults = {}
    MaxFaults = 0
    MaxClock = 2
CHECK_DEADLOCK FALSE
INVARIANTS
    ReplayIsNotSilent
