SPECIFICATION Spec
CONSTANTS
    WindowSize = 2
    AllowedLateness = 2
    MaxFutureSkew = 1
    NoWatermark <- MCNoWatermark
    Events <- MCEvents
    TimeOf <- MCTimeOf
    MerchantOf <- MCMerchantOf
    UserOf <- MCUserOf
    TypeOf <- MCTypeOf
    AmountOf <- MCAmountOf
    NoUser = "none"
    Retention = 2
    MaxClock = 5
INVARIANTS
    TypeOK
    
    
    LiveWindowsAreFew
PROPERTIES
    RestatementIsVisible
    
