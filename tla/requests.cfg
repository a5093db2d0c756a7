CONSTANTS
    None = None
    Ids = {1, 2}
    Traffic <- MCTraffic
    InFlightLimits = {1, 2}
    Max = 1
    Window = 3
    KeyTTL = 2
    Grace = 1
    BodyMax = 2
    DefaultTenant = None
    MaxDelay = 1
    MaxTime = 3
    MaxTroubles = 1
SPECIFICATION Spec
INVARIANTS  RunsApart RateHolds  
PROPERTIES Answered
CHECK_DEADLOCK FALSE
