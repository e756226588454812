SPECIFICATION Spec
CONSTANTS
    Symbol = {"SOFR"}
    Day = {"d1", "d2", "d3"}
    Window = {"w"}
    Windows <- MCWindows
    DaysOf <- MCDaysOf
    OptLimit = 1
    StkLimit = 1
    ClientTries = 2
    MaxRetries = 1
    Interval = 1
    MaxSize = 2
    HeartbeatTries = 2
INVARIANTS
    TypeOK
    PermitsAccounted
    CachesSound
PROPERTIES
    SpacedRequests
    ImplementsGather
    AllReturn
