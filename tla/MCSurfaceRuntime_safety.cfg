SPECIFICATION Spec
CONSTANTS
    Dte <- MCDte
    Imminent = 1
    MinSlices = 1
    Patience = 1
    ColdStartAtOpen = TRUE
    DayLength = 4
    Open = 0
    Close = 4
    NoTradeOpen = 1
    NoTradeClose = 1
    PairCheck = {"raises", "returns"}
    MaxTheta = 2
    MaxMinute = 5
INVARIANTS
    TypeOK
    EmittedSurfaceIsOrdered
    FlagsMatchSurface
    ReuseStaysInSession
    AcceptedSlicesAscend
    AcceptedDeferredSliceIsFlat
    ProvenanceOfSlices
PROPERTY ImplementsFeed
