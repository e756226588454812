SPECIFICATION Spec
CONSTANTS
    Dte <- Expiries
    Surfaces <- MCSurfaces
    MaxMinute = 2
    MaxCalls = 3
INVARIANTS
    TypeOK
    ReturnedMinutesAreStored
    SettledMinuteIsOneCalibration
    PriorIsTheLatestValidMinute
