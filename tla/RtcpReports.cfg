\* The compact NTP time wraps; four reports fit a packet and three its count.
SPECIFICATION Spec
CONSTANTS
    CountMod = 4
    MaxSize = 108
    LostHalf = 8
    LostMod = 32
    Host <- MCHost
    Sends <- MCSends
    Receives <- MCReceives
    NtpMod = 7
    NtpUnits = 3
    NtpMs = 2
    Losses <- MCLosses
    Compounds <- MCCompounds
    MinTime = 3
    MaxTime = 6
    MaxInFlight = 2
INVARIANTS RttRight LostArrives ReportsArrive
CHECK_DEADLOCK FALSE
