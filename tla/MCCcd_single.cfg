CONSTANTS
    Client = {c1}
    Commands = {"expose", "malformed", "abort", "connect", "disconnect"}
    SlowRead = FALSE
    Faults = TRUE
    MaxReq = 4
    MaxExp = 3
SPECIFICATION LiveSpec
PROPERTIES
    OverlapOnlyRefused
    StopIsFinal
    BusyEnds
    ShutdownStops
CHECK_DEADLOCK FALSE
