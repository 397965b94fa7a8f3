CONSTANTS
    Devices <- MCDevices
    Modes = {TRUE, FALSE}
SPECIFICATION LiveSpec
INVARIANTS
    VerdictIsDevice
    LeftAsFound
PROPERTIES
    OnlyLive
    RunEnds
CHECK_DEADLOCK FALSE
