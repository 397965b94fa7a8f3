CONSTANTS
    Client = {c1, c2}
    Commands = {"goto", "sync", "bad", "abort", "guide", "connect", "disconnect"}
    Axis = {"ns", "we"}
    Position <- Targets
    OpLocker = TRUE
    DualAxis = TRUE
    Online = FALSE
    MaxReq = 3
    MaxGoto = 2
    MaxPulse = 2
SPECIFICATION LiveSpec
INVARIANTS
    GotoPaired
    CapsAgreeUncrossed
PROPERTIES
    BusySettles
CHECK_DEADLOCK FALSE
