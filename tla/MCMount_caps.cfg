CONSTANTS
    Client = {c1, c2}
    Commands = {"connect", "disconnect"}
    Axis = {"ns"}
    Position <- Targets
    OpLocker = TRUE
    DualAxis = TRUE
    Online = FALSE
    MaxReq = 2
    MaxGoto = 0
    MaxPulse = 0
SPECIFICATION Spec
INVARIANTS
    CapsAgree
CHECK_DEADLOCK FALSE
