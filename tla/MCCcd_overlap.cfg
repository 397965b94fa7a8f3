CONSTANTS
    Client = {c1, c2}
    Commands = {"expose"}
    SlowRead = FALSE
    Faults = FALSE
    MaxReq = 1
    MaxExp = 2
SPECIFICATION Spec
INVARIANTS
    NoOverlap
CHECK_DEADLOCK FALSE
