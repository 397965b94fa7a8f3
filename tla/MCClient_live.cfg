CONSTANTS
    Waiter = {w1}
    Device = {d1, d2}
    Name = {n1}
    Elements = {"def", "set", "blob", "del", "message"}
    States <- MCStates
    Ops = {"WaitRev", "SetAndWait", "Wait", "WaitDevices"}
    Wants <- MCWants
    Needs = {2}
    MaxMessages = 2
    MaxElements = 4
    MaxCalls = 1
SPECIFICATION LiveSpec
INVARIANTS
    TypeOK
    BlockedIsCurrent
    FreshAck
    DownIsFinal
PROPERTIES
    RevCounts
    WaitersWake
CHECK_DEADLOCK FALSE
