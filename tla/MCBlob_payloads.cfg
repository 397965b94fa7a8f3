CONSTANTS
    buffer = buffer
    file = file
    plain = plain
    Nil = Nil
    Device = {d1}
    Sink <- AllSinks
    Kind <- SinkKind
    Fails = {"write"}
    Sizes = {0, 2, 3}
    Chars = {1, 3, 4}
    MaxPayload = 1
    MaxToken = 3
SPECIFICATION LiveSpec
INVARIANTS
    ClosedIsWhole
    SinkSparesStream
    InflaterReaped
PROPERTIES
    ReadLoopReturns
CHECK_DEADLOCK FALSE
