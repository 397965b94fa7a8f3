CONSTANTS
    Block = 3
    Half = 4
    Payloads <- MCPayloads
    IntMax = 127
    MaxAlloc = 64
    MaxLength = 32
SPECIFICATION FitsSpec
INVARIANTS
    DecodesAlike
    FrameIsImage
CHECK_DEADLOCK FALSE
