CONSTANTS
    Client = {c1, c2}
    Commands <- MCCommands
    Limits <- MCLimits
    Hardware = {"CCD_FRAME", "CCD_CONTROLS"}
    Junk = Junk
    NaN = NaN
    NaNInts <- MCNaNInts
    MaxReq = 2
SPECIFICATION Spec
SYMMETRY MCSymmetry
INVARIANTS
    OutsideOnlyByNaN
    Answered
    ShowsDevice
    PublishedIsCurrent
