CONSTANTS
    Device <- MCDevice
    Name <- MCName
    Starters = {"mount", "twin"}
    Dialer = {c1, c2}
    Shortest = 1
    Longest = 3
SPECIFICATION LiveSpec
INVARIANT
    StartedOnce
PROPERTY
    ServeEnds
