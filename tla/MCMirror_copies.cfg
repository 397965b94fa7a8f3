CONSTANTS
    Prop <- MCProp
    Meta <- MCMeta
    Optional = {"switch"}
    Readings = {4, 16}
    Grain = 10
    Peer = peer
    MaxWork <- MCWork
SPECIFICATION Spec
INVARIANTS
    ViewIsPast
    Converges
CHECK_DEADLOCK FALSE
