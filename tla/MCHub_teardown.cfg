CONSTANTS
    Conn = {c1}
    Publisher = {d1}
    Device <- MCDevice
    Order <- MCOrder
    DeviceOf <- MCDeviceOf
    BlobProp <- MCBlobProp
    QueueMsgs = 2
    QueueBytes = 3
    SizeOf <- MCSizeOf
    Publications <- Published
    Requests = {"reject", "command", "enableBLOB", "getProperties", "ignored"}
    Asked <- Asks
    Enables <- Enabling
    Shutdown = TRUE
    MaxPub = 1
    MaxReq = 1
SPECIFICATION PublisherSpec
INVARIANTS
    TypeOK
    NoChannelPanic
    Budget
    Forgotten
PROPERTIES
    GapFree
    PolicyHonoured
    FeedRefined
    PublicationEnds
    ConnsReaped
CHECK_DEADLOCK FALSE
