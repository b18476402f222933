SPECIFICATION FairSession
CONSTANTS
    A = A
    B = B
    Nodes = {A, B}
    Peer <- MCPeer
    MaxData <- MCMaxData
    DataA = 4
    DataB = 0
    PacketIdLimit = 16
    NormalSSize = 2
    StartId = 0
    ZeroTolerance = FALSE
    Ordered = TRUE
    WireCap = 3
    MaxFaults = 0
    MayLose = TRUE
    EarlyTimeouts = TRUE
    FlushesWriteQueue = FALSE
INVARIANT NoSpontaneousReset
PROPERTY ImplementsFairStream
CHECK_DEADLOCK FALSE
