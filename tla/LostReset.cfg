SPECIFICATION Spec
CONSTANTS
    A = A
    B = B
    Nodes = {A, B}
    Peer <- MCPeer
    MaxData <- MCMaxData
    DataA = 1
    DataB = 0
    PacketIdLimit = 16
    NormalSSize = 2
    StartId = 0
    ZeroTolerance = FALSE
    Ordered = TRUE
    WireCap = 4
    MaxFaults = 1
    MayLose = TRUE
    EarlyTimeouts = FALSE
    FlushesWriteQueue = FALSE
INVARIANT Resynchronisable
CHECK_DEADLOCK FALSE
