SPECIFICATION Session
CONSTANTS
    A = A
    B = B
    Nodes = {A, B}
    Peer <- MCPeer
    MaxData <- MCMaxData
    DataA = 4
    DataB = 2
    PacketIdLimit = 16
    NormalSSize = 2
    StartId = 0
    ZeroTolerance = TRUE
    Ordered = FALSE
    WireCap = 1
    MaxFaults = 0
    MayLose = TRUE
    EarlyTimeouts = TRUE
    FlushesWriteQueue = FALSE
INVARIANTS
    NothingStranded
    QuiescentMeansDelivered
PROPERTY ImplementsStream
CHECK_DEADLOCK FALSE
