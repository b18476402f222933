SPECIFICATION Spec
CONSTANTS
    A = A
    B = B
    Nodes = {A, B}
    Peer <- MCPeer
    MaxData <- MCMaxData
    DataA = 3
    DataB = 2
    PacketIdLimit = 16
    NormalSSize = 2
    StartId = 0
    ZeroTolerance = FALSE
    Ordered = TRUE
    WireCap = 19
    MaxFaults = 2
    MayLose = FALSE
    EarlyTimeouts = FALSE
    FlushesWriteQueue = TRUE
INVARIANTS
    WriteQueueBacked
    SendQueueDisciplined
    Resynchronisable
CHECK_DEADLOCK FALSE
