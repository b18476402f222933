SPECIFICATION StatSpec
CONSTANTS
    A = A
    B = B
    Nodes = {A, B}
    Peer <- MCPeer
    MaxData <- MCMaxData
    DataA = 3
    DataB = 1
    MaxAttempts <- MCMaxAttempts
    AttemptsA = 2
    AttemptsB = 1
    MaxPings <- MCMaxPings
    PingsA = 0
    PingsB = 1
    PacketIdLimit = 16
    NormalSSize = 2
    StartId = 14
    ZeroTolerance = FALSE
    Ordered = TRUE
    WireCap = 7
    MaxFaults = 0
    MayLose = TRUE
    EarlyTimeouts = TRUE
    FlushesWriteQueue = TRUE
INVARIANTS
    TypeOK
    InOrderExactlyOnce
    ReceiveQueueAhead
    SendColumnExact
    EveryCopyCountedOnce
    EveryAnswerCountedOnce
CHECK_DEADLOCK FALSE
