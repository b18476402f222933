SPECIFICATION Spec
CONSTANTS
    A = A
    B = B
    Nodes = {A, B}
    Peer <- MCPeer
    FirstPingDefault = 10
    NextPingDefault = 2
    DisconnectDefault = 12
    FirstPingOption = 2
    NextPingOption = 0
    DisconnectOption = 0
    Millisecond = 2
    PollPeriod = 1
    Latency = 1
    MaxSent = 1
    MaxLost = 1
    MaxDead = 1
    MaxTime = 22
    TimeModulus = 1000
    Reconnects = FALSE
INVARIANTS
    LivePeersStayConnected
    DeadPeerIsNoticed
    DisconnectedAfterSilence
CHECK_DEADLOCK FALSE
