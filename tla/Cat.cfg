SPECIFICATION FairStart
CONSTANTS
    Peers = {server, other}
    Server = server
    NormalSSize = 2
    MaxWaiting = 2
    SendLimit = 2
    MaxRemakes = 1
    MaxFlushed = 2
    LocalPort = 8000
    TryPorts = 2
INVARIANTS
    WatchedWhileConnected
    StatisticsKeepLeaks
    SearchIsThorough
PROPERTIES
    ClientComesBack
    GateOpens
    DisplayGoesOn
CHECK_DEADLOCK FALSE
