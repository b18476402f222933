SPECIFICATION Spec
CONSTANTS
    A = A
    B = B
    Hosts = {A, B}
    Offset <- MCOffset
    Nibble = 6
    Word = 1296
    HeaderLength = 12
    Payloads <- MCPayloads
    PingPayloads <- MCPingPayloads
    NormalSSize = 2
    RTT = 3
    MAX_RTT = 50
    START_MIDDLE_TIME = 10
    MAX_TRIPTIME_MIDDLE = 280
    LAST10_SIZE = 1
    Damages = {1, 6, 18, 35}
    Delays = {15, 30}
    MaxNow = 30
    MaxId = 2
    MaxWire = 2
    MaxResets = 1
INVARIANTS
    CheckIsExact
    TripTimeOfTheCopy
    RetransmissionPaced
CHECK_DEADLOCK FALSE
