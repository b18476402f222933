SPECIFICATION EvSpec
CONSTANTS
    Channels = {c1, c2}
    NoChannel = NoChannel
    Dangling = Dangling
    NormalSSize = 2
    Delays = {1, 3}
    MaxTime = 3
    MaxWaiting = 1
INVARIANTS
    NeverLate
    NoPacketWithoutTimer
PROPERTY TimerFollowsPackets
CHECK_DEADLOCK FALSE
