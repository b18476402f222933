SPECIFICATION Spec
CONSTANTS
    Peers = {p1, p2, p3}
    NormalSSize = 2
    MaxWaiting = 2
INVARIANTS
    ApplicationKnows
    NoWriteQueueStarves
    TwoFruitlessCallsMeanEmpty
    SendStatisticExact
PROPERTIES
    WriteLoopServesEachOnce
