SPECIFICATION Spec
CONSTANTS
    PacketIdLimit = 7
    NormalSSize = 2
    ReceivedIds = {3, 5, 6}
    Contents = {x}
    Cells = {a1, a2, a3, a4, a5, a6}
SYMMETRY Permuted
INVARIANTS
    IndexesMatchLists
    OnlyFlushDangles
    PendingKeptOnce
    RefillIsSent
PROPERTIES
    ImplementSequences
    OnlyFlushAndResetLeak
