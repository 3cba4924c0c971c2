SPECIFICATION FairSpec
CONSTANTS
    MAX_PKT_BURST = 3
    Group = 2
    NbMbufs = 5
    MaxPackets = 5
    DrainTsc = 1
    MaxTsc = 2
    MaxCrashes = 1
INVARIANTS
    TypeOK
    PacketsAccounted
    BytesBalance
    BufferBounded
    OrderKept
    MbufsAccounted
PROPERTIES
    Drained
