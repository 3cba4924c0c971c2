SPECIFICATION ReaderSpec
CONSTANTS
    MAX_PKT_BURST = 2
    Group = 1
    NbMbufs = 3
    MaxPackets = 3
    DrainTsc = 1
    MaxTsc = 2
    MaxCrashes = 0
    CounterRange = 256
INVARIANTS
    SentPlausible
