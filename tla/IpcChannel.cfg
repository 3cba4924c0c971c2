CONSTANTS
    Lcores = {l1, l2}
    Master = M
    Bufs = {b1, b2, b3}
    Msgs = {m1, m2}
    RingSize = 2
    None = None
    MaxCrashes = 2
SPECIFICATION Spec
INVARIANTS TypeOK OneHolder BuffersAccounted
PROPERTY ImplementsChannel
CHECK_DEADLOCK FALSE
SYMMETRY Interchangeable
