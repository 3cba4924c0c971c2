CONSTANTS
    MaxPort = 1
    ConfigIds = {0, 1, 2}
    None = None
    MAX_TIMER_PERIOD = 2
    DefaultPeriod = 1
    MS_PER_S = 3
    IntMax = 7
    Numbers <- MCNumbers
    MAX_CHECK_TIME = 3
    MaxOptions = 4
    MaxLines = 2
    MaxRules = 1
SPECIFICATION Spec
INVARIANTS TypeOK QueuesCover ServedPorts WholeFile LinkReported
PROPERTY Settles
CHECK_DEADLOCK FALSE
