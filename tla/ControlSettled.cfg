SPECIFICATION FairSpec
CONSTANTS
    MaxLcore = 5
    MasterLcore = 0
    Slaves = {1, 2}
    Configs = {0, 1}
    BadConfigs = {}
    CrashPoints = {"engine", "running"}
    SettledOnly = TRUE
    MaxCrashes = 2
    MaxForkFails = 0
INVARIANTS
    IdUnique
    IdAccounted
    ConfigExclusive
    UsedIsHeld
PROPERTIES
    EventuallyRunning
