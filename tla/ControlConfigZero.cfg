SPECIFICATION Spec
CONSTANTS
    MaxLcore = 5
    MasterLcore = 0
    Slaves = {1, 2}
    Configs = {0, 1}
    BadConfigs = {}
    CrashPoints = {"await"}
    SettledOnly = FALSE
    MaxCrashes = 1
    MaxForkFails = 0
INVARIANTS
    ConfigExclusive
