SPECIFICATION Spec
CONSTANTS
    MaxLcore = 5
    MasterLcore = 0
    Slaves = {1, 2}
    Configs = {0, 1}
    BadConfigs = {1}
    CrashPoints = {}
    SettledOnly = FALSE
    MaxCrashes = 0
    MaxForkFails = 0
INVARIANTS
    NotRecreated
