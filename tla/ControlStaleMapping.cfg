SPECIFICATION Spec
CONSTANTS
    MaxLcore = 5
    MasterLcore = 0
    Slaves = {1, 2}
    Configs = {0, 1}
    BadConfigs = {}
    CrashPoints = {"running", "assign"}
    SettledOnly = FALSE
    MaxCrashes = 2
    MaxForkFails = 0
INVARIANTS
    IdUnique
