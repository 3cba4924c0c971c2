SPECIFICATION FairSpec
CONSTANTS
    MaxLcore = 4
    MasterLcore = 0
    Slaves = {1, 2}
    Configs = {0, 1}
    BadConfigs = {1}
    CrashPoints <- AnyStage
    SettledOnly = FALSE
    MaxCrashes = 1
    MaxForkFails = 1
INVARIANTS
    TypeOK
    NoExitLost
    ResetIsSafe
    OneExchange
    RecordAgrees
PROPERTIES
    Relaunched
    ImplementsSupervisor
