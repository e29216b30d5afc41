SPECIFICATION FairSpec
CONSTANTS
    Handlers = {h1}
    Configs <- MCConfigs
    WorkerCount = 2
    ChanCap = 1
    Tasks = 2
    None = none
    MaxChanges = 3
    MaxShutDown = 1
    MaxFailures = 1
    MaxTicks = 2
INVARIANTS
    OneGeneration
    RunningIsComplete
PROPERTIES
    Converges
CHECK_DEADLOCK FALSE
