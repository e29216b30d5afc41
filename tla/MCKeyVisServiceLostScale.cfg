SPECIFICATION FairSpec
CONSTANTS
    Handlers = {}
    Configs <- KVConfigs
    WorkerCount = 1
    ChanCap = 1
    Tasks = 2
    None = none
    MaxChanges = 3
    MaxFailures = 0
    MaxTicks = 1
    MaxShutDown = 0
PROPERTIES
    SettingsTakeEffect
CHECK_DEADLOCK FALSE
