SPECIFICATION MCSpec
CONSTANTS
    h1 = h1
    h2 = h2
    boot = boot
    none = none
    Handlers = {h1, h2}
    Boot = boot
    Runs = {1, 2}
    None = none
    MaxTargets = 2
    MaxGroup = 2
    MaxTask = 2
    MaxCalls = 3
    MaxFailures = 1
    MaxCrashes = 1
INVARIANTS
    OneRun
    
    
PROPERTIES
    FinishedStays
    CancelledRunEnds
CHECK_DEADLOCK FALSE
