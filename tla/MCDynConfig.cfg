SPECIFICATION MCSpec
CONSTANTS
    kv = kv
    prof = prof
    start = start
    s1 = s1
    s2 = s2
    db = db
    raw = raw
    bad = bad
    none = none
    nobody = nobody
    Callers <- MCCallers
    Starter = start
    Subscribers = {s1, s2}
    Sections <- MCSections
    SectionOf <- MCSectionOf
    Values <- MCValues
    Invalid = {bad}
    Default = db
    None = none
    Nobody = nobody
    ChanCap = 2
    MayStop = TRUE
    MaxChanges = 2
    MaxFailures = 1
    MaxCrashes = 1
INVARIANTS
    NoUpdateMissed
    EachUpdateOnce
    ServedIsPersisted
    SequentialExact

    
    
CHECK_DEADLOCK FALSE
