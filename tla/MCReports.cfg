CONSTANTS
    TasksOf <- MCTasksOf
    OutcomesOf <- MCOutcomesOf
    Conc = 2
    MaxRepFailures = 1
    MaxRepCrashes = 1
    DiagHosts = {h1, h2}
    CmpColumns = 4
    CmpJoin <- MCJoin
    CmpComp <- MCComp
    CmpTables <- MCCmpTables
    CmpMaxDiffs = 2
    Instances = {i1}
    InspValues = {0, 1, 4, 5, 12}
SPECIFICATION Spec
CHECK_DEADLOCK FALSE
INVARIANTS ReportHonest RowsAligned RatiosTrue CompareExact DiffsTrue FindingsSurvive
PROPERTY ReportEnds
