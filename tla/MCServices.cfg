CONSTANTS
    ProfClients = {p1, p2}
    ProfRequests <- MCProfRequests
    MaxProfGroups = 1
    MaxProfFailures = 1
    MaxProfCrashes = 1
    Browsers = {b1}
    SQLUsers = {u1, u2}
    Admins = {a1, a2}
    Grants <- MCGrants
    TokenLife = 1
    MaxShareLife = 2
    FixedSecret = FALSE
    MaxAccNow = 2
    MaxAccEvents = 1
    u1 = u1
    s1 = s1
    c1 = c1
    Servers = {s1, s2}
    Calls = {c1, c2}
    MaxFwdEvents = 1
    e1 = e1
    Stores = {k1, k2}
    TiDBs = {}
    Editors = {e1, e2}
    CfgItems = {i1}
    CfgValues = {1, 2}
    EditableItems <- MCEditable
    MaxCfgEvents = 1
    PromUsers = {m1, m2}
    PromSetters = {w1}
    Addresses = {"x"}
    PromTTL = 1
    MaxPromNow = 2
    MaxPromEvents = 1
SPECIFICATION Spec
CHECK_DEADLOCK FALSE
INVARIANTS GroupTells   EditTakes 
PROPERTIES GroupsEnd ForwarderSettles ChangeSeen
