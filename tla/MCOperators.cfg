CONSTANTS
    v1 = v1
    v2 = v2
    Stock = Stock
    Torn = Torn
    Absent = Absent
    Path = {"xray"}
    Managed <- MCManaged
    Version = {v1, v2}
    Rendered <- MCRendered
    UciPath = {}
    XrayPath = "xray"
    Rejected <- V1Rejected
    Services = {}
    ConfigOf <- NoConfigOf
    PostApply <- NoPostApply
    Time = {1, 2}
    Keep = 1
    FreshPaths = {}
    VpnLan = {}
    Packages = {}
    MonotoneClock = FALSE
    MaxRuns = 1
    Distinct = TRUE
SPECIFICATION OSpec
INVARIANTS
    VettedApart
PROPERTIES
    RunKeepsSnapshot
CHECK_DEADLOCK FALSE
