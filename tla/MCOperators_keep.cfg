CONSTANTS
    v1 = v1
    v2 = v2
    Stock = Stock
    Torn = Torn
    Absent = Absent
    Path = {"network", "xray"}
    Managed <- TwoManaged
    Version = {v1, v2}
    Rendered <- TwoRendered
    UciPath = {"network"}
    XrayPath = "xray"
    Rejected <- NoneRejected
    Services = {}
    ConfigOf <- NoConfigOf
    PostApply <- NoPostApply
    Time = {1, 2}
    Keep = 1
    FreshPaths = {}
    VpnLan = {}
    Packages = {}
    MonotoneClock = FALSE
    MaxRuns = 1
    Distinct = TRUE
SPECIFICATION OSpec
INVARIANTS
    NotMixed
PROPERTIES
    SnapshotOutlivesRun
CHECK_DEADLOCK FALSE
