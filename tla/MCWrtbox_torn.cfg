CONSTANTS
    v1 = v1
    v2 = v2
    Stock = Stock
    Torn = Torn
    Absent = Absent
    Path <- MCPath
    Managed <- MCManaged
    Version <- OneVersion
    Rendered <- MCRendered
    UciPath = {"wireless"}
    XrayPath = "xray"
    Rejected <- NoneRejected
    Services <- NoServices
    ConfigOf <- NoConfigOf
    PostApply <- NoPostApply
    Time = {1}
    Keep = 1
    FreshPaths = {}
    VpnLan = {}
    Packages = {}
    MonotoneClock = TRUE
    MaxRuns = 1
    Exclusive = TRUE
    MaxRolls = 1
SPECIFICATION WSpec
INVARIANTS
    RollbackGivesWholeFiles
CHECK_DEADLOCK FALSE
