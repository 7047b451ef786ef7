CONSTANTS
    v1 = v1
    v2 = v2
    Stock = Stock
    Torn = Torn
    Absent = Absent
    Path <- MCPath
    Managed <- MCManaged
    Version <- TwoVersions
    Rendered <- MCRendered
    UciPath = {"wireless"}
    XrayPath = "xray"
    Rejected <- NoneRejected
    Services <- MCServices
    ConfigOf <- MCConfigOf
    PostApply <- DnsmasqAfter
    Time = {1}
    Keep = 1
    FreshPaths = {}
    VpnLan = {}
    Packages = {}
    MonotoneClock = TRUE
    MaxRuns = 1
    Exclusive = TRUE
    MaxRolls = 1
SPECIFICATION WFairSpec
INVARIANTS
    RollbackReloads
    SuccessReloads
PROPERTIES
    RollbackEnds
    Resolves
CHECK_DEADLOCK FALSE
