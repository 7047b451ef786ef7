CONSTANTS
    v1 = v1
    v2 = v2
    v3 = v3
    v4 = v4
    Stock = Stock
    Torn = Torn
    Absent = Absent
    Path <- MCPath
    Managed <- MCManaged
    Version <- TwoVersions
    Rendered <- MCRendered
    UciPath <- MCUciPath
    XrayPath <- MCXrayPath
    Rejected <- NoneRejected
    Services <- MCServices
    ConfigOf <- MCConfigOf
    PostApply <- NoPostApply
    Time = {1}
    Keep = 1
    FreshPaths = {"wireless"}
    VpnLan = {v2}
    Packages = {v1}
    MonotoneClock = FALSE
    MaxRuns = 1
SPECIFICATION Spec
INVARIANTS
    ReloadFailureSeen
CHECK_DEADLOCK FALSE
