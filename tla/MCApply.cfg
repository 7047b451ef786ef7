CONSTANTS
    v1 = v1
    v2 = v2
    v3 = v3
    v4 = v4
    Stock = Stock
    Torn = Torn
    Absent = Absent
    Path <- MCPath
    Managed <- MCManaged
    Version <- FourVersions
    Rendered <- MCRendered
    UciPath <- MCUciPath
    XrayPath <- MCXrayPath
    Rejected <- TwoRejected
    Services <- NoServices
    ConfigOf <- NoConfigOf
    PostApply <- NoPostApply
    Time = {1, 2}
    Keep = 1
    FreshPaths = {"wireless"}
    VpnLan = {v2}
    Packages = {v1}
    MonotoneClock = FALSE
    MaxRuns = 2
SPECIFICATION Spec
INVARIANTS
    TypeOK
    Recoverable
    OutcomeTruthful
    IInv
    OnlyVetted
PROPERTIES
    ImplementsAtomic
CHECK_DEADLOCK FALSE
