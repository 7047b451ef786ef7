CONSTANTS
    v1 = v1
    v2 = v2
    Stock = Stock
    Torn = Torn
    Absent = Absent
    Path <- MCPath
    Managed <- MCManaged
    Version <- TwoVersions
    Rendered <- MCRendered
    UciPath = {"wireless"}
    XrayPath = "xray"
    Rejected <- NoneRejected
    Services <- NoServices
    ConfigOf <- NoConfigOf
    PostApply <- NoPostApply
    Time = {1, 2}
    Keep = 1
    FreshPaths = {"wireless"}
    VpnLan = {}
    Packages = {}
    MonotoneClock = TRUE
    MaxRuns = 2
    Exclusive = TRUE
    MaxRolls = 1
SPECIFICATION WSpec
INVARIANTS
    WTypeOK
    RollbackExact
    DefaultUndoesApply
    OwnSnapshotKept
PROPERTIES
    PruneKeepsNewest
CHECK_DEADLOCK FALSE
