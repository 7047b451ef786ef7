CONSTANTS
    List = {"l1", "l2"}
    Version = {"twice"}
    Rendered <- MCRendered
    GeoipRu = "ru"
    NoEntries = "none"
    OtherIp <- MCOtherIp
    Torn = Torn
    NoDir = NoDir
    MaxCuts = 0
    MaxApplies = 0
    MaxUpdates = 2
SPECIFICATION Spec
INVARIANTS
    OneSet
CHECK_DEADLOCK FALSE
