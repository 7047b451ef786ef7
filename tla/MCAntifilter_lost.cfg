CONSTANTS
    List = {"l1", "l2"}
    Version = {"example", "without"}
    Rendered <- MCRendered
    GeoipRu = "ru"
    NoEntries = "none"
    OtherIp <- MCOtherIp
    Torn = Torn
    NoDir = NoDir
    MaxCuts = 0
    MaxApplies = 1
    MaxUpdates = 2
SPECIFICATION Spec
INVARIANTS
    NoChangesMeansInForce
    AppliedConfigStays
CHECK_DEADLOCK FALSE
