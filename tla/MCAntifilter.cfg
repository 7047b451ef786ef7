CONSTANTS
    List = {"l1", "l2"}
    Version = {"example", "twice", "without"}
    Rendered <- MCRendered
    GeoipRu = "ru"
    NoEntries = "none"
    OtherIp <- MCOtherIp
    Torn = Torn
    NoDir = NoDir
    MaxCuts = 1
    MaxApplies = 2
    MaxUpdates = 3
SPECIFICATION Spec
INVARIANTS
    TypeOK
    RulesKept
    OnlyTested
PROPERTIES
    ListBeforeGeoip
CHECK_DEADLOCK FALSE
