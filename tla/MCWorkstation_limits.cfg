CONSTANTS
    p1 = p1
    p2 = p2
    nil = nil
    Nil = nil
    Atoi <- MCAtoi
    DefaultKey = "id"
    Process = {p1}
    Server <- MCServer
    PortTwentyTwo <- SamePort
    Preferred <- MCPreferred
    Key = {"a", "b"}
    Hashes = {FALSE}
    MaxForeign = 1
    MaxReinstalls = 1
    Request <- Requests
    Address <- MCAddress
    Text <- Texts
    MaxCommands = 2
    Torn = Torn
    Absent = Absent
    Stock = Stock
    PathOf <- OnePath
SPECIFICATION Spec
INVARIANTS
    MissingMeansMissing
    NoSpuriousMismatch
    NoLateWrite
PROPERTIES
    ExistingMismatchFatal
CHECK_DEADLOCK FALSE
