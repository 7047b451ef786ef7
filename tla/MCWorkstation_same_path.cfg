CONSTANTS
    p1 = p1
    p2 = p2
    nil = nil
    Nil = nil
    Atoi <- MCAtoi
    DefaultKey = "id"
    Process = {p1, p2}
    Server <- MCServer
    PortTwentyTwo <- SamePort
    Preferred <- MCPreferred
    Key = {"a", "b"}
    Hashes = {FALSE}
    MaxForeign = 0
    MaxReinstalls = 0
    Request <- OneRequest
    Address <- MCAddress
    Text <- Texts
    MaxCommands = 1
    Torn = Torn
    Absent = Absent
    Stock = Stock
    PathOf <- OnePath
SPECIFICATION Spec
INVARIANTS
    TargetWhole
CHECK_DEADLOCK FALSE
