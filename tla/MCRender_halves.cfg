CONSTANTS
    Nil = Nil
    Docs <- Halves
    Fetched <- MCFetched
    Conns <- MCConns
    Update = "l2"
    RuCodes = {"ru", "ru-blocked"}
SPECIFICATION Spec
INVARIANTS
    VpnLanForced
CHECK_DEADLOCK FALSE
