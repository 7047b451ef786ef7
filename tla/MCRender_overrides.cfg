CONSTANTS
    Nil = Nil
    Docs <- Devices
    Fetched <- MCFetched
    Conns <- MCConns
    Update = "l2"
    RuCodes = {"ru", "ru-blocked"}
SPECIFICATION Spec
INVARIANTS
    OverridesFillIn
CHECK_DEADLOCK FALSE
