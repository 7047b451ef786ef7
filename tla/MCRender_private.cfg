CONSTANTS
    Nil = Nil
    Docs <- Routings
    Fetched <- MCFetched
    Conns <- MCConns
    Update = "l2"
    RuCodes = {"ru", "ru-blocked"}
SPECIFICATION Spec
INVARIANTS
    PrivateNeverTunnelled
CHECK_DEADLOCK FALSE
