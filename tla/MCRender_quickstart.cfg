CONSTANTS
    Nil = Nil
    Docs <- QuickStarts
    Fetched <- MCFetched
    Conns <- MCConns
    Update = "l2"
    RuCodes = {"ru", "ru-blocked"}
SPECIFICATION Spec
INVARIANTS
    QuickStartRenders
CHECK_DEADLOCK FALSE
