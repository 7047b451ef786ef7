CONSTANTS
    Nil = Nil
    Docs <- CutShorts
    Fetched <- MCFetched
    Conns <- MCConns
    Update = "l2"
    RuCodes = {"ru", "ru-blocked"}
SPECIFICATION Spec
INVARIANTS
    RawRulesRule
CHECK_DEADLOCK FALSE
