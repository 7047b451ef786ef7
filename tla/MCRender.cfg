CONSTANTS
    Nil = Nil
    Docs <- AllDocs
    Fetched <- MCFetched
    Conns <- MCConns
    Update = "l2"
    RuCodes = {"ru", "ru-blocked"}
SPECIFICATION Spec
INVARIANTS
    PolicyOrder
    PrivateStaysLocal
    FilesAgree
    SsidsOnAir
    LayersInOrder
    RenderOnce
PROPERTIES
    UpdateOnlyDiverts
CHECK_DEADLOCK FALSE
