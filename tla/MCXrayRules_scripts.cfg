CONSTANT Enabled = FALSE
SPECIFICATION Spec
INVARIANTS
    RollbackSticks
    StartLoads
PROPERTIES
    HotplugRestores
