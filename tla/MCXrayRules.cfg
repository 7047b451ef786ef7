CONSTANT Enabled = TRUE
SPECIFICATION FairSpec
INVARIANTS
    MarkedIsRouted
    StopSticks
PROPERTIES
    RuleHeals
