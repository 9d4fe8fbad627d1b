\* One project configured and two on the panel, which scans and the wizard add;
\* sessions of any two features.
SPECIFICATION Spec
CONSTANTS
    Domain = {"shop", "blog", "docs"}
    Configured <- MCConfigured
    Linked = {"shop", "blog"}
    Panel = {"blog", "docs"}
    Run = {r1}
    None = None
    ActionKind = {"restart", "logs"}
    PresetFiles <- SomeFiles
    Helpers = {"xclip"}
    Sessions <- Pairs
    Watched = {"blog"}
    MaxCopies = 2
    MaxSaves = 2
    MaxTimers = 1
INVARIANTS LockHasReply ModalLinesOfProject StatusUnderWay
PROPERTIES ConfiguredKept
CHECK_DEADLOCK FALSE
