SPECIFICATION Spec
CONSTANTS
    Peers = {p1, p2}
    MaxAttempts = 2
    StartupEdits = FALSE
    MaxFileEdits = 3
    MaxStarts = 2
    MaxSyncs = 2
PROPERTIES
    DialsOnlyPaired
CHECK_DEADLOCK FALSE
