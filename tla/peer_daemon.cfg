SPECIFICATION FairSpec
CONSTANTS
    Peers = {p1, p2}
    MaxAttempts = 2
    StartupEdits = FALSE
    MaxFileEdits = 3
    MaxStarts = 2
    MaxSyncs = 2
INVARIANTS
    TypeOK
    CacheCoherent
    InFlightHasTask
PROPERTIES
    ServesOnlyPaired
    DialEnds
CHECK_DEADLOCK FALSE
