SPECIFICATION LocalSpec
CONSTANTS
    Peers = {p1, p2}
    MaxAttempts = 2
    Window = 2
    Origin = 0
    Start = 2
    MaxTime = 6
    Daemons = {d1, d2}
    Racing = FALSE
    MaxLaunches = 3
    Debounce = 2
    MaxRaw = 3
    MaxChanges = 4
    Overflows = FALSE
    Helpers = {h1, h2}
    Overlapping = FALSE
    MaxCopies = 2
    Keys = {a, g}
    Attributes = g
    Quoted = {}
    Interfering = FALSE
    MaxEdits = 2
    Patterns = {p}
    MayBeLarge = FALSE
    MaxRequests = 4
    ApiCalls = {c1, c2}
    MaxRounds = 2
    MaxRestarts = 1
    Words = {"login", "url-2"}
    MaxSlug = 4
    Capacity = 1
    CallSize = 3
    Members = 2
    MaxRuns = 2
INVARIANTS
    LocalTypeOK
    WindowBudget
    RefusalsJustified
    OneReachableDaemon
    NoChangeForgotten
    AsIfNeverCopied
    ListMatchesField
    AnswersReachTheirCall
    LossesReported
    SlugsArePaths
PROPERTIES
    HintNotEarly
    ImplementsBudget
    ChangeReachesDaemon
    TipPublishedClean
    RulePublished
    PromisesSettle
    BridgeCallsEnd
    GpgCommandsReturn
    RestoresWhole
CHECK_DEADLOCK FALSE
