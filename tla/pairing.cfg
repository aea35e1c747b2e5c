SPECIFICATION Spec
CONSTANTS
    a = a
    b = b
    Devices = {a, b}
    Runs <- MCRuns
    Name <- MCName
    Serial = TRUE
INVARIANTS
    TrustInv
    ReportsHold
    PinsUnderCurrentKey
CHECK_DEADLOCK FALSE
