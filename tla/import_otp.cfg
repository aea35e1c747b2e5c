SPECIFICATION ImportSpec
CONSTANTS
    Words = {"pin"}
    MaxSlug = 1
INVARIANTS
    OtpFound
CHECK_DEADLOCK FALSE
