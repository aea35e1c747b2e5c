SPECIFICATION Spec
CONSTANTS
    Devices = {1, 2, 3}
    Rank <- MCRank
    Paired <- AllPaired
    Seeded = {1, 2, 3}
    Keys = {k1}
    Quoted = {}
    Kinds = {"insert", "plain"}
    Editing = "between"
    MaxEdits = 3
    MaxLen = 4
    MaxFaults = 0
INVARIANTS
    NoForeignPlaintext
CHECK_DEADLOCK FALSE
