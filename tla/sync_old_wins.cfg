SPECIFICATION Spec
CONSTANTS
    Devices = {1, 2, 3}
    Rank <- MCRank
    Paired <- ChainOfMiddle
    Seeded = {1, 2, 3}
    Keys = {k1}
    Quoted = {}
    Kinds = {"insert"}
    Editing = "between"
    MaxEdits = 3
    MaxLen = 4
    MaxFaults = 0
INVARIANTS
    SupersededStaysSuperseded
CHECK_DEADLOCK FALSE
