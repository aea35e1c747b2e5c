SPECIFICATION Spec
CONSTANTS
    Devices = {1, 2}
    Rank <- MCRank
    Paired <- AllPaired
    Seeded = {1, 2}
    Keys = {k1}
    Quoted = {}
    Kinds = {"insert"}
    Editing = "atomic"
    MaxEdits = 2
    MaxLen = 10
    MaxFaults = 0
INVARIANTS
    AckedInsertInHistory
