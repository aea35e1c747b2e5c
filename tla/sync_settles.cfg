SPECIFICATION FairSpec
CONSTANTS
    Devices = {1, 2}
    Rank <- MCRank
    Paired <- AllPaired
    Seeded = {1}
    Keys = {k1}
    Quoted = {}
    Kinds = {"insert", "remove", "plain"}
    Editing = "stepwise"
    MaxEdits = 3
    MaxLen = 10
    MaxFaults = 1
PROPERTIES
    Convergence
