SPECIFICATION Spec
CONSTANTS
    Procs = {p1}
    Entries <- MCEntries
    GpgIdChoices <- KeyLists
    Keys = {k1, k2}
    Suffixed <- MCSuffixed
    Commands = {"init", "insert", "remove", "remove_recursive", "copy", "rename", "edit",
                "backup", "restore", "import"}
    Rekeying = FALSE
    MaxSecrets = 2
    MaxBatch = 1
    MaxFaults = 1
SYMMETRY KeySymmetry
INVARIANTS
    TypeOK
    OnlyFailuresLeaveDirt
    RecipientsInScope
PROPERTIES
    LostOnPurpose
    RotationSeals
