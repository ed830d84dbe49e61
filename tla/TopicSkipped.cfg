CONSTANTS
    StartSlots = 2
    MaxSlots = 3
    MaxRevision = 4
    Batch = 1
    Created <- MCCreated
    Name <- MCName
    Torn = FALSE
    Sweeps = FALSE
SPECIFICATION Spec
INVARIANTS
    NothingSkipped
CHECK_DEADLOCK FALSE
