CONSTANTS
    StartSlots = 2
    MaxSlots = 3
    MaxRevision = 5
    Batch = 1
    Created <- MCCreated
    Name <- MCName
    Torn = FALSE
    Sweeps = FALSE
SPECIFICATION Spec
INVARIANTS
    TypeOK
    StoreCurrent
    ViewMatches
PROPERTIES
    WindowWidens
CHECK_DEADLOCK FALSE
