CONSTANTS
    StartSlots = 1
    MaxSlots = 2
    MaxRevision = 3
    Batch = 1
    Created <- MCCreatedTwo
    Name <- MCNameTwo
    Torn = TRUE
    Sweeps = TRUE
SPECIFICATION FairSpec
PROPERTIES
    Settles
CHECK_DEADLOCK FALSE
