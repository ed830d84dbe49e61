CONSTANTS
    MaxSockets <- MCSockets
    MaxSent <- MCSent
    Late = FALSE
SPECIFICATION FairSpec
INVARIANTS
    TypeOK
    StatusTrue
PROPERTIES
    InOrder
    Connects
    EndsHear
CHECK_DEADLOCK FALSE
