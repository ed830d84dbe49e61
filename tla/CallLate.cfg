CONSTANTS
    MaxSockets <- MCSockets
    MaxSent <- MCSent
    Late = TRUE
SPECIFICATION Spec
INVARIANT StatusTrue
CHECK_DEADLOCK FALSE
