CONSTANTS
    a = a
    b = b
    Cards <- MCCards
    Focused <- NoFocus
    MaxChannel = 3
    MaxCard = 3
    MaxStops = 0
SPECIFICATION Spec
PROPERTIES
    ResyncAttempted
CHECK_DEADLOCK FALSE
