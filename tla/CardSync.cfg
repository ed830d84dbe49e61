CONSTANTS
    a = a
    b = b
    Cards <- MCCards
    Focused <- MCFocused
    MaxChannel = 3
    MaxCard = 3
    MaxStops = 1
SPECIFICATION FairSpec
INVARIANTS
    TypeOK
    CopyCurrent
    NothingForgotten
    LoopInv
PROPERTIES
    EventuallyShown
CHECK_DEADLOCK FALSE
