CONSTANTS
    c1 = c1
    c2 = c2
    h1 = h1
    h2 = h2
    Channels = {c1}
    Handlers = {h1}
    Ops <- MCSound
    MaxCommits = 3
    MaxFaults = 1
    Reorder = TRUE
    CrashEarly = FALSE
SPECIFICATION FairSpec
PROPERTIES
    CatchesUp
CHECK_DEADLOCK FALSE
