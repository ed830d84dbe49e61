CONSTANTS
    c1 = c1
    c2 = c2
    h1 = h1
    h2 = h2
    Channels = {c1, c2}
    Handlers = {h1}
    Ops <- MCSound
    MaxCommits = 3
    MaxFaults = 1
    Reorder = TRUE
    CrashEarly = FALSE
SPECIFICATION Spec
SYMMETRY MCSymmetry
INVARIANTS
    TypeOK
    Synchronized
    SyncInv
    DeletionSeen
CHECK_DEADLOCK FALSE
