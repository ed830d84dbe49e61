CONSTANTS
    c1 = c1
    c2 = c2
    h1 = h1
    h2 = h2
    Channels = {c1, c2}
    Handlers = {h1, h2}
    Ops <- MCSound
    MaxCommits = 3
    MaxFaults = 0
    Reorder = FALSE
    CrashEarly = FALSE
SPECIFICATION Spec
INVARIANTS
    Synchronized
CHECK_DEADLOCK FALSE
