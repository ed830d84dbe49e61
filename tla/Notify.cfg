CONSTANTS
    c = c
    p = p
    Handlers <- MCHandlers
    Profiles <- MCProfiles
    Contacts = 3
    Buffer = 2
    MaxStops = 2
SPECIFICATION FairSpec
INVARIANTS
    TypeOK
    NothingLost
PROPERTIES
    KeepsPromise
    Forwarded
    HandlersGoOn
CHECK_DEADLOCK FALSE
