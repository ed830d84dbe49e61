CONSTANTS
    c = c
    p = p
    Handlers <- MCHandlers
    Profiles <- MCProfiles
    Contacts = 3
    Buffer = 2
    MaxStops = 2
SPECIFICATION FairSpec
PROPERTIES
    AllQueued
CHECK_DEADLOCK FALSE
