CONSTANTS
    alice = alice
    bob = bob
    f1 = f1
    f2 = f2
    f3 = f3
    f4 = f4
    f5 = f5
    Accounts = {alice, bob}
    Flows = {f1, f2}
    By <- MCBy
    To <- MCTo
    Ops = {"addConnect"}
    MaxCards = 2
    MaxActive = 1
    Overlap = TRUE
    Lossy = FALSE
SPECIFICATION FairSpec
PROPERTY Established
CHECK_DEADLOCK FALSE
