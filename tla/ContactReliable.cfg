CONSTANTS
    alice = alice
    bob = bob
    f1 = f1
    f2 = f2
    f3 = f3
    f4 = f4
    f5 = f5
    Accounts = {alice, bob}
    Flows = {f1, f2, f3, f4, f5}
    By <- MCBy
    To <- MCTo
    Ops = {"addConnect", "disconnect"}
    MaxCards = 2
    MaxActive = 1
    Overlap = FALSE
    Lossy = FALSE
SPECIFICATION FairSpec
INVARIANTS
    TypeOK
    RevokedForGood
    TokensAgree
PROPERTY Established
CHECK_DEADLOCK FALSE
