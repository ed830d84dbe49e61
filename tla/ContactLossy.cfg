CONSTANTS
    alice = alice
    bob = bob
    f1 = f1
    f2 = f2
    f3 = f3
    f4 = f4
    f5 = f5
    Accounts = {alice, bob}
    Flows = {f1, f2, f3}
    By <- MCBy
    To <- MCTo
    Ops = {"add", "addConnect", "connect", "disconnect", "confirm", "deny", "ignore", "remove"}
    MaxCards = 2
    MaxActive = 2
    Overlap = FALSE
    Lossy = TRUE
SPECIFICATION Spec
INVARIANTS
    MutualConsent
    ConsentInv
    TokensOffered
PROPERTIES
    ImplementsRelationship
    WithdrawnStaysOut
CHECK_DEADLOCK FALSE
