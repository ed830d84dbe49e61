CONSTANTS
    alice = alice
    bob = bob
    f1 = f1
    f2 = f2
    f3 = f3
    f4 = f4
    f5 = f5
    Accounts = {alice, bob}
    Flows = {f1, f2, f3, f5}
    By <- MCBy
    To <- MCTo
    Ops = {"add"}
    MaxCards = 2
    MaxActive = 2
    Overlap = TRUE
    Lossy = FALSE
SPECIFICATION Spec
INVARIANT OneCardPerContact
CHECK_DEADLOCK FALSE
