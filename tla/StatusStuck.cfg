CONSTANTS
    a = a
    b = b
    c1 = c1
    c2 = c2
    c3 = c3
    w1 = w1
    w2 = w2
    w3 = w3
    w4 = w4
    w5 = w5
    Accounts = {a, b}
    Conns = {c1, c3}
    Workers = {w1, w5}
    Owner <- MCOwner
    RingMode <- MCRing
    Task <- MCTask
    Fails = FALSE
SPECIFICATION FairSpec
PROPERTY StatusSent
CHECK_DEADLOCK FALSE
