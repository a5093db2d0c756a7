SPECIFICATION Spec
CONSTANTS
    Keys = {k1, k2}
    Workers = {w1, w2}
    Clients = {c1, c2}
    Stamps <- LiveStamps
    MaxAttempts = 1
    Concurrency = 1
    MaxRequests = 2
    MaxTroubles = 1
SYMMETRY Symmetry
CHECK_DEADLOCK FALSE
INVARIANTS NothingLost  SingleCopy
