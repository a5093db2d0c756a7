SPECIFICATION FairSpec
CONSTANTS
    Keys = {k1}
    Workers = {w1}
    Clients = {c1}
    Stamps <- LiveStamps
    MaxAttempts = 2
    Concurrency = 1
    MaxRequests = 2
    MaxTroubles = 2
CHECK_DEADLOCK FALSE
PROPERTIES TasksSettle
