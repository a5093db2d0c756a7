SPECIFICATION FairSpec
CONSTANTS
    Callers = {c1, c2, c3}
    ConfMinRequests = 3
    ConfRatioNum = 1
    ConfRatioDen = 2
    ConfOpenFor = 2
    ConfMaxAttempts = 2
INVARIANTS ProbeInFlight
PROPERTIES CoolOffRespected DoReturns BreakerRecovers
