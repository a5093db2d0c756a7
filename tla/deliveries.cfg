SPECIFICATION FairSpec
CONSTANTS
    Endpoints = {p1}
    Events = {e1}
    Workers = {w1, w2}
    Topic <- PaidTopic
    TopicLists <- Written
    LowerTrim <- Normal
    MailTopics <- OnlyPaid
    Enabled = TRUE
    GuardOn = TRUE
    EvalKnown = TRUE
    None = None
    MaxAttempts = 2
    MaxUpdates = 1
    MaxTroubles = 2
CHECK_DEADLOCK FALSE
INVARIANTS  AttemptsBounded ScheduledIsTried
PROPERTIES ImplementsLease LocksAreFreed
