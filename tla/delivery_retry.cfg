SPECIFICATION FairSpec
CONSTANTS
    Endpoints = {p1}
    Events = {e1}
    Workers = {w1}
    Topic <- PaidTopic
    TopicLists <- Written
    LowerTrim <- Normal
    MailTopics <- OnlyPaid
    Enabled = TRUE
    GuardOn = TRUE
    EvalKnown = TRUE
    None = None
    MaxAttempts = 2
    MaxUpdates = 0
    MaxTroubles = 0
CHECK_DEADLOCK FALSE
PROPERTIES FailedIsRetried
