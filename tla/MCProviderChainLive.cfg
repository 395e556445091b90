CONSTANTS
    Turns = {t1}
    Tiers <- OneTier
    TierOf <- Together
    Requests <- Whole
    N = 2
    Priority <- Order2
    Local <- Second
    RetryAttempts = 3
    FailureThreshold = 2
    Persisted = FALSE
    Demotable <- None
    Pooled <- None
    Errors <- BlipQuota
SPECIFICATION FairSpec
PROPERTIES RecoverableIsProbed ImplementsFailoverLive
