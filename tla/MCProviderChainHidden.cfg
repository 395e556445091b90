CONSTANTS
    Turns = {t1}
    Tiers <- OneTier
    TierOf <- Together
    Requests <- Whole
    N = 2
    Priority <- Order2
    Local <- None
    RetryAttempts = 2
    FailureThreshold = 2
    Persisted = FALSE
    Demotable <- None
    Pooled <- None
    Errors <- AuthOnly
SPECIFICATION Spec
PROPERTIES NoHiddenProvider
