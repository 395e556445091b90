CONSTANTS
    Turns = {t1}
    Tiers <- TwoTiers
    TierOf <- Apart
    Requests <- OneOrAny
    N = 2
    Priority <- Order2
    Local <- Second
    RetryAttempts = 2
    FailureThreshold = 2
    Persisted = TRUE
    Demotable <- None
    Pooled <- First
    Errors <- GoneReject
SPECIFICATION Spec
INVARIANTS HealthAccounted  TurnAccounted FloorAsked
 
