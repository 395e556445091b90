CONSTANTS
    Workers = {w1, w2}
    NoWorker = none
    Plans <- ShortPlans
    Rosters <- PoolOrProven
    MaxSteps = 3
    MaxReviews = 1
    MaxRetries = 2
    Shared = TRUE
SPECIFICATION FairSpec
INVARIANTS StepsExact BenchEarned
PROPERTIES FailsForCause RunEnds
