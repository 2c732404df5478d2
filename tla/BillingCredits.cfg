SPECIFICATION Spec
CONSTANTS
    TopTier = 2
    Cap = 2
    Grace = 1
    Concurrency = 2
    MaxSubs = 1
    MaxWork = 3
    MaxPeriods = 2
    MaxRetries = 1
    MaxAsked = 1
    MaxTime = 1
CHECK_DEADLOCK FALSE
INVARIANT CreditedOnce
