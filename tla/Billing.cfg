SPECIFICATION Spec
CONSTANTS
    TopTier = 2
    Cap = 2
    Grace = 1
    Concurrency = 2
    MaxSubs = 2
    MaxWork = 5
    MaxPeriods = 2
    MaxRetries = 1
    MaxAsked = 2
    MaxTime = 2
CHECK_DEADLOCK FALSE
INVARIANTS TypeOK TierFollows PurgeMeansUnpaid PeriodGrantedOnce
CONSTRAINT Fresh
