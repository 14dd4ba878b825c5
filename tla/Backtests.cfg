SPECIFICATION FairSpec
CONSTANTS
    NoOne = NoOne
    b1 = b1
    b2 = b2
    Backtests <- MCBacktestIds
    Workers = {w1, w2}
    MaxRetries = 1
    MaxDbErrors = 1
    MaxCrashes = 1
    MaxRedeliveries = 1
    MaxLostSubmits = 1
CHECK_DEADLOCK FALSE
INVARIANTS
    RecordsAgree
    ComputedAtMostOnce
PROPERTIES
    LifecycleSpec
    EveryBacktestEnds
