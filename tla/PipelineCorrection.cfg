SPECIFICATION Spec
CONSTANTS
    None = None
    s1 = s1
    s2 = s2
    Stocks = {s1}
    Traded = {s1}
    Workers = {w1}
    MinCoveragePct = 50
    MaxNullPct = 10
    MaxMissingPct = 50
    FlawedBars <- MCFlawedBars
    MaxRetries = 1
    MaxFetchFaults = 0
    MaxFlaws = 0
    MaxErrors = 0
    MaxCrashes = 0
    MaxLostTriggers = 0
    MaxRevisions = 1
    MaxUpsets = 1
CHECK_DEADLOCK FALSE
INVARIANTS
    CorrectionsReachFactors
