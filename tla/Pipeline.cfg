SPECIFICATION FairSpec
CONSTANTS
    None = None
    s1 = s1
    s2 = s2
    Stocks <- MCStocks
    Traded <- MCStocks
    Workers = {w1, w2}
    MinCoveragePct = 50
    MaxNullPct = 10
    MaxMissingPct = 50
    FlawedBars <- MCFlawedBars
    MaxRetries = 1
    MaxFetchFaults = 2
    MaxFlaws = 1
    MaxErrors = 1
    MaxCrashes = 1
    MaxLostTriggers = 1
    MaxRevisions = 1
    MaxUpsets = 2
CHECK_DEADLOCK FALSE
INVARIANTS
    ChainIsOrdered
    ScoresCoverPrices
PROPERTIES
    NightSettles
