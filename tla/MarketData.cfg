SPECIFICATION MCSpec
CONSTANTS
    Days = {1, 2, 3}
    Events <- MCEvents
    Lookback = 1
    Runs = {r1, r2}
    NoBar = NoBar
    MaxIngests = 2
    N = 2
    Series = {1, 2}
    Requests <- MCRequests
    MaxRuns = 2
    MaxNightly = 1
    MaxFaults = 1
    Stocks = {1, 2}
    Weights = {0}
    LastSession = 3
    Bundled = {1, 2}
    Seeded = {1}
    Open = Open
    w1 = w1
    w2 = w2
    Syncers = {w1, w2}
    MaxReports = 2
    MaxSyncs = 2
    MaxLoads = 1
    Prices = {1, 2}
    W = 2
    P = 2
    NoPrice = NoPrice
    MarketDays <- MCMarketDays
    Tables = {1, 2}
    Ahead = 2
    LastMonth = 4
    Specs <- MCSpecs
    Impacts = {2}
    MaxSignals = 1
SYMMETRY TwoRuns
CHECK_DEADLOCK FALSE
INVARIANTS
    WellFormed
    ReportsAreTrue
    
    OnlyNeglectFillsTheDefault
PROPERTIES
    HistoryIsAdjusted
    MembershipIsHistory
