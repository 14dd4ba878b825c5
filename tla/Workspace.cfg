SPECIFICATION MCSpec
CONSTANTS
    Parts = {"ingest", "tag", "rate", "bus", "score", "edit", "tools", "session"}
    Articles <- MCArticles
    NoUrl = NoUrl
    Feeds <- MCFeeds
    Companies <- MCCompanies
    Listed <- MCListed
    Tickers = {"BOI", "KALYAN"}
    SUFFIXES = {"ltd", "limited"}
    Descriptors = {"india", "of"}
    Models = {"dev", "finbert"}
    Taggers = {t1, t2}
    Scorers = {s1, s2}
    TicksPerHour = 3
    Limit = 2
    BatchSize = 1
    LastTick = 7
    MaxMisses = 2
    Idle = Idle
    Topics = {"prices", "scored", "free"}
    Handlers <- MCHandlers
    Backends = {"in_process", "redis_streams", "kafka"}
    Readers = {r1, r2}
    Count = 2
    NoGroup = NoGroup
    MaxEvents = 2
    MaxFaults = 1
    Stocks = {"a", "b", "c", "d"}
    PeerGroup <- MCGroups
    Factors <- MCFactors
    Raws = {1, 3, 7}
    Missing = Missing
    FirstInputs <- MCInputs
    Full = 12
    Winsor = 4
    MaxRevisions = 1
    Names = {1, 2, 3}
    SectorOf <- MCSectors
    One = 10
    Eps = 2
    Fine = 2
    Tol = 1
    MaxShort = 3
    None = None
    Clients = {c1, c2}
    Bodies <- MCBodies
    Requests <- MCRequests
    Markets <- MCMarkets
    Thresholds = {0, 2}
    Days = {1}
    Spellings = {"a@x", "A@x"}
    Lower <- MCLower
    Tabs = {b1, b2}
    TTL = 1
    LastInstant = 1
    MaxTokens = 3
SYMMETRY Twins
CHECK_DEADLOCK FALSE
INVARIANTS
    WellFormed
    LateRunsLeaveNoGap
    LinksAreNamed
    EventsAreAccountedFor
    ScoresExplainThemselves
    BookIsSound
    OptimizerAnswersAreTrue
    AnalysesAddUp
    SessionsAreSound
PROPERTIES
    SignalIsStable
