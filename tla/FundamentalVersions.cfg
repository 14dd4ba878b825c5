SPECIFICATION FairSpec
CONSTANTS
    newer = newer
    older = older
    long = long
    rounded = rounded
    exact = exact
    NotFiled = NotFiled
    NoOne = NoOne
    Filings <- MCFilings
    FilingsOf <- MCFilingsOf
    Values <- MCValues
    Stored <- MCStored
    Workers = {w1, w2}
    MaxAttempts = 3
    MaxRestatements = 1
    MaxUpsets = 1
CHECK_DEADLOCK FALSE
INVARIANTS
    VersionsAreAChain
    RevisionsAnnounced
PROPERTIES
    KnowledgeIsAppendOnly
    EveryAttemptEnds
