SPECIFICATION Spec
CONSTANTS
    newer = newer
    older = older
    long = long
    rounded = rounded
    exact = exact
    NotFiled = NotFiled
    NoOne = NoOne
    Filings <- MCFilings
    FilingsOf <- MCFilingsOf
    Values <- MCValues
    Stored <- MCStored
    Workers = {w1}
    MaxAttempts = 2
    MaxRestatements = 0
    MaxUpsets = 0
CHECK_DEADLOCK FALSE
INVARIANTS
    VersionsDiffer
