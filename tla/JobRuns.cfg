SPECIFICATION FairSpec
CONSTANTS
    theKey = theKey
    NoMsg = NoMsg
    Tasks = {t1, t2}
    Workers = {w1, w2}
    Keys <- MCKeys
    KeyOf <- MCKeyOf
    MaxRetries = 1
    MaxCrashes = 1
    MaxRedeliveries = 1
CHECK_DEADLOCK FALSE
INVARIANTS
    TypeOK
    SucceededHasOutput
    NoSilentLoss
PROPERTIES
    EveryTaskSettles
    ContractSpec
