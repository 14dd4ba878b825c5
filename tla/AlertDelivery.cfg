SPECIFICATION FairSpec
CONSTANTS
    NoOne = NoOne
    NoRule = NoRule
    byMail = byMail
    inApp = inApp
    Rules <- MCRules
    EmailRules <- MCEmailRules
    Workers = {w1, w2}
    MaxNews = 1
    MaxSeconds = 1
    MaxRetries = 1
    MaxSendFaults = 1
    MaxCrashes = 1
    MaxDeletes = 1
    MaxLostTriggers = 1
    MaxUpsets = 1
CHECK_DEADLOCK FALSE
INVARIANTS
    DeliveryIsSound
    MatchingRuleFires
    SerialRunsNotifyOnce
PROPERTIES
    DayEnds
