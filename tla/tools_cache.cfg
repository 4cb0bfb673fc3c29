SPECIFICATION FairSpec
CONSTANTS
    Requests = {r1, r2}
    Tools <- MCTools
    Nobody = nobody
    Key = key
    Callers = {nobody, key}
    Permits <- MCPermits
    Asks <- MCAsks
    CacheTTL = 1
    None = none
INVARIANTS TypeOK ServedAccurately OnlyPermitted
PROPERTIES EveryRequestAnswered BecomesVisible
