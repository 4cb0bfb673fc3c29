SPECIFICATION FairSpec
CONSTANTS
    Callers = {a, b}
    Sessions = {s1, s2, s3}
    MaxFire = 1
    ReuseModes = {TRUE, FALSE}
    Tolerant = TRUE
    Replies = {"result", "toolError", "rpcError", "refused", "transient"}
    NoSession = NoSession
INVARIANTS TypeOK FireAccounting NoSessionLost FailedSessionIsDropped 
PROPERTIES EveryCallEnds
