SPECIFICATION Spec
CONSTANTS
    Callers = {a, b, d}
    Sessions = {s1, s2, s3}
    MaxFire = 1
    ReuseModes = {TRUE}
    Tolerant = FALSE
    Replies = {"result"}
    NoSession = NoSession
SYMMETRY Symmetry
INVARIANTS OthersSessionsKept
