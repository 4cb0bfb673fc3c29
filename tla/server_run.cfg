SPECIFICATION FairSpec
CONSTANTS
    Requests = {r1, r2, r3}
    BridgeModes = {TRUE, FALSE}
INVARIANTS TypeOK SessionKept CleanReturn
PROPERTIES SignalEndsRun SessionsEndClosed
CHECK_DEADLOCK FALSE
