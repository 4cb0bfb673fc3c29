SPECIFICATION FairSpec
CONSTANTS
    Calls = {c1}
    Tools = {t1, t2}
    Slow = {t2}
    ArgTimeouts = {0, 1, 9}
    ToolTimeouts <- MCToolTimeouts
    DefaultTimeout = 1
    MaxToolTimeout = 3
    MaxConcurrentTools = 1
    Transports = {"post", "propagated", "other"}
    Horizon = 7
INVARIANTS AnswerCause
PROPERTIES EveryCallAnswered NothingLeftBehind
CHECK_DEADLOCK FALSE
