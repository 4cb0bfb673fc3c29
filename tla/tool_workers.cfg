SPECIFICATION Spec
CONSTANTS
    Calls = {c1, c2}
    Tools = {t1}
    Slow = {}
    ArgTimeouts = {0}
    ToolTimeouts <- MCToolTimeouts
    DefaultTimeout = 1
    MaxToolTimeout = 1
    MaxConcurrentTools = 1
    Transports = {"other"}
    Horizon = 1
INVARIANTS BoundedWorkers
CHECK_DEADLOCK FALSE
