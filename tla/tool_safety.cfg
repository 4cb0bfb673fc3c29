SPECIFICATION Spec
CONSTANTS
    Calls = {c1, c2}
    Tools = {t1}
    Slow = {}
    ArgTimeouts = {0}
    ToolTimeouts <- MCToolTimeouts
    DefaultTimeout = 1
    MaxToolTimeout = 1
    MaxConcurrentTools = 1
    Transports = {"post"}
    Horizon = 1
SYMMETRY Symmetry
INVARIANTS TypeOK SlotAccounting AbandonedIsTold
PROPERTIES AnswerIsFinal BoundedAdmission
CHECK_DEADLOCK FALSE
