SPECIFICATION Spec
CONSTANTS
    Main = main
    Helpers = {helper}
    Codes = {103, 204, 404}
    Configs <- MCConfigs
    Requests <- MCRequests
    MaxCalls = 2
INVARIANTS TypeOK WireUnchanged LineIsTrue PanicReported
CHECK_DEADLOCK FALSE
