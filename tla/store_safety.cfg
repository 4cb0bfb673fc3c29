SPECIFICATION Spec
CONSTANTS
    Requests = {r1, r2}
    Retriers = {g1}
    Opener = open
    Keys = {k1}
    ShortLived = {k1}
    Expires <- MCExpires
    StatTTL = 1
    Faults = {"stat", "panic"}
    ClockMaySlip = FALSE
    MaxClock = 2
    MaxVersion = 2
SYMMETRY Symmetry
INVARIANTS TypeOK SingleFlight SigPinsContent FreshAfterStat CycleOutcome
PROPERTIES Authority
