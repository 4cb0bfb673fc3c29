SPECIFICATION FairSpec
CONSTANTS
    Requests = {r1}
    Retriers = {g1}
    Opener = open
    Keys = {k1}
    ShortLived = {}
    Expires <- MCExpires
    StatTTL = 1
    Faults = {"stat", "parent"}
    ClockMaySlip = TRUE
    MaxClock = 1
    MaxVersion = 2
PROPERTIES Converges
