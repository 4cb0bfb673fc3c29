SPECIFICATION Spec
CONSTANTS
    d1 = d1
    d2 = d2
    d3 = d3
    read = read
    write = write
    Requests = {r}
    Digests = {d1, d2, d3}
    Tools = {read, write}
    Names = {"alice", "bob", "carol", "env-bob", "Bad Name"}
    WellNamed = {"alice", "bob", "carol", "env-bob"}
    Reserved = {"env-bob"}
    AttrMaps = {"plain", "other", "shapeless", "vetoed", "fatal"}
    Shaped = {"plain", "other", "vetoed", "fatal"}
    Verdict <- MCVerdict
    Files <- MCFiles
    Asks <- MCAsks
    MaxTokenTTL = 0
    AllowNonTool = FALSE
    MaxClock = 1
    MaxVersion = 2
INVARIANTS TypeOK GrantedExactly OwnIdentity
