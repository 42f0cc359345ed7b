SPECIFICATION FairSpec
CONSTANTS
    StartBalance = 3
    EventAmount = 1
    MaxBalance = 4
    Runner = {r1, r2}
    Path = {"direct", "delegated"}
    Floor = {2}
    Amount = {1, 3}
    None = None
    Events = {"spend", "incoming", "own", "replace", "drop", "active", "kill"}
    MaxBuilds = 1
    MaxRuns = 2
    MaxEdits = 1
    MaxEvents = 1
INVARIANTS
    TypeOK
    VerifiedIsExact
    EvidenceIsExact
    HandedKeepsFloor
    BundleMinedOnce
PROPERTIES
    RunEnds
CHECK_DEADLOCK FALSE
