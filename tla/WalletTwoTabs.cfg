SPECIFICATION FairSpec
CONSTANTS
    t1 = t1
    t2 = t2
    p1 = p1
    p2 = p2
    None = None
    Tab = {t1, t2}
    Approval <- MCApproval
    Amount = {2}
    Events = {"spend", "incoming", "own", "drop", "switch", "reload"}
    StartBalance = 3
    EventAmount = 1
    MaxBalance = 4
    MaxPlans = 2
    MaxPolicies = 1
    MaxEvents = 1
INVARIANTS
    TypeOK
    DecidedUnderApproval
    HashBelongsToPlan
    ConfirmedOnChain
    SignedKeepsFloor
    PlanMinedOnce
PROPERTIES
    PageComesBack
CHECK_DEADLOCK FALSE
