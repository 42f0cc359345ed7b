SPECIFICATION Spec
CONSTANTS
    t1 = t1
    t2 = t2
    p1 = p1
    p2 = p2
    None = None
    Tab = {t1, t2}
    Approval <- MCApproval
    Amount = {2}
    Events = {}
    StartBalance = 3
    EventAmount = 1
    MaxBalance = 3
    MaxPlans = 2
    MaxPolicies = 0
    MaxEvents = 0
PROPERTIES
    ConsumedStaysConsumed
CHECK_DEADLOCK FALSE
