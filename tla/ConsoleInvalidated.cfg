SPECIFICATION Spec
CONSTANTS
    None = None
    Tab = {t1, t2}
    Intent = {i1}
    Conditions = {}
    DefaultIntent = i1
    Floor = {0, 1}
    Transfer = {x1}
    MaxActs = 4
    MaxRevisions = 1
    MaxRestarts = 0
INVARIANTS
    NoSendUnderInvalidApproval
CHECK_DEADLOCK FALSE
