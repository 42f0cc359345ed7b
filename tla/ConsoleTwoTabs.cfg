SPECIFICATION Spec
CONSTANTS
    None = None
    Tab = {t1, t2}
    Intent = {i1, i2}
    Conditions = {c1}
    DefaultIntent = i1
    Floor = {0, 1}
    Transfer = {x1, x2}
    MaxActs = 5
    MaxRevisions = 2
    MaxRestarts = 1
INVARIANTS
    TypeOK
    ApprovalBindsProposal
    StageMatchesApproval
    TransactionBindsApproval
    SubmittedWasSent
    HistoryIsLineage
PROPERTIES
    ApprovedAsSeen
    LateResultKeepsRequest
CHECK_DEADLOCK FALSE
