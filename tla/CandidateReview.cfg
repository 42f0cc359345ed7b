SPECIFICATION Spec
CONSTANTS
    wallet = wallet
    token = token
    alice = alice
    c1 = c1
    c2 = c2
    b1 = b1
    p1 = p1
    p2 = p2
    p3 = p3
    Address <- MCAddress
    Chain <- MCChain
    Block <- MCBlock
    Proposal <- MCProposal
    MaxUint = 3
    Wallet = wallet
    Token = token
    Approvals <- MCApprovals
    NodeChain = c1
    MaxEdits = 2
INVARIANTS
    TypeOK
    AcceptedKeepsFloor
    UneditedVerdict
PROPERTIES
    NoSubstitutionSurvives
CHECK_DEADLOCK FALSE
