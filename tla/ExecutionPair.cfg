SPECIFICATION FairSpec
CONSTANTS
    wallet = wallet
    token = token
    alice = alice
    c1 = c1
    c2 = c2
    p1 = p1
    p2 = p2
    w1 = w1
    w2 = w2
    Address <- MCAddress
    Chain <- MCChain
    Block <- MCBlock
    Proposal <- MCProposal
    MaxUint = 6
    Wallet = wallet
    Token = token
    Recipients = {alice}
    NodeChain = c1
    TransferGas = 2
    StartBalance = 3
    EventAmount = 1
    Stamps = {1}
    Worker = {w1, w2}
    Request <- TwoWorkerRequests
    Events = {}
    Faults = {"transport", "responseLost", "crash"}
    MaxRuns = 2
    MaxEvents = 0
    MaxFaults = 1
INVARIANTS
    DecidedOnRestoredChain
PROPERTIES
    IsOnceGate
    ExecutionEnds
CHECK_DEADLOCK FALSE
