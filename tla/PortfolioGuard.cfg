SPECIFICATION Spec
CONSTANTS
    Caller = {c1, c2}
    c1 = c1
    c2 = c2
    Policy <- MCPolicy
    Offered <- MCOffered
    Written <- MCWritten
    Fork = "pinned"
    Move <- MCMove
    Claim <- MCClaim
    StartValue = 2
    MaxValue = 2
    MaxClock = 2
    MaxEntries = 3
    MaxWork = 4
SYMMETRY MCSymmetry
INVARIANTS
    TypeOK
    
    LimitsHoldOnChain
    CoverageDoesNotMatter
    SeriesIsItsSteps
CHECK_DEADLOCK FALSE
