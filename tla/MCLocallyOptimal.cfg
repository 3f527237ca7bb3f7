SPECIFICATION VerifiedSpec
CONSTANTS
    N = 4
    MaxOptions <- TwoOrThree
    None = None
    MaxTries = None
    HasDeadline = FALSE
    Verifiers <- OneLimit
INVARIANTS
    LocallyOptimal
CHECK_DEADLOCK FALSE
