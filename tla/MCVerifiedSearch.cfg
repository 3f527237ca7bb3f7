SPECIFICATION VerifiedSpec
CONSTANTS
    N = 5
    MaxOptions <- TwoOrThree
    None = None
    MaxTries = 8
    HasDeadline = TRUE
    Verifiers <- Varied
INVARIANTS
    MonotoneSucceeds
    AssertionMeansDropped
    ExactResult
CHECK_DEADLOCK FALSE
