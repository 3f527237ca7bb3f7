SPECIFICATION VerifiedSpec
CONSTANTS
    N = 3
    MaxOptions <- Two
    None = None
    MaxTries = None
    HasDeadline = FALSE
    Verifiers <- AnyVerifier
INVARIANTS
    FinalStringVerifies
CHECK_DEADLOCK FALSE
