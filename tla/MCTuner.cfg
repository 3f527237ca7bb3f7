SPECIFICATION Spec
CONSTANTS
    NumFiles = 2
    Rounds = 3
    Instances = 2
    idle = idle
    fast = fast
    Picks <- Outcomes
    Idle <- NoEffect
    MaxVersions = 2
    None = None
INVARIANTS
    TypeOK
    WrittenWasValidated
    LeftBehindIsVerified
PROPERTIES
    TrueMeansVerified
    Completes
CHECK_DEADLOCK FALSE
