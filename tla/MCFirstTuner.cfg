SPECIFICATION Spec
CONSTANTS
    N = 14
    MaxOptions <- SomeSkipped
    MergeLength = 6
INVARIANTS
    TypeOK
    DecidedIsAccepted
    DepthBound
PROPERTIES
    ImplementsPromise
    Returns
CHECK_DEADLOCK FALSE
