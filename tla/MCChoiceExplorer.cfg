SPECIFICATION Spec
CONSTANTS
    N = 7
    MaxOptions <- TwoOrThree
    None = None
    MaxTries = None
    HasDeadline = TRUE
INVARIANTS
    TypeOK
    StringMatchesChoices
    IInv
    NoAssertionFails
    NothingUnconfirmed
    EffortBound
PROPERTIES
    DecidedIsFinal
    ImplementsPromise
    Returns
CHECK_DEADLOCK FALSE
