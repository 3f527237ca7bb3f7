SPECIFICATION Spec
CONSTANTS
    NumFunctions = 2
    NumNames = 2
    Value <- FourValues
    Order <- ByFunction
    Instances = 3
    Rounds = 3
    NumChoices <- TwoOrThree
    None = None
INVARIANTS
    TypeOK
    AlignedInFirstInstance
    AlignedUnlessReused
    ReportedOnce
    InRangeUnlessReused
    EntriesTakeEffect
CHECK_DEADLOCK FALSE
