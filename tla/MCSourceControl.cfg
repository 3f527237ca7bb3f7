SPECIFICATION Spec
CONSTANTS
    f = f
    xf = xf
    fx = fx
    g = g
    Function = {f, xf, fx, g}
    Kind = {1, 2}
    Level = {0, 1}
    EndsWith <- Ends
    StartsWith <- Starts
    Newlines <- EitherWay
    CodeLines = 2
    MaxChoices = 2
    MaxExperiments = 2
    None = None
INVARIANTS
    TypeOK
    ApartKeepsChoices
    CodeSurvives
CHECK_DEADLOCK FALSE
