SPECIFICATION Spec
CONSTANTS
    a = a
    b = b
    NumPairs = 2
    Text = {a, b}
    Matches <- OneEach
    Code <- SomeCodes
    None = None
INVARIANTS
    TypeOK
    AcceptedIsCorrect
    RejectedIsWrong
