SPECIFICATION Spec
CONSTANTS
    NumParams = 1
    NumLoops = 1
    LoopInstance = 1
PROPERTIES
    PresentIsKept
CHECK_DEADLOCK FALSE
