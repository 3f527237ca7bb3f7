SPECIFICATION Spec
CONSTANTS
    NumParams = 2
    NumLoops = 4
    LoopInstance = 1
INVARIANTS
    TypeOK
    ModuleVerifies
    StrongestFirst
    ChosenIsParallel
    ParallelIsChosen
PROPERTIES
    KnownIsKept
CHECK_DEADLOCK FALSE
