SPECIFICATION Spec
CONSTANTS
    NProc = 2
    MaxThreads = 3
    Mutexes = {"m", "r", "e"}
    Conds = {"c"}
    CxlMem = {"m", "c"}
    MutexType <- SchedType
    Programs <- SchedPrograms
    MaxCrashes = 1
INVARIANTS
    MutualExclusion
    SetOwnerAsserts
    NoLostWakeUp
    JoinSound
    TokenAlive
    ResetAfterAll
PROPERTIES
    RunningGetsToken
    MutexRefinement
CHECK_DEADLOCK FALSE
