SPECIFICATION DataSpec
CONSTANTS
    MemSize = 26
    MaxLen = 10
    FillBytes = {0, 1, 128, 255}
    WordBytes = 8
    MaxStores = 2
    Keys = {0, 1, 2, 4, 6}
    Vals = {0, 1}
    HashOf <- DataHash
    InitBuckets = 2
    Nodes = {n1, n2, n3, n4}
    Items = {1, 2}
    NULL = NULL
    VElems = {1, 2}
    VECTOR_DEFCAP = 2
    MaxVec = 4
    MaxContexts = 2
INVARIANTS
    PiecesAddUp
    HashIsMap
    ListIsSequence
    VectorIsSequence
    LoadBytesRight
    StorageValid
PROPERTIES
    SetupReturns
CHECK_DEADLOCK FALSE
