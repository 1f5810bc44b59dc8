SPECIFICATION Spec
CONSTANTS
    NProc = 3
    MaxExecution = 4
    MaxRuns = 3
    StartNums <- LoopStarts
INVARIANTS
    FreshStart
    EachExecutionOnce
    StopsWhenExhausted
    NoOrphans
PROPERTIES
    LoopEnds
CHECK_DEADLOCK FALSE
