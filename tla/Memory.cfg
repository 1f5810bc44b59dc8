SPECIFICATION MemorySpec
CONSTANTS
  NProcs = 2
  NThreads = 2
  ProcOf <- MCProcOf
  Word = {"x", "y"}
  Line = {"l"}
  LineOf <- OneLine
  Byte = {0, 1}
  Footprint <- WholeWord
  IdFootprint = {0}
  Val = {1, 2}
  InitVal = 0
  MaxCrashes = 1
  EvictMax = 100
  GPF = FALSE
  Calls <- EitherCalls
  MaxOps <- EitherOps
  CanInsertCrash = {}
  CanToggle = {1}
INVARIANTS TypeOK CutConsistent ReadsNewestSurvivor ReadFindsStore FlushDurable
PROPERTIES ConstraintsTighten CompletedStays
