SPECIFICATION FairSpec
CONSTANTS
  NProcs = 2
  NThreads = 3
  ProcOf <- MCProcOf
  Word = {"x"}
  Line = {"l"}
  LineOf <- OneLine
  Byte = {0, 1}
  Footprint <- HalfOrAll
  IdFootprint = {0}
  Val = {1, 2}
  InitVal = 0
  MaxCrashes = 2
  EvictMax = 100
  GPF = FALSE
  Calls <- ThreadCalls
  MaxOps <- ThreadOps
  CanInsertCrash = {0, 1}
  CanToggle = {1}
INVARIANTS ReadsOwnWrites CrashLimit
PROPERTIES CallReturns
