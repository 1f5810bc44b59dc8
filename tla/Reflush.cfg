SPECIFICATION Spec
CONSTANTS
  NProcs = 2
  NThreads = 2
  ProcOf <- MCProcOf
  Word = {"x", "y"}
  Line = {"l"}
  LineOf <- OneLine
  Byte = {0}
  Footprint <- WholeWord
  IdFootprint = {0}
  Val = {1}
  InitVal = 0
  MaxCrashes = 1
  EvictMax = 100
  GPF = FALSE
  Calls <- ReflushCalls
  MaxOps <- ReflushOps
  CanInsertCrash = {}
  CanToggle = {}
INVARIANTS LostStaysLost
