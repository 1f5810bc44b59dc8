SPECIFICATION Spec
CONSTANTS
  NProcs = 2
  NThreads = 2
  ProcOf <- MCProcOf
  Word = {"x"}
  Line = {"l"}
  LineOf <- OneLine
  Byte = {0, 1}
  Footprint <- HalfOrAll
  IdFootprint = {0}
  Val = {1}
  InitVal = 0
  MaxCrashes = 1
  EvictMax = 100
  GPF = FALSE
  Calls <- CreateCalls
  MaxOps <- CreateOps
  CanInsertCrash = {}
  CanToggle = {}
INVARIANTS NoReadFails
