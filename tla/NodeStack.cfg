SPECIFICATION FairSpec
CONSTANTS
  Programs <- MCPrograms
  MaxExecution = 8
  SaveAt = {0, 2, 3, 5}
  IndMod = 65536
  ChoiceMod = 256
  MaxRestarts = 2
INVARIANTS TypeOK LastBacktrackDeepest ReplayMatches NoLeafTwice SearchComplete
PROPERTIES SearchEnds
CHECK_DEADLOCK FALSE
