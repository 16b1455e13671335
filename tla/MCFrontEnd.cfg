SPECIFICATION FSpec
CONSTANTS
  Words = 6
  BlockWords = 2
  Kind <- MCKind
  Target <- MCTarget
  Returns <- MCReturns
  Patches <- MCRetargeted
  FetchQSize = 4
  RobSize = 3
  MaxHist = 2
  RasRepair = TRUE
  MaxBlocks = 7
INVARIANTS
  OnePath
  SpeculationUndone
  FaultIsReal
CHECK_DEADLOCK FALSE
