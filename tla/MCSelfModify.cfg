SPECIFICATION FSpec
CONSTANTS
  Words = 6
  BlockWords = 2
  Kind <- MCKind
  Target <- MCTarget
  Returns <- MCReturns
  Patches <- MCNoBranch
  FetchQSize = 4
  RobSize = 3
  MaxHist = 2
  RasRepair = TRUE
  MaxBlocks = 7
PROPERTIES
  RunsTheNewCode
CHECK_DEADLOCK FALSE
