SPECIFICATION RenameSpec
CONSTANTS
  NArch = 3
  PhysRegs = 6
  RobSize = 3
  MaxSeq = 5
INVARIANTS RegistersConserved MappingChain
PROPERTY RefinesCheckpoints
CHECK_DEADLOCK FALSE
