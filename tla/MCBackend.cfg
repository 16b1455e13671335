SPECIFICATION BackFairSpec
CONSTANTS
  NArch = 3
  PhysRegs = 6
  RobSize = 4
  MaxSeq = 6
  NVals = 3
  LastPc = 4
  MemSize = 2
  InitMem <- SmallMem
  IqSize = 3
  LsqSize = 3
  SbSize = 2
  A0 = 1
  Programs <- SmallPrograms
INVARIANTS WorkMatchesEntries WaitsAreSound LateCaptureSafe
PROPERTIES EverythingLeaves RefinesInOrder WrittenOnce
CHECK_DEADLOCK FALSE
