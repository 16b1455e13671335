SPECIFICATION MemSpec
CONSTANTS
  LsqSize = 3
  SbSize = 2
  Modes = {"Speculative"}
  GenMod = 65536
  MemBytes = 2
  Accesses <- SmallAccesses
  PortCap = 2
  MaxOps = 4
INVARIANTS SpeculationRepaired BufferedMemory ResponsesFindTheirOwner
PROPERTY RefinesSeqMemory
