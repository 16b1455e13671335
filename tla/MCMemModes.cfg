SPECIFICATION SetsFairSpec
CONSTANTS
  LsqSize = 3
  SbSize = 2
  Modes = {"Conservative", "Bypass", "Speculative"}
  GenMod = 65536
  MemBytes = 2
  Accesses <- FaultAccesses
  PortCap = 2
  MaxOps = 3
  WordBytes = 2
  Buckets = 2
INVARIANTS
  NeverPassesUnknownStore
  SetsExact
PROPERTIES
  RefinesSeqMemory
  EngineDrains
