SPECIFICATION MemSpec
CONSTANTS
  LsqSize = 2
  SbSize = 2
  Modes = {"Conservative"}
  GenMod = 65536
  MemBytes = 2
  Accesses <- SmallAccesses
  PortCap = 2
  MaxOps = 3
INVARIANT OneLoadInFlight
