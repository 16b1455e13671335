SPECIFICATION CSpec
CONSTANTS
  Lines = 3
  Offsets = {0, 1}
  Sets = 1
  Ways = 1
  Mshrs = 2
  WbCap = 2
  Combinational = FALSE
  SrcId = 1
  Shapes = {{0}, {0, 1}}
  MaxRequests = 3
INVARIANTS
  CopiesSound
PROPERTIES
  RefinesArrival
