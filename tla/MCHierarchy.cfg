SPECIFICATION MFairSpec
CONSTANTS
  Lines = 3
  Offsets = {0, 1}
  Code = {0}
  L1Sets = 1
  L1Ways = 1
  L1Mshrs = 1
  L1Wbq = 2
  L1Fast = TRUE
  L2Sets = 1
  L2Ways = 1
  L2Mshrs = 2
  L2Wbq = 1
  L2Fast = FALSE
  DramFast = FALSE
  MaxData = 3
  MaxFetches = 1
INVARIANTS
  EachRefillHasOneAnswer
  FetchesGetTheirCode
PROPERTIES
  RefinesArrival
  EverythingAnswered
