SPECIFICATION LauncherSpec
CONSTANTS
  Scans = {s1, s2}
  Codes = {2}
  WordBytes = 2
  FrameSizes = {1, 2}
  FramePipe = 3
  KeyPipe = 2
  MaxKeys = 4
  MaxFrames = 2
  MaxEvents = 3
  MaxInterrupts = 1
INVARIANTS
  KeysPaired
  NothingLeftBehind
PROPERTIES
  RefinesSession
  LauncherReturns
  LastFrameShown
CHECK_DEADLOCK FALSE
