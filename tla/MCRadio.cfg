SPECIFICATION MCSpec
CONSTANTS
  Device = {"ax25", "tnc", "gps"}
  Contents <- MCContents
  Noise <- MCNoise
  MaxRpt = 1
  BufLen = 8
  Clears = TRUE
  MaxFrames = 3
  MaxLine = 3
  Sizes = {1}
  MaxMessages = 2
  MaxFaults = 1
  MaxReports = 2
  MaxCopies = 2
  MaxSets = 2
CHECK_DEADLOCK FALSE
INVARIANT FreshCopy
PROPERTIES
  LinksKept
  NextArrives
  EventsLearnt
  DeleteReturns
