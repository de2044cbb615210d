CONSTANTS
  Code <- MCCode
  BreakMax = 2
  WatchMax = 1
  Places <- MCPlaces
  MaxList = 3
  HwBreaks = 2
  HwWatches = 1
  Points <- MCPoints
  Physical = {0, 4}
  MaxPoints = 2
  Data <- MCData
  UpSize = 3
  DownSize = 2
  XmitSize = 2
  MaxUp = 4
  MaxDown = 2
  MaxFailures = 2
  rtt_max_poll_errs = 1
SPECIFICATION CoresSpec
INVARIANT StubFailureSeen
CHECK_DEADLOCK FALSE
