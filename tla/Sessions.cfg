CONSTANTS
  Targets = {t1, t2}
  NULL = NULL
  MaxList = 2
  Faults <- LinkFaults
  CleanupFaults = TRUE
  Semihosting = TRUE
  EofInSyscall = TRUE
  QuickReopen = TRUE
  Cases <- MCCases
  EscapedHash = FALSE
  Size = 2
  Window = 6
  GdbPacketSize = 2
  MaxFromHost = 4
  MaxToHost = 4
SPECIFICATION WorldSpec
INVARIANTS TargetPointersLive ListExact RepliesOwed MapSound HandlersFit GivenBack FramesExact
PROPERTIES Released Reported CloseIsSeen GdbStream
CHECK_DEADLOCK FALSE
