CONSTANTS
  Targets = {t1, t2}
  NULL = NULL
  MaxList = 2
  Faults = {}
  CleanupFaults = FALSE
  Semihosting = TRUE
  EofInSyscall = FALSE
  QuickReopen = FALSE
SPECIFICATION Spec
INVARIANT SyscallAnswered
CHECK_DEADLOCK FALSE
