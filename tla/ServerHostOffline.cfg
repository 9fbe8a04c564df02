SPECIFICATION Spec
CONSTANTS
  NumBlocks = 2
  Windows <- MCWindows
  GuardWorks = TRUE
  MaxMoves = 1
  Pids = {p1, p2}
  MaxBirths = 1
  MaxDowns = 0
  ForceFlag = FALSE
  Strangers = {"python", "other"}
  None = None
INVARIANT ClosedIsOffline
CHECK_DEADLOCK FALSE
