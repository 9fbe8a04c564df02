SPECIFICATION Spec
CONSTANTS
  NumBlocks = 2
  Windows <- MCWindows
  GuardWorks = TRUE
  MaxMoves = 1
  Pids = {p1, p2}
  MaxBirths = 2
  MaxDowns = 1
  ForceFlag = FALSE
  Strangers = {"python", "other"}
  None = None
INVARIANTS AnnouncementsRight StoppedIsGone NoOrphanDaemon
PROPERTIES HarmsOnlyWhatItSaw DownStopsServers
CHECK_DEADLOCK FALSE
