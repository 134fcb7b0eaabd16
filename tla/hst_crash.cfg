SPECIFICATION Spec
CONSTANTS
  MaxLines = 4
  MaxBoots = 2
  Says = {"lobbyid", "start", "report", "log"}
  PipeCap = 2
  MsgCap = 1
  CmdCap = 2
  ShutdownHostsOnExit = FALSE
  Faults = {"begin", "commit"}
  Crashes = TRUE
INVARIANT TypeOK
INVARIANT RowsPerCrash
INVARIANT SavedExitingWasTold
INVARIANT StateFollowsGame
PROPERTY ImplementsLineFeed
CHECK_DEADLOCK FALSE
