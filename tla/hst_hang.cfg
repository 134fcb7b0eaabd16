SPECIFICATION FairSpec
CONSTANTS
  MaxLines = 3
  MaxBoots = 1
  Says = {"lobbyid", "start", "report", "log"}
  PipeCap = 2
  MsgCap = 1
  CmdCap = 1
  ShutdownHostsOnExit = FALSE
  Faults = {}
  Crashes = FALSE
PROPERTY FailedCheckEnds
CHECK_DEADLOCK FALSE
