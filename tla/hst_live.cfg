SPECIFICATION FairSpec
CONSTANTS
  MaxLines = 3
  MaxBoots = 1
  Says = {"lobbyid", "lobbyerror", "debug", "log"}
  PipeCap = 2
  MsgCap = 1
  CmdCap = 1
  ShutdownHostsOnExit = FALSE
  Faults = {"save"}
  Crashes = FALSE
PROPERTY StopCompletes
PROPERTY DeadGameEnds
CHECK_DEADLOCK FALSE
