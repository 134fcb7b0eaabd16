SPECIFICATION FairSpec
CONSTANTS
  MaxInst = 1
  MaxBoots = 1
  PortList <- OnePort
  NumQueues = 1
  MaxRunning = 2
  Requests = {}
  Keepalive = Keepalive
  ShutdownHostsOnExit = {FALSE}
  Faults = {}
  Crashes = FALSE
  Relists = FALSE
  MovedOutKnown = TRUE
PROPERTY ShutdownCompletes
CHECK_DEADLOCK FALSE
