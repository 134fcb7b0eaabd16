SPECIFICATION Spec
CONSTANTS
  MaxInst = 2
  MaxBoots = 2
  PortList <- TwoPorts
  NumQueues = 1
  MaxRunning = 2
  Requests = {}
  Keepalive = Keepalive
  ShutdownHostsOnExit = {FALSE}
  Faults = {}
  Crashes = TRUE
  Relists = FALSE
  MovedOutKnown = TRUE
INVARIANT TypeOK
INVARIANT SavedGameIsManaged
INVARIANT OneRoomPerQueue
INVARIANT LivePortsDistinct
PROPERTY OrphansOnlyUnsaved
PROPERTY LiveGameKeepsDirectory
CHECK_DEADLOCK FALSE
