SPECIFICATION FairSpec
CONSTANTS
  MaxInst = 2
  MaxBoots = 1
  PortList <- OnePort
  NumQueues = 0
  MaxRunning = 2
  Requests = {r1}
  Keepalive = Keepalive
  ShutdownHostsOnExit = {TRUE, FALSE}
  Faults = {"start", "generate", "pipes"}
  Crashes = FALSE
  Relists = FALSE
  MovedOutKnown = FALSE
INVARIANT RegistryPortsDistinct
INVARIANT StopReachesAll
INVARIANT InstancesHaveOwners
PROPERTY DeadGameIsForgotten
PROPERTY ShutdownCompletes
CHECK_DEADLOCK FALSE
