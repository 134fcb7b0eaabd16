SPECIFICATION Spec
CONSTANTS
  i1 = i1
  i2 = i2
  Insts <- OneRoom
  Players = {p1}
  Nobody = Nobody
  Bans <- TwoBans
  MaxTime = 1
  MaxEvents = 3
  MaxMoves = 1
  Prefs <- RoomPrefs
  MutedIPs = {p1}
  Proxies = {p1}
  Relists = {i2}
  Faults = {"key", "bans", "isp", "limited", "terminated"}
INVARIANT TypeOK
INVARIANT NoStaleGrant
PROPERTY DecisionRespects
CHECK_DEADLOCK FALSE
