SPECIFICATION Spec
CONSTANTS
  i1 = i1
  i2 = i2
  Insts <- TwoRooms
  Players = {p1}
  Nobody = Nobody
  Bans = {}
  MaxTime = 0
  MaxEvents = 2
  MaxMoves = 2
  Prefs <- RoomPrefs
  MutedIPs = {}
  Proxies = {}
  Relists <- TwoRooms
  Faults = {}
PROPERTY ImplementsMovedOut
CHECK_DEADLOCK FALSE
