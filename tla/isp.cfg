SPECIFICATION FairSpec
CONSTANTS
  Runners = {r1, r2, r3}
  Addrs = {a1, a2}
  Nobody = Nobody
  MaxCalls = 3
  MaxBoots = 2
  PostCap = 1
  Readable = TRUE
  SaveFaults = TRUE
INVARIANT TypeOK
INVARIANT LookedUpOnce
INVARIANT LockIsWorkedWith
PROPERTY LinesEnd
PROPERTY PostsAreSent
CHECK_DEADLOCK FALSE
