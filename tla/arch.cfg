SPECIFICATION Spec
CONSTANTS
  Dirs = {d1, d2}
  Nobody = Nobody
  Files = {1, 2}
  Json = 1
  PipeLog = 2
  Size <- Sizes
  MaxBoots = 2
  Faults = {"drain", "open", "read", "write", "remove"}
SYMMETRY DirSymmetry
INVARIANT TypeOK
INVARIANT NothingLost
PROPERTY StaysReadable
CHECK_DEADLOCK FALSE
