SPECIFICATION Spec
CONSTANTS
  Spawners = {s1, s2}
  Maps = {m1, m2}
  Nobody = Nobody
  MaxTime = 3
  MaxEpochs = 1
  MaxCalls = 3
INVARIANT TypeOK
INVARIANT OwnMap
PROPERTY FreshId
CHECK_DEADLOCK FALSE
