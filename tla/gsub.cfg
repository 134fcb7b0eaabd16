SPECIFICATION FairSpec
CONSTANTS
  Runners = {r1, r2}
  MaxConns = 2
  NumPlayers = 2
  MaxReports = 1
  MaxCrashes = 1
  Faults = {"json", "begin", "insert", "commit", "save", "update"}
INVARIANT TypeOK
INVARIANT ExhaustedByEnds
INVARIANT EndedIsFinal
PROPERTY LinesEnd
CHECK_DEADLOCK FALSE
