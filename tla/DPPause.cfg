SPECIFICATION FairSpec
CONSTANTS
  NumEngines = 2
  Clients = {c1}
  Requests = {r1}
  Aborts = {r1}
  Steps = 2
  SyncInterval = 2
  MaxPauses = 1
  PauseModes = {"abort", "wait", "keep"}
  MaxTicks = 1
  MaxFirst = 1
INVARIANTS CollectivesMatch PauseHolds
PROPERTIES PauseCompletes
CHECK_DEADLOCK FALSE
