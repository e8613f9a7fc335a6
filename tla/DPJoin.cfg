SPECIFICATION FairSpec
CONSTANTS
  NumEngines = 2
  Clients = {c1}
  Requests = {r1}
  Aborts = {r1}
  Steps = 1
  SyncInterval = 2
  MaxPauses = 0
  PauseModes = {}
  MaxTicks = 0
  MaxFirst = 1
PROPERTIES RanksJoin
CHECK_DEADLOCK FALSE
