SPECIFICATION FairSpec
CONSTANTS
  NumEngines = 2
  Clients = {c1, c2}
  Requests = {r1, r2}
  Aborts = {}
  Steps = 1
  SyncInterval = 2
  MaxPauses = 0
  PauseModes = {}
  MaxTicks = 0
  MaxFirst = 1
INVARIANTS LockStep QuietAgrees
PROPERTIES AllServed RanksJoin
CHECK_DEADLOCK FALSE
