SPECIFICATION FairSpec
CONSTANTS
  Local = {0, 1}
  Remote = {}
  MaxChunks = 1
  MaxMessages = 2
  OutputRank = 1
  AsyncScheduling = TRUE
  NonBlock = {TRUE, FALSE}
  Faults = {"failure", "crash", "timeout"}
  Utility = TRUE
INVARIANT RepliesMatchUntilError
  
CHECK_DEADLOCK FALSE
