SPECIFICATION MQFairSpec
CONSTANTS
  NumLocal = 2
  Remote = {}
  MaxChunks = 2
  MaxMessages = 4
  Closing = {0}
INVARIANT NoOverwrite
PROPERTIES Implements Delivered
CHECK_DEADLOCK FALSE
