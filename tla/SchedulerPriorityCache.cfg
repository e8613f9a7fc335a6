SPECIFICATION Spec
CONSTANTS
    Requests = {1, 2}
    NumBlocks = 7
    BlockSize = 1
    PromptLen <- LongShort
    SharedLen = 0
    EnableCaching = TRUE
    Watermark = 0
    Policy = "priority"
    Priority <- Rising
    MaxTokens = 2
    MaxModelLen = 7
    MaxNumSeqs = 2
    TokenBudget = 4
    LongPrefill = 2
    ReserveFullISL = FALSE
    AsyncScheduling = FALSE
    QueueSize = 1
    DeferBlockFree = FALSE
    RequiresDelivery = {FALSE}
    RemoteReqs = {}
    SendReqs = {}
    RecomputeFailures = TRUE
    PauseStates = {"UNPAUSED"}
    MaxResets = 0
    Aborts = {}
INVARIANTS
    CachedIsComputed
