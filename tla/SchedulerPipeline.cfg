SPECIFICATION Spec
CONSTANTS
    Requests = {1, 2, 3}
    NumBlocks = 7
    BlockSize = 1
    PromptLen <- LongShort
    SharedLen = 1
    EnableCaching = TRUE
    Watermark = 0
    Policy = "priority"
    Priority <- Rising
    MaxTokens = 2
    MaxModelLen = 7
    MaxNumSeqs = 3
    TokenBudget = 4
    LongPrefill = 2
    ReserveFullISL = FALSE
    AsyncScheduling = FALSE
    QueueSize = 3
    DeferBlockFree = FALSE
    RequiresDelivery = {FALSE}
    RemoteReqs = {3}
    SendReqs = {}
    RecomputeFailures = FALSE
    PauseStates = {"UNPAUSED", "PAUSED_NEW", "PAUSED_ALL"}
    MaxResets = 0
    Aborts = {1}
INVARIANTS
    QueuesExact
    StepExact
    PrefixClosed
