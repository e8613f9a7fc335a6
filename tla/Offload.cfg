SPECIFICATION OffFairSpec
CONSTANTS
    Requests = {1, 2}
    NumBlocks = 4
    BlockSize = 1
    PromptLen <- Prompts
    SharedLen = 2
    EnableCaching = TRUE
    Watermark = 0
    Policy = "fcfs"
    Priority <- SamePriority
    MaxTokens = 2
    MaxModelLen = 4
    MaxNumSeqs = 2
    TokenBudget = 3
    LongPrefill = 0
    ReserveFullISL = TRUE
    AsyncScheduling = TRUE
    QueueSize = 2
    DeferBlockFree = TRUE
    RequiresDelivery = {FALSE}
    RemoteReqs = {}
    SendReqs = {}
    RecomputeFailures = TRUE
    PauseStates = {"UNPAUSED"}
    MaxResets = 1
    Aborts = {1}
    NumChunks = 2
    ConnectorResets = {FALSE, TRUE}
INVARIANTS
    ReadyHolds
    PrefixPresent
    RefsExact
    JobsExact

    
