SPECIFICATION FairSpec
CONSTANTS
    Requests = {1, 2, 3}
    NumBlocks = 4
    BlockSize = 1
    PromptLen <- Prompts
    SharedLen = 1
    EnableCaching = TRUE
    Watermark = 1
    Policy = "fcfs"
    Priority <- SamePriority
    MaxTokens = 2
    MaxModelLen = 4
    MaxNumSeqs = 3
    TokenBudget = 3
    LongPrefill = 0
    ReserveFullISL = TRUE
    AsyncScheduling = TRUE
    QueueSize = 2
    DeferBlockFree = TRUE
    RequiresDelivery = {FALSE, TRUE}
    RemoteReqs = {1}
    SendReqs = {2}
    RecomputeFailures = TRUE
    PauseStates = {"UNPAUSED"}
    MaxResets = 1
    Aborts = {1}
INVARIANTS
    BlocksExact
    AccountingExact
    ComputedIsWritten
    CachedIsComputed
    WritesOwned
    TransfersOwned
PROPERTIES
    DeliveredInOrder
    AllServed
