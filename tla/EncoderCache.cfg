SPECIFICATION FairSpec
CONSTANTS
    Requests = {1, 2}
    NumItems = 3
    Inputs <- Competing
    Size <- OneLarge
    ItemLen = 2
    CacheSize = 3
    Budget = 3
    Policy = "fcfs"
    DisableChunked = {FALSE, TRUE}
    QueueSize = 2
    MaxShortages = 2
    MaxResets = 1
INVARIANTS
    SlotsExact
    ReferencesExact
PROPERTIES
    NoEncoderCacheMiss
    PrefillEnds
