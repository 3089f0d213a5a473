CONSTANTS
    NoFile = NoFile
    NoUpload = NoUpload
    InitialConfigs <- OnlyAllEnabled
    ConfigEdits <- NoEdits
    OstreeIsStaging = FALSE
    UrlNamesEnvironment = TRUE
    Faults = {"save", "remove", "purge", "zeroed_tail", "answer", "kill"}
    MaxEvents = 3
    Large <- SecondLarge
    Oversized <- NoOversized
    MaxRequestPayload = 2
    GMaxSize = 100
    MaxBytesBuffered = 3
    MaxCacheSize = 3
    NetworkAttemptLimit = 1
    TimerTask = {tick}
    ExplicitTask = {ask}
    MaxProbes = 1
SPECIFICATION Spec
INVARIANTS
    DeliveredInOrder
