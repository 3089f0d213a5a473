CONSTANTS
    NoFile = NoFile
    NoUpload = NoUpload
    InitialConfigs <- OnlyAllEnabled
    ConfigEdits <- NoEdits
    OstreeIsStaging = FALSE
    UrlNamesEnvironment = TRUE
    Faults = {"save"}
    MaxEvents = 2
    Large <- NoLarge
    Oversized <- NoOversized
    MaxRequestPayload = 2
    GMaxSize = 100
    MaxBytesBuffered = 2
    MaxCacheSize = 2
    NetworkAttemptLimit = 2
    TimerTask = {tick}
    ExplicitTask = {ask}
    MaxProbes = 2
SPECIFICATION Spec
INVARIANTS
    OptOutLeavesNothing
