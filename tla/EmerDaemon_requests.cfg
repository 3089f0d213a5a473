CONSTANTS
    NoFile = NoFile
    NoUpload = NoUpload
    InitialConfigs <- OnlyAllEnabled
    ConfigEdits <- NoEdits
    OstreeIsStaging = FALSE
    UrlNamesEnvironment = TRUE
    Faults <- RequestFaults
    MaxEvents = 2
    Large <- NoLarge
    Oversized <- SecondOversized
    MaxRequestPayload = 1
    GMaxSize = 100
    MaxBytesBuffered = 3
    MaxCacheSize = 1
    NetworkAttemptLimit = 2
    TimerTask = {tick}
    ExplicitTask = {ask}
    MaxProbes = 2
SPECIFICATION FairSpec
INVARIANTS
    CallsAreJustified
    RequestsAreAttended
PROPERTIES
    RequestsComplete
    EventsGetOut
