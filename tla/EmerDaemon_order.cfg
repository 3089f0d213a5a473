CONSTANTS
    NoFile = NoFile
    NoUpload = NoUpload
    InitialConfigs <- OnlyAllEnabled
    ConfigEdits <- UploadingForbidden
    OstreeIsStaging = FALSE
    UrlNamesEnvironment = TRUE
    Faults = {"config_write","remove"}
    MaxEvents = 3
    Large <- SecondLarge
    Oversized <- NoOversized
    MaxRequestPayload = 2
    GMaxSize = 100
    MaxBytesBuffered = 3
    MaxCacheSize = 3
    NetworkAttemptLimit = 1
    TimerTask = {tick}
    ExplicitTask = {ask}
    MaxProbes = 2
SPECIFICATION Spec
INVARIANTS
    TypeOK
    StoredInOrder
    OptOutDiscards
    DeliveredInOrder
PROPERTIES
    SettingKept
