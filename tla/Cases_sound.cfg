CONSTANTS
    None = None
    a = a
    b = b
    v = v
    w = w
    x = x
    PackedFiles <- PackedFilesUsed
    SourceExtensions <- SourceExtensionsUsed
    MaxBytes = 4
    MaxFileSize = 3
    MaxFiles = 2
    MaxUnpackedSize = 5
    MaxPacked = 4
    Releases <- ReleasesUsed
    DependencyVersions <- DependencyVersionsUsed
    MaxReleaseChanges = 4
    EmbedTasks = {a, b}
    EmbedTexts <- EmbedTextsUsed
    EmbedBatches <- EmbedBatchesUsed
    EmbedBatchSize = 2
    EmbedCacheSize = 2
    MaxEmbedCalls = 1
    TextTokens = {1, 2}
    ModelNames = {a, b}
    Junk = 99
    MaxLength = 2
    MaxTexts = 2
    MaxTokens = 3
    LoggedEntries <- LoggedEntriesUsed
    BufferSize = 1
    InsertSize = 2
    MaxLogged = 4
    MaxResults = 3
    Answers <- AnswersUsed
    Outcomes <- OutcomesUsed
    MaxSteps = 3
    Searches = {a, b}
    SearchTexts = {v, w, x}
    Providers <- ProvidersUsed
    Dimension = 3
    Dimensions = {3, 4}
    SearchRetries = 1
    SearchCacheSize = 2
    CacheTtl = 0
    MaxSearches = 2
    MaxSearchTime = 1
    StreamRows = {0, 1, 2, 3, 4, 5}
    Maxima = {0, 3, 4, 7}
    BatchItems = 2
    ChannelSize = 1
    AuditTasks = {a, b}
    EventTypes = {"PolicyViolation", "UserLogin"}
    Levels = {0, 4}
    MaxSize = 2
    MaxEvents = 3
SPECIFICATION Spec
INVARIANTS
    ChangesTold
    PagesComplete
    AnswersAgree
    

    
CHECK_DEADLOCK FALSE
