\* A title that fits in 72 characters, but not with the marker in front of it.
CONSTANTS
    Texts <- NearText
    FirstTexts <- NearText
    MaxHead = 2
    MaxEdits = 0
    Jobs = {ci, c1}
    Chats = {c1}
    Users = {ann, bob}
    Approvers = {ann}
    Paths <- MCPaths
    Size <- MCSize
    FilesAt <- MCFilesAt
    DeltaAt <- MCDeltaAt
    Removed = {}
    Trivial = {"lock"}
    Ignored = {"gen"}
    Contexts <- MCContexts
    Reports <- MCReports
    Concurrency = 1
    MaxDiff = 3
    MinSeverity = 2
    MaxAttempts = 2
    MaxTurns = 2
    CheapTier = TRUE
    Agentic = TRUE
    MetadataEnabled = TRUE
    BodyRequired = FALSE
    Faults = {"host", "llm", "store"}
    Patches <- MCPatches
    MaxPatches = 1
    HasDispatcher = TRUE
SPECIFICATION Spec
INVARIANT MarkerNeverBlocks
CHECK_DEADLOCK FALSE
