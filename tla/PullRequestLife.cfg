\* One CI review, one mention that may queue another, one edit and one push.
CONSTANTS
    Texts <- TwoTexts
    FirstTexts <- FirstText
    MaxHead = 2
    MaxEdits = 1
    Jobs = {ci, c1}
    Chats = {c1}
    Users = {ann, bob}
    Approvers = {ann}
    Paths <- MCPaths
    Size <- MCSize
    FilesAt <- MCFilesAt
    DeltaAt <- MCDeltaAt
    Removed = {}
    Trivial = {"lock"}
    Ignored = {"gen"}
    Contexts <- MCContexts
    Reports <- MCReports
    Concurrency = 1
    MaxDiff = 3
    MinSeverity = 2
    MaxAttempts = 2
    MaxTurns = 2
    CheapTier = TRUE
    Agentic = TRUE
    MetadataEnabled = TRUE
    BodyRequired = FALSE
    Faults = {"host", "llm", "store"}
    Patches <- MCPatches
    MaxPatches = 1
    HasDispatcher = TRUE
SPECIFICATION FairSpec
INVARIANTS FindingsAccounted IgnoredStayOut ApprovalIsEarned MarkerIsOverride
PROPERTIES ImplementsMarker EveryReviewEnds EveryMentionAnswered
CHECK_DEADLOCK FALSE
