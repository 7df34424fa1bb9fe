\* Two chat commands, an operator and a review on the learnings store; or the
\* overlapping builds of two reviews on a shared cache.
CONSTANTS
    Backends = {"memory", "sqlite", "dynamodb"}
    Chats = {c1, c2}
    Texts = {"t1", "t2", "long"}
    TooLong = {"long"}
    MaxId = 3
    ScanPage = 1
    MaxJobs = 4
    Reviews = {r1, r2}
    Heads = {"h1", "h2", "h3"}
    NSymbols = 3
    Snippet <- MCSnippet
    OutOfRange = OutOfRange
    Models = {m1, m2}
    Batch = 2
    Chunk = 2
    TopK = 2
    MaxRestarts = 1
SYMMETRY Symmetry
SPECIFICATION MCSpec
INVARIANTS ContextIsOfThisHead IdNamesOneText ForgottenStaysOut
CHECK_DEADLOCK FALSE
