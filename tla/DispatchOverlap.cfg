\* Two jobs of one pull request overlap; every call may fail, hang or lose its
\* answer, and the process restarts once on a durable history.
CONSTANTS
    Jobs = {j1, j2}
    PRs = {p1}
    Commits = {1, 2}
    NoCommit = NoCommit
    Anc <- LineAnc
    ConcurrencyLimit = 2
    Durable = TRUE
    ForcePush = FALSE
    Faults = {"history", "compare", "status", "prepare", "diff", "review", "record", "hang", "crash"}
    MaxRestarts = 1
SYMMETRY JobSymmetry
SPECIFICATION Spec
INVARIANTS RecordedIsReviewed
PROPERTIES ImplementsLedger
