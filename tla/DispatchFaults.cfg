\* Two jobs and the one permit of AR_REVIEW_CONCURRENCY=0; every call may fail
\* and either job may panic, but nothing hangs and the process stays up.
CONSTANTS
    Jobs = {j1, j2}
    PRs = {p1}
    Commits = {1, 2}
    NoCommit = NoCommit
    Anc <- LineAnc
    ConcurrencyLimit = 0
    Durable = TRUE
    ForcePush = FALSE
    Faults = {"history", "compare", "prepare", "diff", "review", "record", "panic"}
    MaxRestarts = 0
SPECIFICATION FairSpec
INVARIANTS TypeOK PermitsConserved PendingIsOwned ObservationsAddUp
PROPERTIES EveryJobEnds PendingResolves
