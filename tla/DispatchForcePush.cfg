\* A branch may be rewritten while its review is in flight.
CONSTANTS
    Jobs = {j1}
    PRs = {p1}
    Commits = {1, 2, 3}
    NoCommit = NoCommit
    Anc <- ForkAnc
    ConcurrencyLimit = 1
    Durable = TRUE
    ForcePush = TRUE
    Faults = {}
    MaxRestarts = 0
SPECIFICATION Spec
INVARIANTS RecordedIsReviewed
