\* Three calls of two kinds on a moving branch, to each of four runtimes; and
\* the bounded set of deliveries, half the size of the deliveries in play.
CONSTANTS
    Calls = {i1, i2, i3}
    Commits = {c1, c2}
    CommentIds = {m1}
    NoComment = NoComment
    Modes <- MCModes
    Faults = {"store", "fetch", "work", "cancel", "expire", "payload"}
    MaxRestarts = 1
    Deliveries = {d1, d2, d3, d4}
    Capacity = 2
    Sqlite = FALSE
    StoreErrors = FALSE
    MaxPasses = 6
SYMMETRY CallSymmetry
SPECIFICATION MCSpec
INVARIANTS TypeOK OneRunPerRecord StoreConsistent RetryOutsideWindow
CHECK_DEADLOCK FALSE
