\* One webhook request, one restart, and the poller.
CONSTANTS
    PRs = {p1}
    Reviewed = {p1}
    Requests = {r1}
    MaxComments = 2
    MaxRestarts = 1
    Faults = {}
    Deliveries = {1, 2}
    Capacity = 1
    Sqlite = FALSE
    StoreErrors = FALSE
SPECIFICATION Spec
INVARIANTS NoReplayAfterRestart
