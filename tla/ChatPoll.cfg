\* The poller alone, kept going by its timer, through a restart, resets and purges.
CONSTANTS
    PRs = {p1, p2}
    Reviewed = {p1}
    Requests = {}
    MaxComments = 2
    MaxRestarts = 1
    Faults = {"review", "reset"}
    Deliveries = {1, 2}
    Capacity = 1
    Sqlite = FALSE
    StoreErrors = FALSE
SPECIFICATION FairSpec
PROPERTIES PolledMentionHandled
