\* Webhooks and the poller on reviewed pull requests, around a restart; the
\* dedup table may fail.
CONSTANTS
    PRs = {p1}
    Reviewed = {p1}
    Requests = {r1, r2}
    MaxComments = 3
    MaxRestarts = 1
    Faults = {"known", "list"}
    Deliveries = {1, 2, 3}
    Capacity = 1
    Sqlite = TRUE
    StoreErrors = TRUE
SPECIFICATION Spec
INVARIANTS HandledAtMostOnce ReplayNeedsLateWebhook
