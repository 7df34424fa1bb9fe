---------------------------- MODULE GatewayServe ----------------------------
(***************************************************************************)
(* The gateway's HTTP surface (ar-gateway/src/lib.rs, webhook.rs,          *)
(* ratelimit.rs, hmac.rs, metrics.rs): webhook deliveries through the      *)
(* token bucket, the signature check, delivery dedup and the event         *)
(* handlers; CI-triggered reviews; the cached readiness probe; and the     *)
(* metrics that review tasks write while a scrape reads them.              *)
(*                                                                         *)
(* Requests are handled concurrently and a handler may be dropped at any   *)
(* await when its client hangs up.  A request is known by its kind.        *)
(***************************************************************************)
EXTENDS GatewayLaunch

CONSTANTS
    Requests,       \* requests clients may send
    Kind,           \* Kind[r]: route and contents
    Loads,          \* the sets of requests sent together
    Burst, Rate,    \* AR_WEBHOOK_BURST, AR_WEBHOOK_RATE_PER_SEC
    TTL,            \* AR_READINESS_TTL_SECS
    MaxNow,         \* bound: seconds that pass
    Recorders,      \* review tasks that report an outcome
    ServeFaults     \* what may fail: "dedup", "host", "hangup"

ASSUME ServeAssumption ==
    /\ Loads \subseteq SUBSET (Requests \cup Recorders)
    /\ {Burst, Rate, TTL, MaxNow} \subseteq Nat
    /\ ServeFaults \subseteq {"dedup", "host", "hangup"}
    /\ \A r \in Requests : Kind[r].route \in {"webhook", "ci", "ready", "metrics"}
    /\ "none" \notin Requests
    /\ IsFiniteSet(Recorders)

VARIABLES
    load,       \* the requests of this behaviour
    now,        \* the monotonic clock
    bucket,     \* [tokens, last]: BucketState
    granted,    \* history variable: [takes, rewound]
    req,        \* req[r]: the handler's place and locals
    seen,       \* delivery ids the dedup store has
    forge,      \* [up, head]: the forge as the gateway's calls find it
    jobs,       \* history variable: [head, floor] of dispatched CI reviews
    cache,      \* empty, or one CachedReadiness
    holder,     \* who holds the readiness mutex
    probes,     \* history variable: start times of the probes that were cached
    metric,     \* the counters
    pending     \* pending[t]: increments review task t has still to make

serveVars == <<load, now, bucket, granted, req, seen, forge,
               jobs, cache, holder, probes, metric, pending>>

Webhooks == {r \in Requests : Kind[r].route = "webhook"}

(* DURATION_BUCKETS_SECS, with one of its eight bounds. *)
Buckets == {"le_1"}
Counters == {"throttled", "signature", "event", "duplicate", "payload", "chat",
             "dispatched", "succeeded", "failed", "panicked", "skipped",
             "completed"} \cup Buckets

(* Every place a counter is read by Metrics::render, in its order: the     *)
(* table first, then the histogram, whose +Inf line is the count again.    *)
RenderOrder == <<"succeeded", "failed", "completed", "le_1", "completed">>

Idle == [pc |-> "idle", clock |-> 0, floor |-> 0, status |-> 0, read |-> <<>>,
         during |-> {}]

Count(c) == metric' = [metric EXCEPT ![c] = @ + 1]

Goto(r, pc) == req' = [req EXCEPT ![r].pc = pc]

Respond(r, status) ==
    req' = [req EXCEPT ![r] = [Idle EXCEPT !.pc = "answered", !.status = status]]

(* The handler's other variables at a step of a webhook delivery. *)
webhookRest == <<load, now, forge, jobs, cache, holder, probes, pending>>

Arrive(r) ==
    /\ gateway.pc = "serving"
    /\ r \in load /\ req[r].pc = "idle"
    /\ req' = [req EXCEPT ![r].pc = Kind[r].route, ![r].floor = forge.head]
    /\ UNCHANGED <<load, now, bucket, granted, seen, forge,
                   jobs, cache, holder, probes, metric, pending>>

-----------------------------------------------------------------------------
(* webhook::handle                                                         *)

(* try_take reads the clock before it has the lock. *)
ReadClock(r) ==
    /\ req[r].pc = "webhook"
    /\ req' = [req EXCEPT ![r].clock = IF LimiterOn THEN now ELSE 0,
                          ![r].pc = IF LimiterOn THEN "take" ELSE "verify"]
    /\ UNCHANGED <<bucket, granted, seen, metric, webhookRest>>

Least(a, b) == IF a <= b THEN a ELSE b

(* TokenBucket::new: at least one token and one token a second. *)
Capacity == IF Burst = 0 THEN 1 ELSE Burst
PerSecond == IF Rate = 0 THEN 1 ELSE Rate

(* try_take_at: saturating_duration_since, the refill, the cap. *)
Refilled(clock) ==
    LET elapsed == IF clock > bucket.last THEN clock - bucket.last ELSE 0
    IN  Least(bucket.tokens + elapsed * PerSecond, Capacity)

TryTakeAtKeepsLast(r) ==
    /\ req[r].pc = "take"
    /\ LET tokens == Refilled(req[r].clock)
       IN  IF tokens >= 1
           THEN /\ bucket' = [tokens |-> tokens - 1, last |-> bucket.last]
                /\ granted' = [granted EXCEPT !.takes = @ + 1]
                /\ req' = [req EXCEPT ![r].pc = "verify", ![r].clock = 0]
                /\ UNCHANGED metric
           ELSE /\ bucket' = [tokens |-> tokens, last |-> bucket.last]
                /\ Count("throttled")
                /\ Respond(r, 429)
                /\ UNCHANGED granted
    /\ UNCHANGED <<seen, webhookRest>>

TryTakeAt(r) ==
    /\ req[r].pc = "take"
    /\ LET tokens == Refilled(req[r].clock)
           back == IF req[r].clock < bucket.last
                   THEN bucket.last - req[r].clock ELSE 0
           last == req[r].clock
       IN  IF tokens >= 1
           THEN /\ bucket' = [tokens |-> tokens - 1, last |-> last]
                /\ granted' = [takes |-> granted.takes + 1,
                               rewound |-> granted.rewound + back]
                /\ req' = [req EXCEPT ![r].pc = "verify", ![r].clock = 0]
                /\ UNCHANGED metric
           ELSE /\ bucket' = [tokens |-> tokens, last |-> last]
                /\ granted' = [granted EXCEPT !.rewound = @ + back]
                /\ Count("throttled")
                /\ Respond(r, 429)
    /\ UNCHANGED <<seen, webhookRest>>

(* hmac::verify: what a delivery that fails it is answered. *)
RefusedSignature(r) == IF Kind[r].signature = "malformed" THEN 400 ELSE 401

VerifySignatureAfterDedup(r) ==
    /\ req[r].pc = "verify"
    /\ LET d == Kind[r].delivery
       IN  IF DedupOn /\ d \in seen
           THEN Count("duplicate") /\ Respond(r, 200) /\ UNCHANGED seen
           ELSE /\ seen' = IF DedupOn /\ d # "none" THEN seen \cup {d} ELSE seen
                /\ IF Kind[r].signature = "good"
                   THEN Count("event") /\ Goto(r, "route")
                   ELSE Count("signature") /\ Respond(r, RefusedSignature(r))
    /\ UNCHANGED <<bucket, granted, webhookRest>>

(* The signature header, hmac::verify, then record_event. *)
VerifySignature(r) ==
    /\ req[r].pc = "verify"
    /\ IF Kind[r].signature = "good"
       THEN /\ Count("event")
            /\ Goto(r, IF DedupOn /\ Kind[r].delivery # "none"
                       THEN "dedup" ELSE "route")
       ELSE /\ Count("signature")
            /\ Respond(r, RefusedSignature(r))
    /\ UNCHANGED <<bucket, granted, seen, webhookRest>>

(* check_and_record: a duplicate is answered 200, and a store that fails   *)
(* lets the delivery through.                                              *)
CheckDelivery(r) ==
    /\ req[r].pc = "dedup"
    /\ LET d == Kind[r].delivery
       IN \/ /\ d \in seen
             /\ Count("duplicate") /\ Respond(r, 200)
             /\ UNCHANGED seen
          \/ /\ d \notin seen
             /\ seen' = seen \cup {d}
             /\ Goto(r, "route")
             /\ UNCHANGED metric
          \/ /\ "dedup" \in ServeFaults /\ env.dedup = "sqlite"
             /\ Goto(r, "route")
             /\ UNCHANGED <<metric, seen>>
    /\ UNCHANGED <<bucket, granted, webhookRest>>

(* Both handlers first decode the body as the event it claims to be. *)
BadPayload(r) ==
    /\ Kind[r].event \in {"pull_request", "issue_comment"}
    /\ Kind[r].payload = "broken"
    /\ Count("payload") /\ Respond(r, 400)

(* handle_pull_request dispatches nothing, whatever is_actionable says. *)
HandlePullRequest(r) ==
    /\ Kind[r].event = "pull_request" /\ Kind[r].payload # "broken"
    /\ Respond(r, 202) /\ UNCHANGED metric

(* handle_issue_comment acts on a new comment on a pull request, by        *)
(* someone else, that mentions the bot.                                    *)
HandleIssueComment(r) ==
    /\ Kind[r].event = "issue_comment"
    /\ \/ Kind[r].payload = "mention" /\ Count("chat") /\ Goto(r, "claim")
       \/ Kind[r].payload = "inert" /\ Respond(r, 202) /\ UNCHANGED metric

(* Pings and events without a handler are only acknowledged. *)
RouteEvent(r) ==
    /\ req[r].pc = "route"
    /\ \/ BadPayload(r) \/ HandlePullRequest(r) \/ HandleIssueComment(r)
       \/ Kind[r].event = "ping" /\ Respond(r, 200) /\ UNCHANGED metric
       \/ Kind[r].event = "other" /\ Respond(r, 202) /\ UNCHANGED metric
    /\ UNCHANGED <<bucket, granted, seen, webhookRest>>

(* claim_chat_comment waits for the lock of the cursors that the poller    *)
(* shares, and the delivery is answered 202 whether it wins the comment or *)
(* not.  Who wins it, and the task that then runs the chat handler, are    *)
(* module ChatIntake's.                                                    *)
ClaimComment(r) ==
    /\ req[r].pc = "claim"
    /\ Respond(r, 202)
    /\ UNCHANGED <<bucket, granted, seen, metric, webhookRest>>

-----------------------------------------------------------------------------
(* webhook::handle_ci_review                                               *)

ciRest == <<load, now, bucket, granted, seen, forge, cache,
            holder, probes, pending>>

AuthoriseCi(r) ==
    /\ req[r].pc = "ci"
    /\ \/ ~CiOn /\ Respond(r, 404)
       \/ CiOn /\ ~Kind[r].authorised /\ Respond(r, 401)
       \/ CiOn /\ Kind[r].authorised /\ ~Kind[r].wellformed /\ Respond(r, 400)
       \/ CiOn /\ Kind[r].authorised /\ Kind[r].wellformed /\ Goto(r, "fetch")
    /\ UNCHANGED <<jobs, metric, ciRest>>

FetchPullRequestUnchecked(r) ==
    /\ req[r].pc = "fetch"
    /\ \/ Goto(r, "dispatch")
       \/ "host" \in ServeFaults /\ Respond(r, 502)
    /\ UNCHANGED <<jobs, metric, ciRest>>

(* A stale head_sha, a draft or a closed pull request is a conflict. *)
FetchPullRequest(r) ==
    /\ req[r].pc = "fetch"
    /\ \/ Kind[r].head = forge.head /\ Goto(r, "dispatch")
       \/ Respond(r, 409)
       \/ "host" \in ServeFaults /\ Respond(r, 502)
    /\ UNCHANGED <<jobs, metric, ciRest>>

DispatchCi(r) ==
    /\ req[r].pc = "dispatch"
    /\ jobs' = jobs \cup {[head |-> Kind[r].head, floor |-> req[r].floor]}
    /\ Count("dispatched")
    /\ Respond(r, 202)
    /\ UNCHANGED ciRest

-----------------------------------------------------------------------------
(* ReadinessProbe::check.  The async mutex is held across the probe.       *)

readyRest == <<load, now, bucket, granted, seen, forge, jobs,
               metric, pending>>
None == "none"

HealthStatus(healthy) == IF healthy THEN 200 ELSE 503

CheckReadySlides(r) ==
    /\ req[r].pc = "ready" /\ holder = None
    /\ IF cache # <<>> /\ now - cache[1].at < TTL
       THEN /\ req' = [req EXCEPT ![r] = [Idle EXCEPT !.pc = "answered",
                  !.status = HealthStatus(cache[1].healthy),
                  !.clock = now - cache[1].probed]]
            /\ cache' = [cache EXCEPT ![1].at = now]
            /\ UNCHANGED holder
       ELSE /\ req' = [req EXCEPT ![r].pc = "probe", ![r].clock = now]
            /\ holder' = r
            /\ UNCHANGED cache
    /\ UNCHANGED <<probes, readyRest>>

(* `clock` of an answer from the cache keeps the age of the probe. *)
CheckReady(r) ==
    /\ req[r].pc = "ready" /\ holder = None
    /\ IF cache # <<>> /\ now - cache[1].at < TTL
       THEN /\ req' = [req EXCEPT ![r] = [Idle EXCEPT !.pc = "answered",
                  !.status = HealthStatus(cache[1].healthy),
                  !.clock = now - cache[1].probed]]
            /\ UNCHANGED holder
       ELSE /\ req' = [req EXCEPT ![r].pc = "probe", ![r].clock = now]
            /\ holder' = r
    /\ UNCHANGED <<cache, probes, readyRest>>

(* get_server_version has answered; the entry is dated before the call. *)
ProbeKeepsLock(r) ==
    /\ req[r].pc = "probe"
    /\ cache' = <<[at |-> req[r].clock, healthy |-> forge.up,
                   probed |-> req[r].clock]>>
    /\ probes' = Append(probes, req[r].clock)
    /\ holder' = IF forge.up THEN None ELSE holder
    /\ Respond(r, HealthStatus(forge.up))
    /\ UNCHANGED readyRest

Probe(r) ==
    /\ req[r].pc = "probe"
    /\ cache' = <<[at |-> req[r].clock, healthy |-> forge.up,
                   probed |-> req[r].clock]>>
    /\ probes' = Append(probes, req[r].clock)
    /\ holder' = None
    /\ Respond(r, HealthStatus(forge.up))
    /\ UNCHANGED readyRest

(* The client hangs up and the handler is dropped where it waits; a held   *)
(* lock is released.  What was recorded stays, and the row that the dedup  *)
(* store was about to insert may still be.                                 *)
AwaitPlaces == {"dedup", "claim", "fetch", "ready", "probe"}

HangUp(r) ==
    /\ "hangup" \in ServeFaults
    /\ req[r].pc \in AwaitPlaces
    /\ req' = [req EXCEPT ![r] = [Idle EXCEPT !.pc = "gone"]]
    /\ holder' = IF holder = r THEN None ELSE holder
    /\ \/ req[r].pc = "dedup" /\ seen' = seen \cup {Kind[r].delivery}
       \/ UNCHANGED seen
    /\ UNCHANGED <<load, now, bucket, granted, forge, jobs, cache, probes,
                   metric, pending>>

-----------------------------------------------------------------------------
(* MetricsObserver::record, record_review_succeeded, _failed and _skipped: *)
(* relaxed increments, in no order another thread could rely on.           *)

metricRest == <<load, now, bucket, granted, seen, forge, jobs,
                cache, holder, probes>>

(* bucket_duration: every bound the duration does not exceed. *)
BucketDuration(seconds) ==
    IF seconds <= 1 THEN Buckets ELSE {}

OutcomesUncounted == {{"succeeded"} \cup BucketDuration(d) : d \in {1, 2}}

Outcomes ==
    {{"succeeded", "completed"} \cup BucketDuration(d) : d \in {1, 2}}
    \cup {{c, "completed"} \cup BucketDuration(d) :
             c \in {"failed", "panicked"}, d \in {1, 2}}
    \cup {{"skipped"}}

Reading == {r \in Requests : req[r].pc = "metrics"}

RecordReview(t) ==
    /\ gateway.pc = "serving"
    /\ t \in load /\ pending[t] = {"new"}
    /\ \E o \in Outcomes : pending' = [pending EXCEPT ![t] = o]
    /\ req' = [r \in Requests |-> IF r \in Reading
                 THEN [req[r] EXCEPT !.during = @ \cup {t}] ELSE req[r]]
    /\ UNCHANGED <<metric, metricRest>>

Increment(t) ==
    /\ \E c \in pending[t] \cap Counters :
          /\ Count(c)
          /\ pending' = [pending EXCEPT ![t] = @ \ {c}]
    /\ UNCHANGED <<req, metricRest>>

Unsettled == {t \in Recorders : pending[t] \cap Counters # {}}

(* Metrics::render and render_duration_histogram: one load at a time. *)
Scrape(r) ==
    /\ req[r].pc = "metrics"
    /\ LET n == Len(req[r].read) + 1
       IN  req' = [req EXCEPT
              ![r].read = Append(@, metric[RenderOrder[n]]),
              ![r].during = @ \cup Unsettled,
              ![r].pc = IF n = Len(RenderOrder) THEN "answered" ELSE "metrics",
              ![r].status = IF n = Len(RenderOrder) THEN 200 ELSE 0]
    /\ UNCHANGED <<metric, pending, metricRest>>

-----------------------------------------------------------------------------
(* Time and the forge move on only where a request of the load can tell.   *)
Observed(routes) == \E r \in load \cap Requests : Kind[r].route \in routes

Tick ==
    /\ now < MaxNow /\ Observed({"webhook", "ready"})
    /\ now' = now + 1
    /\ UNCHANGED <<load, bucket, granted, req, seen, forge, jobs, cache,
                   holder, probes, metric, pending>>

(* The forge goes down or comes back, or the branch is pushed to. *)
ForgeChanges ==
    /\ \/ Observed({"ready"}) /\ forge' = [forge EXCEPT !.up = ~@]
       \/ Observed({"ci"}) /\ forge.head = 1 /\ forge' = [forge EXCEPT !.head = 2]
    /\ UNCHANGED <<load, now, bucket, granted, req, seen, jobs, cache,
                   holder, probes, metric, pending>>

Handle(r) ==
    \/ ReadClock(r) \/ TryTakeAt(r) \/ VerifySignature(r) \/ CheckDelivery(r)
    \/ RouteEvent(r) \/ ClaimComment(r)
    \/ AuthoriseCi(r) \/ FetchPullRequest(r) \/ DispatchCi(r)
    \/ CheckReady(r) \/ Probe(r) \/ Scrape(r)

(* AppState::new and its builders, with what startup wired in. *)
ServeInit ==
    /\ load \in Loads
    /\ now = 0
    /\ bucket = [tokens |-> Capacity, last |-> 0]
    /\ granted = [takes |-> 0, rewound |-> 0]
    /\ req = [r \in Requests |-> Idle]
    /\ seen = {}
    /\ forge = [up |-> TRUE, head |-> 1]
    /\ jobs = {}
    /\ cache = <<>> /\ holder = None /\ probes = <<>>
    /\ metric = [c \in Counters |-> 0]
    /\ pending = [t \in Recorders |-> {"new"}]
=============================================================================
