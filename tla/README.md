# auto_review: TLA+ models, checks and proofs

auto_review reviews pull requests: a gateway takes webhooks, CI requests and
chat mentions from a forge, dispatches review jobs that read a diff, ask a
language model and post a review with a commit status, and remembers which
commit it reviewed last so that the next review can be incremental. An
alternative entry, the AgentCore runtime, runs one review or chat command per
invocation, and a command line sets a deployment up and looks after it.

The program's difficulty is not in any single handler. It is in what happens
between their awaits: jobs of one pull request overlap, branches move, people
edit, webhooks are retried and reordered, the poller and the webhook see the
same comment, stores fail after they wrote, tokens expire, and the process
restarts. These modules model those interleavings.

## Components

| Part | State | Operations | Hard because |
|---|---|---|---|
| Review dispatcher (`ar-orchestrator/src/dispatcher.rs`) | tasks, semaphore permits, commit statuses, observations | `dispatch`, `run_review_job`, crash status | overlapping jobs, panics, lost answers, restarts, no timeouts |
| Review history (`review_history.rs`, `sqlite_history.rs`, `dynamodb_history.rs`) | one commit and its cost per pull request | `last_reviewed`, `record_with_cost`, `clear`, `purge_older_than`, `list_known` | written by jobs and by the operator's CLI at the same time |
| Gateway startup and launcher (`ar-gateway/src/startup.rs`) | the staged bundle, the configuration, the listener | choose a launcher, stage, run, remove; load, serve, drain | each step may fail after the ones before it |
| Webhook intake (`webhook.rs`, `lib.rs`, `hmac.rs`) | none of its own | `handle`, `handle_issue_comment`, `handle_ci_review` | retried, delayed and concurrent requests, clients that hang up |
| Rate limiter (`ratelimit.rs`) | tokens, last refill time | `try_take` | the clock is read outside the lock |
| Readiness and metrics (`lib.rs`, `metrics.rs`) | a cached verdict; counters | `readyz`, `record_*`, `render` | a lock held across the probe; counters read one by one |
| Delivery dedup (`dedup.rs`) | bounded set and queue, or a table | `check_and_record` | eviction at the limit, restarts, fail-open |
| Chat poller (`poller.rs`) | a cursor per pull request, shared with the webhook | `poll_once`, `poll_pr`, `claim_chat_comment` | cursor read under one lock and used under others; pruning |
| AgentCore runtime (`ar-agentcore`, `ar-cli/src/commands.rs`) | idempotency keys | `claim`, the handlers | duplicates, cancelled requests, expiry, order of claim and check |
| Review pipeline (`ar-review`) | none between calls | diff, prune, self-heal, verify, floor, path guard, metadata check, marker strip, `create_review` | title and body are a snapshot; one step of several fails |
| Chat commands, override marker (`ar-chat`, `override_marker.rs`) | title and body of the pull request | help, re-review, autofix, docstring, tests, questions, override, remember, forget | reads of the forge that are stale when used |
| Learnings, embeddings (`ar-index`, `context_builder.rs`) | stores with caps and caches | add, forget, nearest; look up, embed, upsert, score | two-step identity allocation, rows shared by reviews |
| Repository configuration, workspace, its tools (`config.rs`, `workspace.rs`, `workspace_tools.rs`) | a clone | clone, load, `read_file`, `search` | three readers of one file; paths a model chooses |
| LLM client, router and costs (`ar-llm`, `pipeline.rs`) | a usage log per review | `complete`, price, record | clones of one router; counters at their limit |
| Forgejo and GitHub clients | cached installation tokens | REST calls, listings in pages | lists that change between pages, tokens that expire in use |
| Command line (`ar-cli`) | the operator's shell | webhook commands, `auth init`, `ops doctor`, `review once`, `bench` | what was probed changes before it is used |

Calls go from intake (webhook, poller, AgentCore) to the dispatcher and the chat
handler; the dispatcher calls the pipeline, the history and the host; chat
commands call the dispatcher. The history is read by the dispatcher and by the
poller; the cursors are shared by the poller and the webhook; title and body are
written by people, overrides and reviews; vectors and learnings are shared by
every review and chat command of the process.

What makes each part correct:

- dispatcher: no permit is lost, no pending status is abandoned, every job ends
  and is counted, and nothing is recorded as reviewed that was not;
- pipeline: every reported finding is posted or dropped for a reason the code
  names, ignored files stay out of the diff and the comments, every review ends;
- override: only those who may, with a reason; title marker and body section
  come and go together; people's words survive;
- dedup: a retry within the window never passes twice, the memory is bounded;
- chat intake: a mention reaches the handler at most once, and through the
  poller at least once; a restart replays nothing unless a late webhook gets to
  the cursors before the poller;
- gateway: bundle removed, isolation as asked for, a throttle that grants what
  it should, readiness that is not stale, a shutdown that ends;
- stores: an id names one text, what was forgotten stays out, a prompt quotes
  the head under review;
- AgentCore: one run per claimed key;
- tools of the operator: what they report is the case.

## Modules

| Module | Models |
|---|---|
| `ReviewLedger` | abstract: reviews posted, and the commit an incremental diff may start from |
| `ReviewDispatch` | `SpawningDispatcher`, `run_review_job`, history, commit statuses; implements `ReviewLedger` |
| `DeliveryDedup`, `DeliveryWindow` | the two delivery stores, and the same under arbitrary retries and restarts |
| `ChatIntake` | `DeliveryDedup`, the issue_comment webhook, the poller and the shared cursors |
| `Invocations` | the AgentCore `/invocations` endpoint |
| `OverrideMarker` | abstract: when the bot may write a title and body, and with which marker |
| `PullRequest` | a pull request on the forge: head, title and body with the override marker, reviews |
| `ReviewPipeline` | extends it by `review_pull_request`, await by await |
| `ChatCommands` | extends that by the chat commands: reviews, overrides, pushes and edits compose here; implements `OverrideMarker` |
| `GatewayLaunch` | how the gateway comes up: launcher, bundle, configuration, listener |
| `GatewayServe` | extends it by the HTTP surface: throttle, signature, dedup, routing, CI, readiness, metrics |
| `Gateway` | composes the two, with shutdown |
| `LearningsStore` | the three learnings stores with remember, forget and the CLI's forget |
| `RepoContext` | extends it by the retrieval step of a review on the shared embedding cache |
| `HostCalls` | listings in pages, GitHub installation tokens |
| `OperatorCommands` | the webhook commands on top of `HostCalls` |
| `BenchScore` | `bench run`: scoring, aggregation, comparison with a baseline |
| `CostLedger` | tokens and prices of a review, and the row that keeps them |
| `Checkout` | the clone, the three readers of `.auto_review.yaml`, the verifier's two tools |
| `Setup` | an operator's shell: auth, doctor, webhook test, review once, the gateway it starts |
| `Workbench` | the six above side by side, one of them per behaviour |
| `MC...` | values of the constants and symmetry for TLC |
| `ReviewDispatchProofs`, `DeliveryWindowProofs`, `InvocationsProofs`, `ChatIntakeProofs`, `PullRequestProofs`, `GatewayProofs`, `RepoContextProofs`, `WorkbenchProofs` | theorems about the modules they extend |

### ReviewDispatch

A job is one call of `dispatch`; `pc` says at which await its task is. The outer
task's places are `spawned`, `acquiring`, `queued`, `crashed` and `release`; the
inner task's are the set `Inner`, in the order of `run_review_job`. `hung` is a
network await whose peer never answers, `lost` a task that went with its
process.

- A commit stands for a head SHA; `Anc[c]` are the branch's commits up to `c`.
  A diff is the set of commits whose changes it shows. A full diff is that of
  the head *at the moment it is fetched*, an incremental one that between the
  recorded commit and the job's.
- `permits` and `queue` are tokio's semaphore: fair, a released permit goes to
  the first waiter. No limit at all is a limit of at least the number of jobs.
- `status` is the commit status under the one context the program uses;
  `obs` the observations sent to the metrics.
- `Faults` chooses which calls may fail. A failed `create_review` may have
  landed. Failures of status posts and of the record are swallowed, as in the
  code. `Triage` and `Prepare` choose their outcome freely: which files are
  trivial, and what the repository's configuration says, is data.
- `Push`, `ResetPr`, `PurgeHistory` and `Restart` interleave with everything.

Left out here: cost (`CostLedger`), the inside of a review (`ReviewPipeline`),
wording, and the cap on the size of a diff (a review of a capped diff counts as
a review of the diff).

### DeliveryDedup and DeliveryWindow

`ids` and `order` are the fields of `RecentDeliveries`; with `Sqlite`, `ids` is
the table and `order` is unused. `Unreachable` is the fail-open path, in which
the row may or may not have been written. `passed` is the sequence of deliveries
let through since the store was created.

### ChatIntake

A comment's id is its position in `comments`, since the forge issues ids from
one sequence; the issue-comments endpoint lists them in that order. The poller's
places are the points between its awaits and locks: `list_known`, the prune, the
comment list, the read of the cursor, each claim, the seeding, each handler
call. A webhook request is admitted by the store, claims its comment, and hands
it to the handler. `handled` counts the hand-overs of one process; `late` are the comments from
before the last start that webhooks have claimed since.

### Invocations

A call's payload is chosen at the start and may equal another's. Its key is kind,
commit and comment; provider, repository and pull request are fixed. `grants`
are the calls that got past the claim and whose record is still in the store.

### PullRequest, ReviewPipeline, ChatCommands

A text is what the code asks of it: a title's form and length against the 72
characters of the metadata check, whether the marker is in front of it, whether
the body has the override section. `versions` are the pairs of title and body
that people have written. `job[j]` holds a review's locals between its awaits:
the snapshot of title and body it was made with, the diff, the files whose
symbols its repository context quotes (any of `Contexts`, since the context is
built before anything is filtered), the findings as the
model reported them (`raw`) and as they are left (`findings`), what verdicts
dropped (`dropped`). Each answer of a model (findings, a verdict, a question of
the verifier, nonsense, an error) is a choice. `chat[c]` likewise for a command.
The free-text classification of a mention is a choice of the model; who wrote it
and whether it has a reason are chosen with the mention.

### GatewayLaunch, GatewayServe, Gateway

`env` is the operator's environment as far as the code tells values apart,
`outer` the process the operator started, `stage` the bundle on disk, `gateway`
the process that serves. In a container it sees the allow-listed part of the
environment. A request is a record of its route and contents; its handler is a
sequence of steps between locks and awaits, any of which may be the last when
the client hangs up; a hang-up in the middle of `check_and_record` may leave the
row behind. Who wins the claim of a comment is left to `ChatIntake`. `now` is
the monotonic clock in seconds. The metrics are the counters `record_review`
increments one after the other, read one after the other by a scrape.

### LearningsStore, RepoContext

`rows` are the stored learnings, `told` the ids and texts the bot has named.
DynamoDB's id allocation and put are two steps, and each may fail after it took
effect. The AWS client repeats a request it got no answer to: `late` are puts
whose first copy is still on its way, and `again` marks the row such a copy wrote.
`vectors` is the vector table with its key (path, name, line), shared by the
reviews of all heads and repositories; a snippet is a prefix and a rest, and the
rest is what the input cap cuts off. An answer of the embedding server is one
vector per text in order, or one that is short, long or reversed (`Answers`);
vectors, snippets and symbols are paired by position, as in the code, and a
vector says whose text it was computed from. Similarity is a free choice of the
order.

### Workbench

The modules it extends share no state, so a behaviour is about one of them. In
`OperatorCommands` others add and delete webhooks between two pages. In
`HostCalls` callers that share a client overlap in asking for a token, and hold
it for several calls. `CostLedger` runs two reviews through one router. In
`Checkout` the model asks for any path of a small tree with links, and the
configuration files at base and head are any combination of good, broken, large
and absent. `Setup` lets tokens be revoked, secrets be rotated and servers go
away between two probes. A start of the gateway goes through everything that can
end it (`Obstacle`): the launcher, required settings, the bot's names, the tiers'
URLs, the stores, the CI token, the bind; a review through everything it needs
(`Lacking`). `Unprobed` are those of them that no command looks at; `surprise`
records a start, delivery or review that failed on something a still valid probe
had passed.

## Runs

| Run | Expected | Shows |
|---|---|---|
| `DispatchFaults` | pass | permits conserved, pending statuses owned and replaced, jobs counted once, a panic once more, every job ends |
| `DispatchOverlap` | pass | recorded commits were reviewed; the ledger is implemented |
| `DispatchForcePush` | violation | a force-push during preparation makes the job record a commit nobody reviewed |
| `ChatShared` | pass | a process hands a mention on a reviewed pull request over at most once; after a restart, nothing old but behind a late webhook |
| `ChatPoll` | pass | every mention above a cursor is handled by the poller |
| `ChatReplay` | violation | behind a late webhook the poller does replay old mentions |
| `Idempotency` | pass | one run per record of a key; the bounded delivery store is consistent, retries pass only outside the window |
| `PullRequestLife` | pass | findings accounted for, ignored files kept out of diff, file list and comments, approvals earned, marker and section together, `OverrideMarker` implemented (so people's words are kept), reviews end, mentions answered |
| `OverrideTitle` | violation | the override marker makes a title too long for the next review |
| `GatewayLife` | pass | launch, throttle, deliveries, readiness, metrics, CI requests, shutdown |
| `RepoContextLife` | pass | ids name one text; the forgotten stays out, but for DynamoDB's late copies; prompts quote their own head, whatever other reviews and the embedding server do |
| `Operate` | pass | webhook listings, token expiry, benchmark arithmetic, costs, validated configuration, tools, probes |

Some of these are bounds rather than equalities, because that is what the code
gives: the throttle may grant seconds twice, by exactly as much as a late holder
of an early clock set it back (`BucketAccounts`); a scrape may show a part above
its whole, by at most the reviews recorded meanwhile (`ScrapeSkewBounded`); a
GitHub call is refused only after the margin (`TokenFitsUse`); a listing is
complete unless something was deleted between two pages (`HooksAccounted`); a
forgotten learning is back in DynamoDB only through a late copy of its put
(`ForgottenStaysOut`); vectors fit their texts, and `TopK` of them are used, while
every embedding answer was in order (`ContextIsOfThisHead`); what passed its
probe and did not change is not what a start or a review fails on (`ProbedWorks`).

### What the violations say

- `DispatchForcePush`: the comment in `dispatcher.rs` explains that a commit that
  was not reviewed must not be recorded. `prepare_workspace_context` fetches the
  pull request's current diff, but the job records the commit it was dispatched
  for. Without rewriting pushes the current diff includes that commit, and the
  property holds (`DispatchOverlap`, and for all instances `RecordedReviewed`).
- `ChatReplay`: `poller.rs` says that a restart starts each cursor at the highest
  comment, so that history is not reprocessed. Webhooks use the same cursors: one
  of an old comment that comes after a restart makes the cursor, and the poller
  then takes the comments after it for new. `ChatShared` checks, and
  `ReplaysExcused` proves, that this is the only way to it.
- `OverrideTitle`: `override_marker.rs` says that the marker is stripped once a
  later review approves cleanly. On a title near 72 characters the marker itself
  takes the title over the limit, the next review objects to that, and so does
  not strip it.

### Further observations

Behaviour the models show that is not stated as a run of its own. Where the
repository says otherwise, the property it concerns says what is true instead,
and quotes the comment.

Reviews and their record:
- `dispatcher.rs:57-58` says of the queue-wait observation that "firing implies a
  `Started` will follow". It is made before the job looks whether it has anything
  to do: a job that waited for the review of its own commit, or whose files are
  trivial, is skipped (`ObservationsAddUp`).
- `dispatcher.rs:601-606` says that each job emits "exactly one of {Skipped_*,
  Started + (one of Succeeded / Failed_*)} — no double-count". A task that panics
  after it reported its outcome, at the final status or at the record, is counted
  as failed as well (`ObservationsAddUp`).
- `docs/USER-GUIDE.md:121-122` says that `ignored_paths` filters files "out of the
  review entirely". The repository context is built from the unfiltered diff and
  the whole clone, and goes into the prompt, so that it may quote an ignored file
  (`Prompt`, `IgnoredStayOut`).
- A job is lost when the process restarts, and a peer that never answers holds a
  permit until then (with `"crash"` or `"hang"` in `Faults`, `EveryJobEnds`
  fails). A job in flight may record its commit after `reset-pr`.
- The marker is stripped from the snapshot the job was made with, before
  `create_review`: an edit made meanwhile is undone, and when the post fails the
  override is gone without a review in its place.
- An override looks at the bot's latest review. When that is an autofix comment
  posted after a request for changes, or when the forge does not answer, nothing
  counts as outstanding and the approval needs no listed user.
- An empty list of changed files switches the path guard off.

Intake:
- `claim_chat_comment` promises at most one dispatch, which holds as long as a
  cursor is never dropped while webhooks are under way; `poll_once` drops the
  cursors of pull requests that are not in the history, those mentioned before
  their first review included (`HandledAtMostOnce` with `Reviewed = {}`).
- A webhook's claim of a newer comment moves the cursor past an older one whose
  webhook is late or lost, and no poll looks back.
- `/invocations` claims the idempotency key before it compares heads, in the
  reverse order of `ARCHITECTURE.md`, so a stale head uses the key up.
- A delivery is recorded before it is handled: an error after that is final.
- A comment is claimed before it is handled, in memory: a restart between the two
  loses it, as the next first look of the poller seeds the cursor above it.

Stores and costs:
- The in-memory learnings store starts its ids again after a restart, where
  `told` starts again too; the DynamoDB store's nearest search sees one page of
  the scan. Vectors of one model stay in the cache when another is configured.
- A put that DynamoDB's client repeats can land after its learning was forgotten;
  the learning is then back, although the user was told that it is gone.
- `compute_snippets` says that the cap does not matter for the comparison with a
  cached row, as "both sides are truncated the same way at embed-time"
  (`context_builder.rs:231-236`). The stored text was cut, the text it is compared
  with was not, so a symbol over the cap is embedded again by every review (`Hit`).
- Nothing checks how many vectors an embedding answer has, or their `index`. After
  a short or reordered one, symbols have the vectors of others and the last ones
  none; the rows stay in the shared cache and serve later reviews.
- Embedding tokens are logged but never priced, a failed review's cost is lost,
  rows from before the cost column count 0.42, and the in-memory history drops
  the cost.

Launching and operating:
- `--bare` is honoured by the launcher, but `/info` derives its posture from
  `AR_GATEWAY_BARE` alone, which is why `IsolationAsAsked` leaves the flag out of
  its second half. The launcher has no signal handler: killed, it leaves the
  bundle. The container's allow-list lacks `AR_AGENTIC_VERIFIER`,
  `AR_PRICE_TABLE_PATH` and `AR_REVIEW_COST_FOOTER`.
- A broken `.auto_review.yaml` hides a good `.auto_review.yml`; only the review's
  loader caps the size of the file.
- `auth init` prints an export of `AR_FORGEJO_TOKEN`, the other commands read
  `FORGEJO_TOKEN`. The doctor does not look at the launcher, `AR_BOT_LOGIN`, the
  other tiers' URLs, the stores' files, `AR_CI_REVIEW_TOKEN`, the port or what the
  token may do, any of which can end a start or a review (`Unprobed`), and looks
  for the cheap and the embedding model on the main server. `review once` reviews
  closed pull requests.
- `StatusSummary.failed_total` leaves out panics and unknown outcomes.

### Bounds

- Dispatcher: two jobs, one pull request, two commits. Two jobs are enough for
  one to overlap, wait for, or record after another, and with one permit one of
  them queues. Two commits give one incremental diff. `DispatchFaults` uses the
  limit 0, which the code turns into 1. `DispatchForcePush` needs a fork of
  three commits. The theorems remove these bounds for the invariants.
- `DispatchOverlap`: one restart, which already ends every job at every place.
- `ChatShared`: three comments, two webhook requests that may be used again and
  again, the poller and one restart. A cursor has a comment below, at and above
  it, and so has the comment of a late webhook. One pull request is enough, as
  requests and the poller share nothing across pull requests but the poller
  itself. The history keeps it, which `HandledAtMostOnce` needs;
  `ReplaysExcused` covers a history that forgets as well. `ChatReplay` needs one
  request and two comments.
- `ChatPoll`: two pull requests, one of them reviewed later, two comments, one
  restart, and no webhooks, since a webhook's claim may pass over a mention.
- `Idempotency`: three calls over two kinds, two commits and one comment id, so
  that keys coincide and differ in each part. Four deliveries in a store of two,
  six let through: the store turns over three times. A behaviour is about calls
  or about deliveries, which share no state.
- `PullRequestLife`: one CI review and one mention, which may queue another
  review behind the one permit, an edit and a push: each pair of writers of
  title, body and reviews meets. A note is below the floor. A diff cap
  of 3 cuts two files of 2; two
  attempts of self-healing and two turns of the verifier are the first at which
  the loops go round. `ann` may override, `bob` may not. `OverrideTitle` needs
  only the longer title.
- `GatewayLife`: every environment with one thing wrong is launched; each sort of
  traffic (`MCLoads`) runs on its own, since a webhook, a CI request, a probe and
  a scrape share nothing. A bucket of one at one token a second over three
  seconds runs dry and refills; a TTL of two seconds ends within them.
- `RepoContextLife`: a behaviour is about learnings or about symbols, whose stores
  have no row in common. Four commands and reviews of learnings, two commands at
  once, on three ids, and a page of one, so that ids are used up, puts overlap
  with forgets and a scan misses rows. Two reviews on three heads of three
  symbols, so that rows collide, are equal and are missing; batches, chunks and
  `TopK` of two, so that each is exceeded and an answer can be reordered and can
  shift the next batch. One restart, which may change the model and the cap.
- `Operate`: three webhooks on pages of two; tokens of three ticks with a margin
  of one over five; three fixtures with a label twice, with one and with none;
  counters up to five and amounts of three, so that the second addition
  saturates; a tree of depth two with a skipped directory, a file over the cap,
  links inside, outside and to nothing; five shells, in one of which all is well,
  one change from outside between probes, and any of the host's parts broken at
  each start.

### Fairness

- Every job's next step is weakly fair (`DispatchFaults`): the tokio runtime
  polls ready tasks, and with `"hang"` excluded every call is answered.
  Acquiring needs no strong fairness, because the semaphore hands permits to the
  first waiter.
- The poller's next step is weakly fair (`ChatPoll`): its loop is driven by an
  interval timer, and its awaits are calls as above. Nothing is assumed of
  webhooks, authors or operators.
- The steps of reviews and commands are weakly fair (`PullRequestLife`), for the
  same reason; pushes and edits are not.
- The steps of launcher, startup and accepted requests are weakly fair
  (`GatewayLife`); clients, the clock, the forge and the signal are not.

## Proofs

Every invariant the passing runs check is also proved; and that the dispatcher
implements the ledger, and reviews with commands the marker's promise. The
theorems hold for every value of the constants that satisfies the named
`ASSUME`s of the modules, which TLC evaluates on the instances of the runs. They
say what the code takes for granted: counts are natural numbers, a request's
kind is one the router knows, the nodes of a file system are a finite tree,
prices are whole numbers, the webhooks a forge starts with are numbered in
order, a baseline has no more successes than fixtures.

| Theorem | States | Further hypothesis |
|---|---|---|
| `TypeCorrect` | `[]TypeOK` of the dispatcher | |
| `RecordedReviewed` | `[]RecordedIsReviewed` | no force-pushes |
| `LedgerRefinement` | `ImplementsLedger` | no force-pushes |
| `PermitConservation` | `[]PermitsConserved` | |
| `PendingOwnership` | `[]PendingIsOwned` | status posts succeed, no restarts |
| `ObservationsComplete` | `[]ObservationsAddUp` | |
| `StoreSound` | `[]StoreConsistent` | |
| `RetriesBounce` | `[]RetryOutsideWindow` | |
| `OneRun` | `[]OneRunPerRecord` | |
| `RuntimeTypes` | `[]TypeOK` of the AgentCore runtime | |
| `ChatHandledOnce` | `[]HandledAtMostOnce` | all pull requests known at the start and never reset; any number of restarts, each process by itself |
| `ReplaysExcused` | `[]ReplayNeedsLateWebhook` | |
| `FindingsAddUp` | `[]FindingsAccounted` | |
| `IgnoredKeptOut` | `[]IgnoredStayOut` | |
| `ApprovalsEarned` | `[]ApprovalIsEarned` | |
| `MarkerMeansOverride` | `[]MarkerIsOverride` | |
| `WordsKept` | `[]WordsArePeoples` | |
| `MarkerRefinement` | `ImplementsMarker` | |
| `StageCleared` | `[]StageIsRemoved` | |
| `IsolationKept` | `[]IsolationAsAsked` | |
| `BucketBounded` | `[]BucketAccounts` | |
| `DuplicatesWereTaken` | `[]DuplicateWasTaken` | |
| `CiHeadsCurrent` | `[]CiHeadWasCurrent` | |
| `ReadinessKept` | `[]ReadinessHonest` | |
| `ScrapesBounded` | `[]ScrapeSkewBounded` | |
| `IdsNameOneText` | `[]IdNamesOneText` | |
| `ForgottenForGood` | `[]ForgottenStaysOut` | |
| `ContextsOwnHead` | `[]ContextIsOfThisHead` | |
| `TokensFit` | `[]TokenFitsUse` | |
| `ValidatedInForce` | `[]ValidatedIsInForce` | |
| `ProbesHold` | `[]ProbedWorks` | |
| `HooksListed` | `[]HooksAccounted` | the webhooks fit into the pages the client reads |
| `ToolsTrue` | `[]ToolsTellTheTruth` | |
| `CostsOwn` | `[]CostIsOwn` | |
| `BenchAdds` | `[]BenchAddsUp` | |

The hypotheses of a theorem are those of the run that checks the same property:
`ChatShared` is without resets (a dropped cursor lets a comment be claimed
again, see the observations on intake), and the webhooks of `Operate`
fit into its pages (the client stops silently after the last one it is willing
to read). Without them the property is false of the code. Other exceptions are
part of the properties themselves, as listed under *Runs*.

- *Recorded commits.* `RecordedIsReviewed` is not inductive: a job about to
  record must be known to have had its commit's ancestry reviewed. `CoverInv`
  says so for every job: what the job has in hand, together with what has been
  reviewed, covers its commit's ancestry. For a full diff this needs that the
  head's ancestry includes the job's commit, which is where force-pushes break
  it; for an incremental one that the base was recorded, and so reviewed. The
  refinement then follows step by step: a landed review is `Show`, a record is
  `Advance`, whose guard is `CoverInv` of the recording job, and resets, purges
  and restarts are `Forget`.
- *Permits.* `QueueInv` adds that the queue names no job twice and only jobs
  that wait. Without it a hand-over could start a job twice, or one that does
  not wait.
- *Pending.* Inductive with the types once the owner of a status is named: a job
  leaves `StatusOwners` only by a step that replaces the status.
- *Observations.* For every place of a job, the reports that have been made and
  those still to come; what a panic leaves out is what its place says.
- *The window.* `WindowInv` says that the queue's members are the newest of the
  deliveries let through, in the same order, so that a delivery not in the set
  is at least a capacity away from its last passage.
- *One run.* `GrantInv` says that every granted call's key is in the store, so
  that the conditional write refuses the next.
- *One hand-over.* Every comment handled, or on its way to the handler in a
  webhook or in the poller, is at or below the cursor of its pull request and on
  its way only once; a claim needs the comment to be above. For *replays*
  (`OldPassed`), every comment from before the start that is above a cursor has
  a late webhook's comment below it: only seeding, which goes above the list, or
  a webhook sets a cursor first.
- *A review's findings.* At every place of the pipeline what is left of the
  findings, together with what the verdicts, the floor and the guard dropped, is
  what the model reported. The paths a later step may name are fixed by the
  configuration when the diff is cut down.
- *The marker.* Everything the bot may write (the texts on the pull request and
  the snapshots that jobs and commands hold) is words of one person at one time
  with the marker whole or absent, and with it only after an override was
  posted. The snapshots are what make the property inductive. The refinement of
  `OverrideMarker` uses the same invariant: a strip needs a snapshot with the
  marker, a stamp follows its approval, so both are `Write` after `Override`;
  every other step leaves the texts alone and can at most post an override.
- *The gateway.* Per request, what its place says about the bucket, the delivery
  ids and the head; every id in the dedup store is that of a delivery that got
  that far. The bucket's argument is an account: what it holds and
  has granted never exceeds the burst, the refills, and the seconds the clock
  was set back. For the probes, whoever holds the lock has read the clock after
  the last entry ran out. For the metrics, what each counter has and what the
  tasks still owe it is compared, and a scrape's reads differ from these by what
  was recorded since it began.
- *Learnings.* Ids told or stored or about to be put, also by a late copy, are
  below `nextId` and belong to one command; an id that was removed has no
  command that could still put it, so only a late copy can.
- *Vectors.* A row that a build fetched, or found in the table, may be anyone's;
  but a symbol whose row has another text is embedded again, and the build's own
  list takes its texts from its head. Scoring goes by that list and not by the
  table. While the answers were in order, the vectors so far are those of the
  misses so far, place by place, and as many. That each batch takes symbols in
  order, and that all misses have been embedded when the batches end, goes by
  the least symbol that is not.
- *Tokens.* A token in a caller's hands was fresh by the margin when it was
  handed out, or has been asked for no longer than its lifetime before it
  expires; so a refusal means that it was used too long, not that it was old.
- *Webhooks.* The list is in the order of its ids; what an undisturbed listing
  has read is a beginning of the list, page by page, and others can only append.
  A deletion marks every listing under way as raced. An unregister has still to
  delete what is left of those it found.
- *The tools.* A path leads to a node or nowhere, whatever links it crosses, and
  `starts_with` is asked of the node it led to. A search goes down only, so what
  it finds is below a node inside the workspace. The caps are cardinalities of
  intervals and of finite sets of pairs.
- *Costs.* By tier, the log adds up to what the bill of the answers adds up to,
  cut off at the u32's limit: saturating step by step is saturating once. The
  bill is the price of its sums, since a price is linear in the tokens.
- *The benchmark* (`BenchSound`). Each result says of its own fixture what the
  property says of the sum. Along the findings, the claimed labels at a spot are
  as many as findings so far and labels there both allow (`ClaimsAre`), so the
  claims in the end are in one-to-one correspondence with the pairs of the best
  matching (`GreedyIsBest`). The insertion sort keeps the list in order and adds
  one to the count below each value that is not under the new one
  (`InsertedSound`, `Sorts`), which makes a rank in the list a count of results
  (`Ranks`). One success less among fewer than 20 is more than 5 points, so the
  tie of the floating-point comparison is out of reach (`LostIsRegression`).

Recursive definitions that the theorems are about (ids of matching webhooks, the
place of a path, the way up a tree, sums, bills, claims, the sort) are functions on
`0..Len(s)` or on the tree. That such a function exists, and that one element
more is one step more, is proved by looking at the least counterexample:
`LeastOf` for numbers, `TreeEnds` for the tree (`PrefixesExist`, `OneMoreStep`,
`TreeRecursion` in `WorkbenchProofs`).

Only model-checked: the liveness properties (`EveryJobEnds`, `PendingResolves`,
`PolledMentionHandled`, `EveryReviewEnds`, `EveryMentionAnswered`,
`ShutdownEnds`), since fairness and ENABLED are out of the prover's reach.

## Plan

What is left: intake and dispatcher composed, from a mention to a recorded
review.

## Not modelled

- `PrRunState` (`ar-orchestrator/src/state.rs`), the LLM triage of `ar-review`,
  the co-change analysis and the GitHub webhook parser are called by nothing in
  the workspace.
- Tree-sitter symbol extraction, YAML and JSON syntax, HMAC, diff hunks and
  positions, URL encoding, prompts, review wording, printing: text without state.
  Where a caller acts on the outcome, the outcome is a choice.
- Similarity and prices are floating-point arithmetic: an order chosen freely,
  and whole numbers.
- git, the container runtime, SQLite, DynamoDB, the forge and the models are
  external: steps that succeed, fail, or fail after they took effect.
