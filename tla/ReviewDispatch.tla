--------------------------- MODULE ReviewDispatch ---------------------------
(***************************************************************************)
(* The review dispatcher of ar-orchestrator: SpawningDispatcher::dispatch, *)
(* run_review_job, the review history it consults, and the commit status   *)
(* it keeps on the forge.                                                  *)
(*                                                                         *)
(* One job is one call of `dispatch`.  Its outer task takes a permit of    *)
(* the concurrency semaphore, runs run_review_job as an inner task, posts  *)
(* an error status if the inner task panicked, and gives the permit back.  *)
(* Every await of the job is a step of its own, so jobs for one pull       *)
(* request interleave with each other, with pushes to the branch, with the *)
(* operator's `history reset-pr` and with a restart of the gateway.        *)
(*                                                                         *)
(* A diff is the set of commits whose changes it shows.                    *)
(***************************************************************************)
EXTENDS Integers, Sequences, FiniteSets

CONSTANTS
    Jobs,               \* identities of the calls of dispatch()
    PRs,                \* pull requests
    Commits,            \* commits on the pull requests' branches
    Anc,                \* Anc[c]: the branch's commits up to and with c
    NoCommit,           \* Option::None for a commit
    ConcurrencyLimit,   \* AR_REVIEW_CONCURRENCY
    Durable,            \* history in SQLite (TRUE) or in memory (FALSE)
    ForcePush,          \* may a push replace commits?
    Faults,             \* the environment failures that may happen
    MaxRestarts         \* bound: restarts of the gateway process

FaultKinds == {"history", "compare", "status", "prepare", "diff",
               "review", "record", "panic", "hang", "crash"}

ASSUME DispatchAssumption ==
    /\ IsFiniteSet(Jobs)
    /\ PRs # {}
    /\ Commits # {}
    /\ NoCommit \notin Commits
    /\ Anc \in [Commits -> SUBSET Commits]
    /\ \A c \in Commits : c \in Anc[c]
    /\ \A c \in Commits : \A d \in Anc[c] : Anc[d] \subseteq Anc[c]
    /\ ConcurrencyLimit \in Nat
    /\ Durable \in BOOLEAN
    /\ ForcePush \in BOOLEAN
    /\ Faults \subseteq FaultKinds
    /\ MaxRestarts \in Nat

VARIABLES
    \* the forge
    head,       \* the pull request's head commit
    status,     \* commit status under the context "auto_review"
    reviewed,   \* commits whose changes were in the diff of a posted review
    \* the gateway
    history,    \* ReviewHistory: the recorded commit of each pull request
    permits,    \* permits left in the semaphore
    queue,      \* tasks waiting for a permit, in arrival order
    restarts,
    \* each job
    pc, pr, sha, force,
    base,       \* commit an incremental diff starts from, or NoCommit
    diff,       \* the diff in hand; {} when there is none
    outcome,    \* what review_pull_request returned
    obs         \* ReviewObservations recorded for the job

forgeVars   == <<head, status, reviewed>>
gatewayVars == <<history, permits, queue, restarts>>
jobVars     == <<pc, pr, sha, force, base, diff, outcome, obs>>
vars        == <<forgeVars, gatewayVars, jobVars>>

-----------------------------------------------------------------------------
(* with_concurrency_limit(max): Semaphore::new(max.max(1)). *)
Cap == IF ConcurrencyLimit < 1 THEN 1 ELSE ConcurrencyLimit

ErrorClasses == {"forgejo", "workspace", "llm", "unhealable"}

(* error_class and error_state, and Success for an Ok result. *)
FinalState(result) ==
    IF result = "ok" THEN "success"
    ELSE IF result \in {"forgejo", "workspace"} THEN "error"
    ELSE "failure"

(* Where the inner task, run_review_job, can be. *)
Inner == {"lookup", "pending", "triage", "prepare", "skip", "review",
          "posting", "final", "record"}

(* Awaits on the network; no client in the workspace sets a timeout. *)
NetworkWaits == {"lookup", "pending", "triage", "prepare", "skip", "review",
                 "posting", "final", "crashed"}

(* The job's outer task owns a permit. *)
Holding == Inner \cup {"crashed", "hung", "release"}

Holders == {j \in Jobs : pc[j] \in Holding}

Observe(j, o) == obs' = [obs EXCEPT ![j] = Append(@, o)]

(* post_review_status: failures are logged and swallowed. *)
PostStatus(c, state) ==
    \/ status' = [status EXCEPT ![c] = state]
    \/ /\ "status" \in Faults
       /\ UNCHANGED status

Goto(j, from, to) ==
    /\ pc[j] = from
    /\ pc' = [pc EXCEPT ![j] = to]

Init ==
    /\ head \in [PRs -> Commits]
    /\ status = [c \in Commits |-> "none"]
    /\ reviewed = [p \in PRs |-> {}]
    /\ history = [p \in PRs |-> NoCommit]
    /\ permits = Cap
    /\ queue = <<>>
    /\ restarts = 0
    /\ pc = [j \in Jobs |-> "idle"]
    /\ pr = [j \in Jobs |-> CHOOSE p \in PRs : TRUE]
    /\ sha = [j \in Jobs |-> CHOOSE c \in Commits : TRUE]
    /\ force = [j \in Jobs |-> FALSE]
    /\ base = [j \in Jobs |-> NoCommit]
    /\ diff = [j \in Jobs |-> {}]
    /\ outcome = [j \in Jobs |-> "none"]
    /\ obs = [j \in Jobs |-> <<>>]

-----------------------------------------------------------------------------
(* The environment: authors push, operators reset, the process restarts.   *)

Push(p, c) ==
    /\ c # head[p]
    /\ head[p] \in Anc[c] \/ ForcePush
    /\ head' = [head EXCEPT ![p] = c]
    /\ UNCHANGED <<status, reviewed, gatewayVars, jobVars>>

(* history reset-pr on the shared SQLite file, while the gateway runs. *)
ResetPr(p) ==
    /\ Durable
    /\ history' = [history EXCEPT ![p] = NoCommit]
    /\ UNCHANGED <<forgeVars, permits, queue, restarts, jobVars>>

(* history purge: one DELETE for the rows older than the cutoff. *)
PurgeHistory(old) ==
    /\ Durable
    /\ history' = [p \in PRs |-> IF p \in old THEN NoCommit ELSE history[p]]
    /\ UNCHANGED <<forgeVars, permits, queue, restarts, jobVars>>

(* Tasks and the semaphore live in the process; nothing re-queues them. *)
Restart ==
    /\ "crash" \in Faults
    /\ restarts < MaxRestarts
    /\ restarts' = restarts + 1
    /\ pc' = [j \in Jobs |->
                IF pc[j] \in {"idle", "done"} THEN pc[j] ELSE "lost"]
    /\ permits' = Cap
    /\ queue' = <<>>
    /\ history' = IF Durable THEN history ELSE [p \in PRs |-> NoCommit]
    /\ UNCHANGED <<forgeVars, pr, sha, force, base, diff, outcome, obs>>

-----------------------------------------------------------------------------
(* SpawningDispatcher::dispatch, the outer task.                           *)

(* The caller has just read the head commit from the forge. *)
Dispatch(j, p, f) ==
    /\ Goto(j, "idle", "spawned")
    /\ pr' = [pr EXCEPT ![j] = p]
    /\ sha' = [sha EXCEPT ![j] = head[p]]
    /\ force' = [force EXCEPT ![j] = f]
    /\ UNCHANGED <<forgeVars, gatewayVars, base, diff, outcome, obs>>

(* available_permits() == 0, read before the acquire and not with it. *)
CheckPermits(j) ==
    /\ Goto(j, "spawned", "acquiring")
    /\ IF permits = 0 THEN Observe(j, "QueueWait") ELSE UNCHANGED obs
    /\ UNCHANGED <<forgeVars, gatewayVars, pr, sha, force, base, diff,
                   outcome>>

(* Mutant of Acquire: takes a permit whether or not one is free. *)
AcquireUnchecked(j) ==
    /\ Goto(j, "acquiring", "lookup")
    /\ permits' = permits - 1
    /\ UNCHANGED <<forgeVars, history, queue, restarts, pr, sha, force, base,
                   diff, outcome, obs>>

(* acquire_owned(): a free permit, or a place at the end of the queue. *)
Acquire(j) ==
    /\ \/ /\ permits > 0
          /\ Goto(j, "acquiring", "lookup")
          /\ permits' = permits - 1
          /\ UNCHANGED queue
       \/ /\ permits = 0
          /\ Goto(j, "acquiring", "queued")
          /\ queue' = Append(queue, j)
          /\ UNCHANGED permits
    /\ UNCHANGED <<forgeVars, history, restarts, pr, sha, force, base, diff,
                   outcome, obs>>

(* The outer task ends; the semaphore hands the permit to the first waiter. *)
Release(j) ==
    /\ \/ /\ queue = <<>>
          /\ Goto(j, "release", "done")
          /\ permits' = permits + 1
          /\ UNCHANGED queue
       \/ /\ queue # <<>>
          /\ pc[j] = "release"
          /\ pc' = [pc EXCEPT ![j] = "done", ![Head(queue)] = "lookup"]
          /\ queue' = Tail(queue)
          /\ UNCHANGED permits
    /\ UNCHANGED <<forgeVars, history, restarts, pr, sha, force, base, diff,
                   outcome, obs>>

(* Mutant of Panic: the outer task observes nothing. *)
PanicUnobserved(j) ==
    /\ "panic" \in Faults
    /\ pc[j] \in Inner
    /\ pc' = [pc EXCEPT ![j] = "crashed"]
    /\ UNCHANGED <<forgeVars, gatewayVars, pr, sha, force, base, diff,
                   outcome, obs>>

(* The inner task panicked: observed by the outer one as Failed{panic}. *)
Panic(j) ==
    /\ "panic" \in Faults
    /\ pc[j] \in Inner
    /\ pc' = [pc EXCEPT ![j] = "crashed"]
    /\ Observe(j, "FailedPanic")
    /\ UNCHANGED <<forgeVars, gatewayVars, pr, sha, force, base, diff,
                   outcome>>

(* Mutant of PostCrashStatus: the crashed task keeps its permit. *)
PostCrashStatusLeaks(j) ==
    /\ Goto(j, "crashed", "done")
    /\ PostStatus(sha[j], "error")
    /\ UNCHANGED <<head, reviewed, gatewayVars, pr, sha, force, base,
                   diff, outcome, obs>>

(* Best-effort error status of the outer task, for the job's commit. *)
PostCrashStatus(j) ==
    /\ Goto(j, "crashed", "release")
    /\ PostStatus(sha[j], "error")
    /\ UNCHANGED <<head, reviewed, gatewayVars, pr, sha, force, base,
                   diff, outcome, obs>>

(* The peer accepts the request and never answers. *)
Hang(j) ==
    /\ "hang" \in Faults
    /\ pc[j] \in NetworkWaits
    /\ pc' = [pc EXCEPT ![j] = "hung"]
    /\ UNCHANGED <<forgeVars, gatewayVars, pr, sha, force, base, diff,
                   outcome, obs>>

-----------------------------------------------------------------------------
(* run_review_job, await by await.                                         *)

(* What history.last_reviewed may answer: an error is taken for None. *)
LastReviewed(p) ==
    {history[p]} \cup (IF "history" \in Faults THEN {NoCommit} ELSE {})

(* No new commits since the last review, and not forced. *)
SkipSameSha(j) ==
    /\ Goto(j, "lookup", "release")
    /\ ~force[j]
    /\ sha[j] \in LastReviewed(pr[j])
    /\ Observe(j, "Skipped")
    /\ UNCHANGED <<forgeVars, gatewayVars, pr, sha, force, base, diff,
                   outcome>>

(* The compare diff from prev, or none: the review is then a full one. *)
FetchIncrementalDiff(j, prev) ==
    \/ base' = [base EXCEPT ![j] = prev]
    \/ /\ "compare" \in Faults
       /\ base' = [base EXCEPT ![j] = NoCommit]

(* Only a new commit on top of a recorded one, without force, asks for it. *)
BeginReview(j) ==
    /\ Goto(j, "lookup", "pending")
    /\ \E prev \in LastReviewed(pr[j]) :
          \/ /\ prev \notin {NoCommit, sha[j]}
             /\ ~force[j]
             /\ FetchIncrementalDiff(j, prev)
          \/ /\ prev = NoCommit \/ force[j]
             /\ base' = [base EXCEPT ![j] = NoCommit]
    /\ UNCHANGED <<forgeVars, gatewayVars, pr, sha, force, diff, outcome, obs>>

PostPending(j) ==
    /\ Goto(j, "pending", "triage")
    /\ PostStatus(sha[j], "pending")
    /\ UNCHANGED <<head, reviewed, gatewayVars, pr, sha, force, base,
                   diff, outcome, obs>>

(* list_changed_files and pr_is_skippable; without a list, review anyway. *)
Triage(j) ==
    /\ \/ Goto(j, "triage", "prepare")
       \/ Goto(j, "triage", "skip")
    /\ UNCHANGED <<forgeVars, gatewayVars, pr, sha, force, base, diff,
                   outcome, obs>>

(* prepare_workspace_context, past the config: the diff it hands back is   *)
(* the pull request's at this moment, not that of sha[j]; or there is none. *)
PrepareWorkspaceContext(j) ==
    \/ diff' = [diff EXCEPT ![j] = Anc[head[pr[j]]]]
    \/ /\ "prepare" \in Faults
       /\ UNCHANGED diff

(* Mutant of Prepare: returns on a disabled repository without a status. *)
PrepareSilentSkip(j) ==
    /\ \/ /\ Goto(j, "prepare", "release")
          /\ Observe(j, "Skipped")
          /\ UNCHANGED diff
       \/ /\ Goto(j, "prepare", "review")
          /\ PrepareWorkspaceContext(j)
          /\ Observe(j, "Started")
    /\ UNCHANGED <<forgeVars, gatewayVars, pr, sha, force, base, outcome>>

(* The repository's config may disable reviews; else the review starts,    *)
(* whether or not the preparation worked.                                  *)
Prepare(j) ==
    /\ \/ /\ Goto(j, "prepare", "skip")
          /\ UNCHANGED <<diff, obs>>
       \/ /\ Goto(j, "prepare", "review")
          /\ PrepareWorkspaceContext(j)
          /\ Observe(j, "Started")
    /\ UNCHANGED <<forgeVars, gatewayVars, pr, sha, force, base, outcome>>

(* Trivial files or disabled by config: success, and nothing recorded. *)
PostSkipped(j) ==
    /\ Goto(j, "skip", "release")
    /\ PostStatus(sha[j], "success")
    /\ Observe(j, "Skipped")
    /\ UNCHANGED <<head, reviewed, gatewayVars, pr, sha, force, base,
                   diff, outcome>>

(* A failed review: the error's class is observed, the final status next. *)
FailReview(j, class) ==
    /\ outcome' = [outcome EXCEPT ![j] = class]
    /\ Observe(j, "Failed")

(* diff_override: the compare diff, else the diff of the preparation, else *)
(* the pipeline fetches the pull request's diff itself.                    *)
LoadDiff(j) ==
    /\ \/ /\ Goto(j, "review", "posting")
          /\ diff' = [diff EXCEPT ![j] =
                        IF base[j] # NoCommit THEN Anc[sha[j]] \ Anc[base[j]]
                        ELSE IF @ # {} THEN @
                        ELSE Anc[head[pr[j]]]]
          /\ UNCHANGED <<outcome, obs>>
       \/ /\ "diff" \in Faults
          /\ base[j] = NoCommit
          /\ diff[j] = {}
          /\ Goto(j, "review", "final")
          /\ FailReview(j, "forgejo")
          /\ UNCHANGED diff
    /\ UNCHANGED <<forgeVars, gatewayVars, pr, sha, force, base>>

(* The review lands on the pull request. *)
Land(j) == reviewed' = [reviewed EXCEPT ![pr[j]] = @ \cup diff[j]]

(* review_pull_request from the model call to create_review.  A host error *)
(* may hide a review that landed: the request got through, the answer not. *)
PostReview(j) ==
    /\ Goto(j, "posting", "final")
    /\ \/ /\ Land(j)
          /\ outcome' = [outcome EXCEPT ![j] = "ok"]
          /\ Observe(j, "Succeeded")
       \/ /\ "review" \in Faults
          /\ \E class \in ErrorClasses : FailReview(j, class)
          /\ UNCHANGED reviewed
       \/ /\ "review" \in Faults
          /\ Land(j)
          /\ FailReview(j, "forgejo")
    /\ UNCHANGED <<head, status, gatewayVars, pr, sha, force, base, diff>>

(* Mutant of PostFinalStatus: a failed review is recorded too. *)
PostFinalStatusThenRecord(j) ==
    /\ Goto(j, "final", "record")
    /\ PostStatus(sha[j], FinalState(outcome[j]))
    /\ UNCHANGED <<head, reviewed, gatewayVars, pr, sha, force, base,
                   diff, outcome, obs>>

(* The final status; only a successful review goes on to be recorded. *)
PostFinalStatus(j) ==
    /\ Goto(j, "final", IF outcome[j] = "ok" THEN "record" ELSE "release")
    /\ PostStatus(sha[j], FinalState(outcome[j]))
    /\ UNCHANGED <<head, reviewed, gatewayVars, pr, sha, force, base,
                   diff, outcome, obs>>

(* record_with_cost: one upsert, its failure logged and swallowed. *)
Record(j) ==
    /\ Goto(j, "record", "release")
    /\ \/ history' = [history EXCEPT ![pr[j]] = sha[j]]
       \/ /\ "record" \in Faults
          /\ UNCHANGED history
    /\ UNCHANGED <<forgeVars, permits, queue, restarts, pr, sha, force, base,
                   diff, outcome, obs>>

-----------------------------------------------------------------------------
JobStep(j) ==
    \/ CheckPermits(j) \/ Acquire(j) \/ Release(j) \/ PostCrashStatus(j)
    \/ SkipSameSha(j) \/ BeginReview(j) \/ PostPending(j) \/ Triage(j)
    \/ Prepare(j) \/ PostSkipped(j) \/ LoadDiff(j) \/ PostReview(j)
    \/ PostFinalStatus(j) \/ Record(j)

Next ==
    \/ \E p \in PRs, c \in Commits : Push(p, c)
    \/ \E p \in PRs : ResetPr(p)
    \/ \E old \in SUBSET PRs : PurgeHistory(old)
    \/ Restart
    \/ \E j \in Jobs, p \in PRs, f \in BOOLEAN : Dispatch(j, p, f)
    \/ \E j \in Jobs : JobStep(j) \/ Panic(j) \/ Hang(j)

(* The runtime polls every ready task; peers that do not hang answer. *)
Fairness == \A j \in Jobs : WF_vars(JobStep(j))

Spec == Init /\ [][Next]_vars

FairSpec == Spec /\ Fairness

-----------------------------------------------------------------------------
(* Properties.                                                             *)

Statuses == {"none", "pending", "success", "error", "failure"}

Places == Holding \cup {"idle", "spawned", "acquiring", "queued", "done",
                        "lost"}

Observations == {"QueueWait", "Started", "Succeeded", "Failed",
                 "FailedPanic", "Skipped"}

(* Every variable has its type; in particular no permit is taken twice. *)
TypeOK ==
    /\ head \in [PRs -> Commits]
    /\ status \in [Commits -> Statuses]
    /\ reviewed \in [PRs -> SUBSET Commits]
    /\ history \in [PRs -> Commits \cup {NoCommit}]
    /\ permits \in Nat
    /\ queue \in Seq(Jobs)
    /\ restarts \in 0..MaxRestarts
    /\ pc \in [Jobs -> Places]
    /\ pr \in [Jobs -> PRs]
    /\ sha \in [Jobs -> Commits]
    /\ force \in [Jobs -> BOOLEAN]
    /\ base \in [Jobs -> Commits \cup {NoCommit}]
    /\ diff \in [Jobs -> SUBSET Commits]
    /\ outcome \in [Jobs -> ErrorClasses \cup {"none", "ok"}]
    /\ obs \in [Jobs -> Seq(Observations)]

(* Permits are neither lost nor forged: whatever path a review takes out,  *)
(* skip, error, panic or success, its permit is free or in a running job,  *)
(* so at most Cap reviews are in flight and the cap never shrinks.         *)
PermitsConserved == permits + Cardinality(Holders) = Cap

(* A recorded commit is one the next review may skip over: everything up   *)
(* to it was shown to a review that was posted.  Failed, skipped and       *)
(* overlapping jobs never record more than that.                           *)
RecordedIsReviewed ==
    \A p \in PRs : history[p] # NoCommit => Anc[history[p]] \subseteq reviewed[p]

(* Jobs that still have a status to post for their commit. *)
StatusOwners == {"triage", "prepare", "skip", "review", "posting", "final",
                 "crashed", "hung"}

(* A commit shows "pending" only while some job is there to replace it: no *)
(* early return, error or panic of run_review_job leaves it behind.        *)
PendingIsOwned ==
    \A c \in Commits : status[c] = "pending" =>
        \E j \in Jobs : sha[j] = c /\ pc[j] \in StatusOwners

(* What a finished job reported, after the queue wait if there was one. *)
Reported(j) ==
    IF obs[j] # <<>> /\ Head(obs[j]) = "QueueWait" THEN Tail(obs[j]) ELSE obs[j]

OneOutcome == {<<"Skipped">>, <<"Started", "Succeeded">>, <<"Started", "Failed">>}

(* Started, succeeded, failed and skipped add up: a job whose task did not *)
(* panic reports exactly one of a skip and a start with one outcome.  A    *)
(* panic is counted once, after a leading part of such a report.  This is  *)
(* less than the code's comments say, and what it does: a job that waited  *)
(* may be skipped, where dispatcher.rs:57-58 has a start follow every      *)
(* queue wait; and a panic after the outcome counts the job a second time, *)
(* where dispatcher.rs:601-606 has exactly one outcome and no double count.*)
ObservationsAddUp ==
    \A j \in Jobs : pc[j] = "done" =>
        \/ Reported(j) \in OneOutcome
        \/ \E said \in {<<>>, <<"Started">>, <<"Started", "Succeeded">>,
                         <<"Started", "Failed">>} :
              Reported(j) = Append(said, "FailedPanic")

(* No accepted job is dropped or left waiting for a permit: each ends,     *)
(* whatever its own steps and those of the jobs before it run into.        *)
EveryJobEnds == \A j \in Jobs : pc[j] = "spawned" ~> pc[j] = "done"

(* A pending commit status is eventually replaced. *)
PendingResolves ==
    \A c \in Commits : status[c] = "pending" ~> status[c] # "pending"

(* The dispatcher implements the ledger: a commit becomes the base of      *)
(* incremental reviews only once all its ancestry was shown to a review.   *)
Ledger == INSTANCE ReviewLedger WITH seen <- reviewed, recorded <- history

ImplementsLedger == Ledger!Spec
=============================================================================
