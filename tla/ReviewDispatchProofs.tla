------------------------ MODULE ReviewDispatchProofs ------------------------
(***************************************************************************)
(* Proofs about ReviewDispatch for every set of jobs, pull requests and    *)
(* commits, every concurrency limit and every set of faults.               *)
(***************************************************************************)
EXTENDS ReviewDispatch, FiniteSetTheorems, TLAPS

LEMMA AppendType ==
    ASSUME NEW S, NEW s \in Seq(S), NEW e \in S
    PROVE  Append(s, e) \in Seq(S)
OBVIOUS

LEMMA InitTypes == Init => TypeOK
<1> SUFFICES ASSUME Init PROVE TypeOK
  OBVIOUS
<1>1. (CHOOSE p \in PRs : TRUE) \in PRs /\ (CHOOSE c \in Commits : TRUE) \in Commits
  BY DispatchAssumption
<1>2. Cap \in Nat /\ 0 \in 0..MaxRestarts
  BY DispatchAssumption DEF Cap
<1>3. <<>> \in Seq(Jobs) /\ <<>> \in Seq(Observations)
  OBVIOUS
<1>. QED
  BY <1>1, <1>2, <1>3 DEF Init, TypeOK, Places, Statuses

LEMMA ObserveType ==
    ASSUME TypeOK, NEW j \in Jobs, NEW o \in Observations, Observe(j, o)
    PROVE  obs' \in [Jobs -> Seq(Observations)]
<1>1. obs[j] \in Seq(Observations)
  BY DEF TypeOK
<1>2. Append(obs[j], o) \in Seq(Observations)
  BY <1>1, AppendType
<1>. QED
  BY <1>2 DEF TypeOK, Observe

LEMMA PostStatusType ==
    ASSUME TypeOK, NEW c \in Commits, NEW s \in Statuses, PostStatus(c, s)
    PROVE  status' \in [Commits -> Statuses]
BY DEF TypeOK, PostStatus

(* Every step keeps the types. *)
LEMMA NextTypes == TypeOK /\ [Next]_vars => TypeOK'
<1> SUFFICES ASSUME TypeOK, [Next]_vars PROVE TypeOK'
  OBVIOUS
<1> USE DEF TypeOK, forgeVars, gatewayVars, jobVars
<1>1. ASSUME NEW p \in PRs, NEW c \in Commits, Push(p, c) PROVE TypeOK'
  BY <1>1 DEF Push
<1>2. ASSUME NEW p \in PRs, ResetPr(p) PROVE TypeOK'
  BY <1>2 DEF ResetPr
<1>3. ASSUME NEW old \in SUBSET PRs, PurgeHistory(old) PROVE TypeOK'
  BY <1>3 DEF PurgeHistory
<1>4. CASE Restart
  <2>1. restarts' \in 0..MaxRestarts /\ Cap \in Nat
    BY <1>4, DispatchAssumption DEF Restart, Cap
  <2>2. pc' \in [Jobs -> Places]
    BY <1>4 DEF Restart, Places
  <2>. QED
    BY <1>4, <2>1, <2>2 DEF Restart
<1>5. ASSUME NEW j \in Jobs, NEW p \in PRs, NEW f \in BOOLEAN, Dispatch(j, p, f)
      PROVE  TypeOK'
  BY <1>5 DEF Dispatch, Goto, Places
<1>6. ASSUME NEW j \in Jobs, JobStep(j) PROVE TypeOK'
  <2> USE DEF Goto
  <2>1. CASE CheckPermits(j)
    <3>1. obs' \in [Jobs -> Seq(Observations)]
      BY <2>1, ObserveType DEF CheckPermits, Observations
    <3>. QED
      BY <2>1, <3>1 DEF CheckPermits, Places
  <2>2. CASE Acquire(j)
    <3>1. Append(queue, j) \in Seq(Jobs)
      BY AppendType
    <3>2. queue' \in Seq(Jobs) /\ permits' \in Nat
      <4>1. CASE permits > 0
        BY <2>2, <4>1 DEF Acquire
      <4>2. CASE permits = 0
        <5>1. queue' = Append(queue, j) /\ permits' = permits
          BY <2>2, <4>2 DEF Acquire
        <5>. QED
          BY <3>1, <5>1
      <4>. QED
        BY <4>1, <4>2
    <3>3. pc' \in [Jobs -> Places]
      BY <2>2 DEF Acquire, Places, Holding, Inner
    <3>. QED
      BY <2>2, <3>2, <3>3 DEF Acquire
  <2>3. CASE Release(j)
    <3>1. queue # <<>> => Head(queue) \in Jobs /\ Tail(queue) \in Seq(Jobs)
      OBVIOUS
    <3>2. queue' \in Seq(Jobs) /\ permits' \in Nat
      <4>1. CASE queue = <<>>
        BY <2>3, <4>1 DEF Release
      <4>2. CASE queue # <<>>
        BY <2>3, <3>1, <4>2 DEF Release
      <4>. QED
        BY <4>1, <4>2
    <3>3. pc' \in [Jobs -> Places]
      BY <2>3, <3>1 DEF Release, Places, Holding, Inner
    <3>. QED
      BY <2>3, <3>2, <3>3 DEF Release
  <2>4. CASE PostCrashStatus(j)
    BY <2>4, PostStatusType DEF PostCrashStatus, Places, Holding, Statuses
  <2>5. CASE SkipSameSha(j)
    <3>1. obs' \in [Jobs -> Seq(Observations)]
      BY <2>5, ObserveType DEF SkipSameSha, Observations
    <3>. QED
      BY <2>5, <3>1 DEF SkipSameSha, Places, Holding
  <2>6. CASE BeginReview(j)
    <3>1. base' \in [Jobs -> Commits \cup {NoCommit}]
      BY <2>6 DEF BeginReview, FetchIncrementalDiff, LastReviewed
    <3>. QED
      BY <2>6, <3>1 DEF BeginReview, FetchIncrementalDiff, Places, Holding, Inner
  <2>7. CASE PostPending(j)
    BY <2>7, PostStatusType DEF PostPending, Places, Holding, Inner, Statuses
  <2>8. CASE Triage(j)
    BY <2>8 DEF Triage, Places, Holding, Inner
  <2>9. CASE Prepare(j)
    <3>1. obs' \in [Jobs -> Seq(Observations)]
      BY <2>9, ObserveType DEF Prepare, PrepareWorkspaceContext, Observations
    <3>2. diff' \in [Jobs -> SUBSET Commits]
      <4>1. Anc[head[pr[j]]] \in SUBSET Commits
        BY DispatchAssumption
      <4>2. diff' = diff \/ diff' = [diff EXCEPT ![j] = Anc[head[pr[j]]]]
        BY <2>9 DEF Prepare, PrepareWorkspaceContext
      <4>. QED
        BY <4>1, <4>2
    <3>3. pc' \in [Jobs -> Places]
      BY <2>9 DEF Prepare, PrepareWorkspaceContext, Places, Holding, Inner
    <3>. QED
      BY <2>9, <3>1, <3>2, <3>3 DEF Prepare, PrepareWorkspaceContext
  <2>10. CASE PostSkipped(j)
    <3>1. obs' \in [Jobs -> Seq(Observations)]
      BY <2>10, ObserveType DEF PostSkipped, Observations
    <3>. QED
      BY <2>10, <3>1, PostStatusType DEF PostSkipped, Places, Holding, Statuses
  <2>11. CASE LoadDiff(j)
    <3>1. obs' \in [Jobs -> Seq(Observations)]
      BY <2>11, ObserveType DEF LoadDiff, FailReview, Observations
    <3>2. diff' \in [Jobs -> SUBSET Commits]
      <4>1. /\ Anc[head[pr[j]]] \in SUBSET Commits
            /\ Anc[sha[j]] \ Anc[base[j]] \in SUBSET Commits
        BY DispatchAssumption
      <4>2. \/ diff' = diff
            \/ diff' = [diff EXCEPT ![j] = diff[j]]
            \/ diff' = [diff EXCEPT ![j] = Anc[head[pr[j]]]]
            \/ diff' = [diff EXCEPT ![j] = Anc[sha[j]] \ Anc[base[j]]]
        BY <2>11 DEF LoadDiff
      <4>. QED
        BY <4>1, <4>2
    <3>3. outcome' \in [Jobs -> ErrorClasses \cup {"none", "ok"}]
      BY <2>11 DEF LoadDiff, FailReview, ErrorClasses
    <3>4. pc' \in [Jobs -> Places]
      BY <2>11 DEF LoadDiff, Places, Holding, Inner
    <3>. QED
      BY <2>11, <3>1, <3>2, <3>3, <3>4 DEF LoadDiff
  <2>12. CASE PostReview(j)
    <3>1. obs' \in [Jobs -> Seq(Observations)]
      BY <2>12, ObserveType DEF PostReview, FailReview, Observations
    <3>2. reviewed' \in [PRs -> SUBSET Commits]
      <4>1. UNCHANGED reviewed \/ Land(j)
        BY <2>12 DEF PostReview
      <4>2. pr[j] \in PRs /\ diff[j] \in SUBSET Commits
        OBVIOUS
      <4>3. CASE Land(j)
        BY <4>2, <4>3 DEF Land
      <4>. QED
        BY <4>1, <4>3
    <3>3. outcome' \in [Jobs -> ErrorClasses \cup {"none", "ok"}]
      BY <2>12 DEF PostReview, FailReview, ErrorClasses
    <3>. QED
      BY <2>12, <3>1, <3>2, <3>3 DEF PostReview, Places, Holding, Inner
  <2>13. CASE PostFinalStatus(j)
    <3>1. FinalState(outcome[j]) \in Statuses
      BY DEF FinalState, Statuses
    <3>. QED
      BY <2>13, <3>1, PostStatusType DEF PostFinalStatus, Places, Holding, Inner
  <2>14. CASE Record(j)
    BY <2>14 DEF Record, Places, Holding
  <2>. QED
    BY <1>6, <2>1, <2>2, <2>3, <2>4, <2>5, <2>6, <2>7, <2>8, <2>9, <2>10,
       <2>11, <2>12, <2>13, <2>14 DEF JobStep
<1>7. ASSUME NEW j \in Jobs, Panic(j) PROVE TypeOK'
  <2>1. obs' \in [Jobs -> Seq(Observations)]
    BY <1>7, ObserveType DEF Panic, Observations
  <2>. QED
    BY <1>7, <2>1 DEF Panic, Places, Holding
<1>8. ASSUME NEW j \in Jobs, Hang(j) PROVE TypeOK'
  BY <1>8 DEF Hang, Places, Holding
<1>9. CASE UNCHANGED vars
  BY <1>9 DEF vars
<1>. QED
  BY <1>1, <1>2, <1>3, <1>4, <1>5, <1>6, <1>7, <1>8, <1>9 DEF Next

(* Type correctness of the dispatcher, under every fault. *)
THEOREM TypeCorrect == Spec => []TypeOK
<1>1. Init => TypeOK
  BY InitTypes
<1>2. TypeOK /\ [Next]_vars => TypeOK'
  BY NextTypes
<1>. QED
  BY <1>1, <1>2, PTL DEF Spec

-----------------------------------------------------------------------------
(* The tasks in the semaphore's queue are the ones that wait there, each   *)
(* once, so a permit is never handed to a job that is already running.     *)

QueueInv ==
    /\ \A i \in 1..Len(queue) : pc[queue[i]] = "queued"
    /\ \A i, k \in 1..Len(queue) : queue[i] = queue[k] => i = k

LEMMA InitQueues == Init => QueueInv
BY DEF Init, QueueInv

LEMMA HeadAndTail ==
    ASSUME NEW S, NEW s \in Seq(S), s # <<>>
    PROVE  /\ Head(s) = s[1] /\ Head(s) \in S
           /\ 1 \in 1..Len(s)
           /\ Len(Tail(s)) = Len(s) - 1
           /\ \A i \in 1..Len(Tail(s)) : Tail(s)[i] = s[i+1] /\ i+1 \in 1..Len(s)
OBVIOUS

(* A step that moves one job which does not wait leaves the queue right.   *)
LEMMA StillQueued ==
    ASSUME TypeOK, QueueInv, NEW j \in Jobs, pc[j] # "queued", queue' = queue,
           \A k \in Jobs \ {j} : pc'[k] = pc[k]
    PROVE  QueueInv'
<1>1. \A i \in 1..Len(queue) : queue[i] \in Jobs
  BY DEF TypeOK
<1>. QED
  BY <1>1 DEF QueueInv

LEMMA NextQueues ==
    ASSUME TypeOK, QueueInv, [Next]_vars
    PROVE  QueueInv'
<1> USE DEF forgeVars, gatewayVars, jobVars
<1>1. CASE UNCHANGED <<pc, queue>>
  BY <1>1 DEF QueueInv
<1>2. CASE Restart
  BY <1>2 DEF Restart, QueueInv
<1>3. ASSUME NEW j \in Jobs, NEW p \in PRs, NEW f \in BOOLEAN, Dispatch(j, p, f)
      PROVE  QueueInv'
  BY <1>3, StillQueued DEF Dispatch, Goto, TypeOK
<1>4. ASSUME NEW j \in Jobs, Acquire(j) PROVE QueueInv'
  <2>1. CASE permits > 0
    <3>1. pc[j] # "queued" /\ queue' = queue /\ pc' = [pc EXCEPT ![j] = "lookup"]
      BY <1>4, <2>1 DEF Acquire, Goto
    <3>. QED
      BY <3>1, StillQueued DEF TypeOK
  <2>2. CASE permits = 0
    <3>1. /\ queue' = Append(queue, j)
          /\ pc[j] = "acquiring"
          /\ pc' = [pc EXCEPT ![j] = "queued"]
      BY <1>4, <2>2 DEF Acquire, Goto
    <3>2. queue \in Seq(Jobs) /\ pc \in [Jobs -> Places]
      BY DEF TypeOK
    <3>3. /\ Len(queue') = Len(queue) + 1
          /\ queue'[Len(queue) + 1] = j
          /\ \A i \in 1..Len(queue) : queue'[i] = queue[i] /\ queue[i] \in Jobs
          /\ Len(queue) \in Nat
      BY <3>1, <3>2
    <3>4. \A i \in 1..Len(queue) : queue[i] # j
      BY <3>1 DEF QueueInv
    <3>5. \A i \in 1..Len(queue') : i \in 1..Len(queue) \/ i = Len(queue) + 1
      BY <3>3
    <3>6. \A i \in 1..Len(queue') : pc'[queue'[i]] = "queued"
      BY <3>1, <3>2, <3>3, <3>5 DEF QueueInv
    <3>7. \A i, k \in 1..Len(queue') : queue'[i] = queue'[k] => i = k
      BY <3>3, <3>4, <3>5 DEF QueueInv
    <3>. QED
      BY <3>6, <3>7 DEF QueueInv
  <2>. QED
    BY <2>1, <2>2 DEF TypeOK
<1>5. ASSUME NEW j \in Jobs, Release(j) PROVE QueueInv'
  <2>1. CASE queue = <<>>
    BY <1>5, <2>1, StillQueued DEF Release, Goto, TypeOK
  <2>2. CASE queue # <<>>
    <3>1. /\ pc[j] = "release"
          /\ pc' = [pc EXCEPT ![j] = "done", ![Head(queue)] = "lookup"]
          /\ queue' = Tail(queue)
      BY <1>5, <2>2 DEF Release
    <3>2. queue \in Seq(Jobs) /\ pc \in [Jobs -> Places]
      BY DEF TypeOK
    <3>3. /\ Head(queue) = queue[1] /\ 1 \in 1..Len(queue)
          /\ \A i \in 1..Len(queue') : queue'[i] = queue[i+1] /\ i+1 \in 1..Len(queue)
      BY <2>2, <3>1, <3>2, HeadAndTail
    <3>4. \A i \in 1..Len(queue') : i \in Int /\ i > 0
      OBVIOUS
    <3>5. ASSUME NEW i \in 1..Len(queue') PROVE pc'[queue'[i]] = "queued"
      <4>1. queue'[i] # queue[1] /\ pc[queue'[i]] = "queued"
        BY <3>3, <3>4 DEF QueueInv
      <4>2. queue'[i] \in Jobs
        BY <3>2, <3>3
      <4>. QED
        BY <3>1, <3>2, <3>3, <4>1, <4>2
    <3>6. ASSUME NEW i \in 1..Len(queue'), NEW k \in 1..Len(queue'),
                 queue'[i] = queue'[k]
          PROVE  i = k
      <4>1. i + 1 = k + 1
        BY <3>3, <3>6 DEF QueueInv
      <4>. QED
        BY <3>4, <4>1
    <3>. QED
      BY <3>5, <3>6 DEF QueueInv
  <2>. QED
    BY <2>1, <2>2
<1>6. ASSUME NEW j \in Jobs, Panic(j) \/ Hang(j) PROVE QueueInv'
  BY <1>6, StillQueued DEF Panic, Hang, Inner, NetworkWaits, TypeOK
<1>7. ASSUME NEW j \in Jobs, JobStep(j), ~Acquire(j), ~Release(j) PROVE QueueInv'
  <2>1. queue' = queue /\ pc[j] # "queued" /\ \E to : pc' = [pc EXCEPT ![j] = to]
    BY <1>7 DEF JobStep, CheckPermits, PostCrashStatus, SkipSameSha, BeginReview, FetchIncrementalDiff,
       PostPending, Triage, Prepare, PrepareWorkspaceContext, PostSkipped, LoadDiff, PostReview,
       PostFinalStatus, Record, Goto
  <2>. QED
    BY <2>1, StillQueued DEF TypeOK
<1>. QED
  BY <1>1, <1>2, <1>3, <1>4, <1>5, <1>6, <1>7
  DEF Next, vars, Push, ResetPr, PurgeHistory

-----------------------------------------------------------------------------
(* Recorded commits were reviewed.  The strengthening follows a job: until *)
(* its diff is loaded it has none, the pull request's head stays ahead of  *)
(* its commit, the base of its compare was covered when it was looked up,  *)
(* and what its review will show closes the gap up to its commit.          *)

Fresh == {"idle", "spawned", "acquiring", "queued", "lookup", "pending",
          "triage", "prepare"}

Covers(j) ==
    /\ pc[j] = "idle" => base[j] = NoCommit
    /\ pc[j] # "idle" => Anc[sha[j]] \subseteq Anc[head[pr[j]]]
    /\ base[j] # NoCommit => Anc[base[j]] \subseteq reviewed[pr[j]]
    /\ pc[j] \in Fresh => diff[j] = {} /\ outcome[j] = "none"
    /\ pc[j] = "review" => diff[j] = {} \/ Anc[sha[j]] \subseteq diff[j]
    /\ pc[j] = "posting" => Anc[sha[j]] \subseteq reviewed[pr[j]] \cup diff[j]
    /\ pc[j] = "record" => outcome[j] = "ok"
    /\ outcome[j] = "ok" => Anc[sha[j]] \subseteq reviewed[pr[j]]

CoverInv == RecordedIsReviewed /\ \A j \in Jobs : Covers(j)

LEMMA InitCovers == Init => CoverInv
<1> SUFFICES ASSUME Init PROVE CoverInv
  OBVIOUS
<1>1. RecordedIsReviewed
  BY DEF Init, RecordedIsReviewed
<1>2. ASSUME NEW j \in Jobs PROVE Covers(j)
  BY DEF Init, Covers, Fresh
<1>. QED
  BY <1>1, <1>2 DEF CoverInv

(* A job that does not move keeps its cover: reviews are only added. *)
LEMMA StillCovers ==
    ASSUME NEW k \in Jobs, Covers(k), head' = head,
           pc'[k] = pc[k], pr'[k] = pr[k], sha'[k] = sha[k],
           base'[k] = base[k], diff'[k] = diff[k], outcome'[k] = outcome[k],
           reviewed[pr[k]] \subseteq reviewed'[pr[k]]
    PROVE  Covers(k)'
BY DEF Covers

(* Steps that post no review and record nothing keep the history covered.  *)
LEMMA StillRecorded ==
    ASSUME RecordedIsReviewed, history' = history, reviewed' = reviewed
    PROVE  RecordedIsReviewed'
BY DEF RecordedIsReviewed

(* Without a rewrite of the branch, every step keeps the cover. *)
LEMMA NextCovers ==
    ASSUME ~ForcePush, TypeOK, QueueInv, CoverInv, [Next]_vars
    PROVE  CoverInv'
<1> USE DEF forgeVars, gatewayVars, jobVars
<1> DEFINE Rec == RecordedIsReviewed
           Cov == \A k \in Jobs : Covers(k)
<1>0. Rec /\ Cov
  BY DEF CoverInv
<1>1. ASSUME NEW p \in PRs, NEW c \in Commits, Push(p, c) PROVE CoverInv'
  <2>1. Rec'
    BY <1>0, <1>1, StillRecorded DEF Push
  <2>2. ASSUME NEW k \in Jobs PROVE Covers(k)'
    <3>1. Anc[head[pr[k]]] \subseteq Anc[head'[pr[k]]]
      BY <1>1, DispatchAssumption DEF Push, TypeOK
    <3>2. Covers(k)
      BY <1>0
    <3>. QED
      BY <1>1, <3>1, <3>2 DEF Push, Covers
  <2>. QED
    BY <2>1, <2>2 DEF CoverInv
<1>2. ASSUME NEW p \in PRs, ResetPr(p) PROVE CoverInv'
  <2>1. Rec'
    BY <1>0, <1>2 DEF ResetPr, RecordedIsReviewed, TypeOK
  <2>2. Cov'
    BY <1>0, <1>2, StillCovers DEF ResetPr
  <2>. QED
    BY <2>1, <2>2 DEF CoverInv
<1>3. ASSUME NEW old \in SUBSET PRs, PurgeHistory(old) PROVE CoverInv'
  <2>1. Rec'
    BY <1>0, <1>3 DEF PurgeHistory, RecordedIsReviewed, TypeOK
  <2>2. Cov'
    BY <1>0, <1>3, StillCovers DEF PurgeHistory
  <2>. QED
    BY <2>1, <2>2 DEF CoverInv
<1>4. CASE Restart
  <2>1. Rec'
    BY <1>0, <1>4 DEF Restart, RecordedIsReviewed, TypeOK
  <2>2. ASSUME NEW k \in Jobs PROVE Covers(k)'
    <3>1. Covers(k)
      BY <1>0
    <3>2. pc'[k] = IF pc[k] \in {"idle", "done"} THEN pc[k] ELSE "lost"
      BY <1>4 DEF Restart
    <3>. QED
      BY <1>4, <3>1, <3>2 DEF Restart, Covers, Fresh
  <2>. QED
    BY <2>1, <2>2 DEF CoverInv
<1>5. ASSUME NEW j \in Jobs, NEW p \in PRs, NEW f \in BOOLEAN, Dispatch(j, p, f)
      PROVE  CoverInv'
  <2>1. Rec'
    BY <1>0, <1>5, StillRecorded DEF Dispatch
  <2>2. ASSUME NEW k \in Jobs, k # j PROVE Covers(k)'
    BY <1>0, <1>5, <2>2, StillCovers DEF Dispatch, Goto, TypeOK
  <2>3. Covers(j)'
    <3>1. Covers(j)
      BY <1>0
    <3>. QED
      BY <1>5, <3>1 DEF Dispatch, Goto, TypeOK, Covers, Fresh
  <2>. QED
    BY <2>1, <2>2, <2>3 DEF CoverInv
<1>6. ASSUME NEW j \in Jobs, JobStep(j) PROVE CoverInv'
  <2>0. Covers(j)
    BY <1>0
  <2>1. CASE CheckPermits(j) \/ PostCrashStatus(j) \/ SkipSameSha(j)
             \/ PostPending(j) \/ Triage(j) \/ PostSkipped(j)
    <3>1. /\ UNCHANGED <<head, reviewed, history, pr, sha, base, diff, outcome>>
          /\ \E to \in {"acquiring", "release", "triage", "prepare", "skip"} :
                pc' = [pc EXCEPT ![j] = to]
          /\ pc[j] # "idle"
          /\ pc'[j] \in Fresh => pc[j] \in Fresh
      BY <2>1 DEF CheckPermits, PostCrashStatus, SkipSameSha, PostPending,
                  Triage, PostSkipped, Goto, TypeOK, Fresh
    <3>2. Rec'
      BY <1>0, <3>1, StillRecorded
    <3>3. ASSUME NEW k \in Jobs, k # j PROVE Covers(k)'
      BY <1>0, <3>1, <3>3, StillCovers DEF TypeOK
    <3>4. Covers(j)'
      BY <2>0, <3>1 DEF Covers, TypeOK
    <3>. QED
      BY <3>2, <3>3, <3>4 DEF CoverInv
  <2>2. CASE Acquire(j)
    <3>1. Rec'
      BY <1>0, <2>2, StillRecorded DEF Acquire
    <3>2. ASSUME NEW k \in Jobs, k # j PROVE Covers(k)'
      BY <1>0, <2>2, <3>2, StillCovers DEF Acquire, Goto, TypeOK
    <3>3. Covers(j)'
      BY <2>0, <2>2 DEF Acquire, Goto, Covers, TypeOK, Fresh
    <3>. QED
      BY <3>1, <3>2, <3>3 DEF CoverInv
  <2>3. CASE Release(j)
    <3>1. UNCHANGED <<head, reviewed, history, pr, sha, base, diff, outcome>>
      BY <2>3 DEF Release
    <3>2. Rec'
      BY <1>0, <3>1, StillRecorded
    <3>3. ASSUME NEW k \in Jobs PROVE pc'[k] # pc[k] =>
            \/ pc[k] = "release" /\ pc'[k] = "done"
            \/ pc[k] = "queued" /\ pc'[k] = "lookup"
      <4>1. CASE queue = <<>>
        BY <2>3, <4>1 DEF Release, Goto, TypeOK
      <4>2. CASE queue # <<>>
        <5>1. queue \in Seq(Jobs)
          BY DEF TypeOK
        <5>2. Head(queue) = queue[1] /\ 1 \in 1..Len(queue)
          BY <4>2, <5>1, HeadAndTail
        <5>3. pc[Head(queue)] = "queued"
          BY <5>2 DEF QueueInv
        <5>. QED
          BY <2>3, <4>2, <5>3 DEF Release, TypeOK
      <4>. QED
        BY <4>1, <4>2
    <3>4. ASSUME NEW k \in Jobs PROVE Covers(k)'
      <4>1. Covers(k)
        BY <1>0
      <4>. QED
        BY <3>1, <3>3, <4>1 DEF Covers, Fresh
    <3>. QED
      BY <3>2, <3>4 DEF CoverInv
  <2>4. CASE BeginReview(j)
    <3>1. Rec'
      BY <1>0, <2>4, StillRecorded DEF BeginReview, FetchIncrementalDiff
    <3>2. ASSUME NEW k \in Jobs, k # j PROVE Covers(k)'
      BY <1>0, <2>4, <3>2, StillCovers DEF BeginReview, FetchIncrementalDiff, Goto, TypeOK
    <3>3. base'[j] # NoCommit => Anc[base'[j]] \subseteq reviewed[pr[j]]
      <4>1. base'[j] \in {NoCommit, history[pr[j]]}
        BY <2>4 DEF BeginReview, FetchIncrementalDiff, LastReviewed, TypeOK
      <4>2. pr[j] \in PRs
        BY DEF TypeOK
      <4>. QED
        BY <1>0, <4>1, <4>2 DEF RecordedIsReviewed
    <3>4. Covers(j)'
      BY <2>0, <2>4, <3>3 DEF BeginReview, FetchIncrementalDiff, Goto, Covers, TypeOK, Fresh
    <3>. QED
      BY <3>1, <3>2, <3>4 DEF CoverInv
  <2>5. CASE Prepare(j)
    <3>1. Rec'
      BY <1>0, <2>5, StillRecorded DEF Prepare, PrepareWorkspaceContext
    <3>2. ASSUME NEW k \in Jobs, k # j PROVE Covers(k)'
      BY <1>0, <2>5, <3>2, StillCovers DEF Prepare, PrepareWorkspaceContext, Goto, TypeOK
    <3>3. pc'[j] = "review" => diff'[j] \in {{}, Anc[head[pr[j]]]}
      BY <2>0, <2>5 DEF Prepare, PrepareWorkspaceContext, Goto, Covers, Fresh, TypeOK
    <3>4. Covers(j)'
      BY <2>0, <2>5, <3>3 DEF Prepare, PrepareWorkspaceContext, Goto, Covers, TypeOK, Fresh
    <3>. QED
      BY <3>1, <3>2, <3>4 DEF CoverInv
  <2>6. CASE LoadDiff(j)
    <3>1. Rec'
      BY <1>0, <2>6, StillRecorded DEF LoadDiff
    <3>2. ASSUME NEW k \in Jobs, k # j PROVE Covers(k)'
      BY <1>0, <2>6, <3>2, StillCovers DEF LoadDiff, FailReview, Goto, TypeOK
    <3>3. pc'[j] = "posting" => Anc[sha[j]] \subseteq reviewed[pr[j]] \cup diff'[j]
      <4> SUFFICES ASSUME pc'[j] = "posting"
                   PROVE  Anc[sha[j]] \subseteq reviewed[pr[j]] \cup diff'[j]
        OBVIOUS
      <4>1. pc[j] = "review"
        BY <2>6 DEF LoadDiff, Goto
      <4>2. diff'[j] = IF base[j] # NoCommit THEN Anc[sha[j]] \ Anc[base[j]]
                       ELSE IF diff[j] # {} THEN diff[j] ELSE Anc[head[pr[j]]]
        BY <2>6 DEF LoadDiff, Goto, TypeOK
      <4>. QED
        BY <2>0, <4>1, <4>2 DEF Covers
    <3>4. Covers(j)'
      BY <2>0, <2>6, <3>3 DEF LoadDiff, FailReview, Goto, Covers, TypeOK, Fresh
    <3>. QED
      BY <3>1, <3>2, <3>4 DEF CoverInv
  <2>7. CASE PostReview(j)
    <3>1. pr[j] \in PRs
      BY DEF TypeOK
    <3>2. \A p \in PRs : reviewed[p] \subseteq reviewed'[p]
      <4>1. \/ reviewed' = reviewed
            \/ reviewed' = [reviewed EXCEPT ![pr[j]] = reviewed[pr[j]] \cup diff[j]]
        BY <2>7 DEF PostReview, Land
      <4>2. DOMAIN reviewed = PRs
        BY DEF TypeOK
      <4>. QED
        BY <3>1, <4>1, <4>2
    <3>3. Rec'
      BY <1>0, <2>7, <3>2 DEF PostReview, RecordedIsReviewed
    <3>4. ASSUME NEW k \in Jobs, k # j PROVE Covers(k)'
      <4>1. pr[k] \in PRs
        BY DEF TypeOK
      <4>. QED
        BY <1>0, <2>7, <3>2, <3>4, <4>1, StillCovers
        DEF PostReview, FailReview, Goto, TypeOK
    <3>5. outcome'[j] = "ok" => reviewed'[pr[j]] = reviewed[pr[j]] \cup diff[j]
      BY <2>7, <3>1 DEF PostReview, FailReview, Land, TypeOK, ErrorClasses
    <3>6. Covers(j)'
      BY <2>0, <2>7, <3>1, <3>2, <3>5
      DEF PostReview, Goto, Covers, TypeOK, Fresh
    <3>. QED
      BY <3>3, <3>4, <3>6 DEF CoverInv
  <2>8. CASE PostFinalStatus(j)
    <3>1. Rec'
      BY <1>0, <2>8, StillRecorded DEF PostFinalStatus
    <3>2. ASSUME NEW k \in Jobs, k # j PROVE Covers(k)'
      BY <1>0, <2>8, <3>2, StillCovers DEF PostFinalStatus, Goto, TypeOK
    <3>3. Covers(j)'
      BY <2>0, <2>8 DEF PostFinalStatus, Goto, Covers, TypeOK, Fresh
    <3>. QED
      BY <3>1, <3>2, <3>3 DEF CoverInv
  <2>9. CASE Record(j)
    <3>1. Anc[sha[j]] \subseteq reviewed[pr[j]]
      BY <2>0, <2>9 DEF Record, Goto, Covers
    <3>2. Rec'
      BY <1>0, <2>9, <3>1 DEF Record, RecordedIsReviewed, TypeOK
    <3>3. ASSUME NEW k \in Jobs, k # j PROVE Covers(k)'
      BY <1>0, <2>9, <3>3, StillCovers DEF Record, Goto, TypeOK
    <3>4. Covers(j)'
      BY <2>0, <2>9 DEF Record, Goto, Covers, TypeOK, Fresh
    <3>. QED
      BY <3>2, <3>3, <3>4 DEF CoverInv
  <2>. QED
    BY <1>6, <2>1, <2>2, <2>3, <2>4, <2>5, <2>6, <2>7, <2>8, <2>9 DEF JobStep
<1>7. ASSUME NEW j \in Jobs, Panic(j) \/ Hang(j) PROVE CoverInv'
  <2>1. /\ UNCHANGED <<head, reviewed, history, pr, sha, base, diff, outcome>>
        /\ pc' = [pc EXCEPT ![j] = "crashed"] \/ pc' = [pc EXCEPT ![j] = "hung"]
    BY <1>7 DEF Panic, Hang
  <2>2. Rec'
    BY <1>0, <2>1, StillRecorded
  <2>3. ASSUME NEW k \in Jobs, k # j PROVE Covers(k)'
    BY <1>0, <2>1, <2>3, StillCovers DEF TypeOK
  <2>4. Covers(j)'
    <3>1. Covers(j) /\ pc[j] # "idle"
      BY <1>0, <1>7 DEF Panic, Hang, Inner, NetworkWaits
    <3>. QED
      BY <2>1, <3>1 DEF Covers, TypeOK, Fresh
  <2>. QED
    BY <2>2, <2>3, <2>4 DEF CoverInv
<1>8. CASE UNCHANGED vars
  <2>1. Rec'
    BY <1>0, <1>8, StillRecorded DEF vars
  <2>2. Cov'
    BY <1>0, <1>8, StillCovers DEF vars
  <2>. QED
    BY <2>1, <2>2 DEF CoverInv
<1>. QED
  BY <1>1, <1>2, <1>3, <1>4, <1>5, <1>6, <1>7, <1>8 DEF Next

(* RecordedIsReviewed holds whatever fails, hangs, panics or restarts, for *)
(* every number of overlapping jobs, as long as branches only grow: a      *)
(* rewritten branch is what the run DispatchForcePush breaks it with.      *)
THEOREM RecordedReviewed ==
    ASSUME ~ForcePush
    PROVE  Spec => []RecordedIsReviewed
<1>1. Init => TypeOK /\ QueueInv /\ CoverInv
  BY InitTypes, InitQueues, InitCovers
<1>2. TypeOK /\ QueueInv /\ CoverInv /\ [Next]_vars
        => (TypeOK /\ QueueInv /\ CoverInv)'
  BY NextTypes, NextQueues, NextCovers
<1>3. CoverInv => RecordedIsReviewed
  BY DEF CoverInv
<1>. QED
  BY <1>1, <1>2, <1>3, PTL DEF Spec

-----------------------------------------------------------------------------
(* The refinement.  Only five actions touch what the ledger keeps.         *)

LEMMA LedgerInit == Init => Ledger!Init
BY DEF Init, Ledger!Init

LEMMA LedgerNext ==
    ASSUME TypeOK, CoverInv, [Next]_vars
    PROVE  [Ledger!Next]_(Ledger!ledger)
<1> USE DEF forgeVars, gatewayVars, jobVars
<1>1. CASE UNCHANGED <<reviewed, history>>
  BY <1>1 DEF Ledger!ledger
<1>2. ASSUME NEW old \in SUBSET PRs, UNCHANGED reviewed,
             history' = [p \in PRs |-> IF p \in old THEN NoCommit ELSE history[p]]
      PROVE  Ledger!Next
  <2>1. Ledger!Forget(old)
    BY <1>2 DEF Ledger!Forget
  <2>. QED
    BY <2>1 DEF Ledger!Next
<1>3. ASSUME NEW p \in PRs, ResetPr(p) PROVE Ledger!Next
  <2>1. history' = [q \in PRs |-> IF q \in {p} THEN NoCommit ELSE history[q]]
    BY <1>3 DEF ResetPr, TypeOK
  <2>. QED
    BY <1>2, <1>3, <2>1 DEF ResetPr
<1>4. ASSUME NEW old \in SUBSET PRs, PurgeHistory(old) PROVE Ledger!Next
  BY <1>2, <1>4 DEF PurgeHistory
<1>5. CASE Restart /\ ~UNCHANGED history
  <2>1. history' = [q \in PRs |-> IF q \in PRs THEN NoCommit ELSE history[q]]
    BY <1>5 DEF Restart, TypeOK
  <2>2. UNCHANGED reviewed
    BY <1>5 DEF Restart
  <2>. QED
    BY <1>2, <2>1, <2>2
<1>6. ASSUME NEW j \in Jobs, PostReview(j), reviewed' # reviewed PROVE Ledger!Next
  <2>1. Ledger!Show(pr[j], diff[j])
    BY <1>6 DEF PostReview, Land, Ledger!Show
  <2>2. pr[j] \in PRs /\ diff[j] \in SUBSET Commits
    BY DEF TypeOK
  <2>. QED
    BY <2>1, <2>2 DEF Ledger!Next
<1>7. ASSUME NEW j \in Jobs, Record(j), history' # history PROVE Ledger!Next
  <2>1. Covers(j) /\ pc[j] = "record"
    BY <1>7 DEF Record, Goto, CoverInv
  <2>2. Anc[sha[j]] \subseteq reviewed[pr[j]]
    BY <2>1 DEF Covers
  <2>3. Ledger!Advance(pr[j], sha[j])
    BY <1>7, <2>2 DEF Record, Ledger!Advance
  <2>4. pr[j] \in PRs /\ sha[j] \in Commits
    BY DEF TypeOK
  <2>. QED
    BY <2>3, <2>4 DEF Ledger!Next
<1>8. ASSUME NEW j \in Jobs, JobStep(j), ~PostReview(j), ~Record(j)
      PROVE  UNCHANGED <<reviewed, history>>
  BY <1>8 DEF JobStep, CheckPermits, Acquire, Release, PostCrashStatus,
     SkipSameSha, BeginReview, FetchIncrementalDiff, PostPending, Triage, Prepare, PrepareWorkspaceContext, PostSkipped,
     LoadDiff, PostFinalStatus
<1>9. ASSUME NEW j \in Jobs, PostReview(j) \/ Record(j)
      PROVE  reviewed' # reviewed \/ history' # history => Ledger!Next
  <2>1. CASE PostReview(j)
    BY <1>6, <2>1 DEF PostReview
  <2>2. CASE Record(j)
    BY <1>7, <2>2 DEF Record
  <2>. QED
    BY <1>9, <2>1, <2>2
<1>10. ASSUME NEW j \in Jobs, Panic(j) \/ Hang(j)
       PROVE  UNCHANGED <<reviewed, history>>
  BY <1>10 DEF Panic, Hang
<1>11. Restart => UNCHANGED reviewed
  BY DEF Restart
<1>. QED
  BY <1>1, <1>3, <1>4, <1>5, <1>8, <1>9, <1>10, <1>11 DEF Next, vars, Push, Dispatch

(* The dispatcher implements the ledger, under every fault, as long as     *)
(* branches only grow.                                                     *)
THEOREM LedgerRefinement ==
    ASSUME ~ForcePush
    PROVE  Spec => ImplementsLedger
<1>1. Init => TypeOK /\ QueueInv /\ CoverInv /\ Ledger!Init
  BY InitTypes, InitQueues, InitCovers, LedgerInit
<1>2. TypeOK /\ QueueInv /\ CoverInv /\ [Next]_vars
        => (TypeOK /\ QueueInv /\ CoverInv)'
  BY NextTypes, NextQueues, NextCovers
<1>3. TypeOK /\ CoverInv /\ [Next]_vars => [Ledger!Next]_(Ledger!ledger)
  BY LedgerNext
<1>. QED
  BY <1>1, <1>2, <1>3, PTL DEF Spec, ImplementsLedger, Ledger!Spec

-----------------------------------------------------------------------------
(* Permits.  A step moves one job, or hands a permit from one to the next. *)

LEMMA HoldersFinite ==
    ASSUME TypeOK
    PROVE  IsFiniteSet(Holders) /\ Cardinality(Holders) \in Nat
<1>1. Holders \subseteq Jobs
  BY DEF Holders
<1>. QED
  BY <1>1, DispatchAssumption, FS_Subset, FS_CardinalityType

LEMMA SameHolders ==
    ASSUME \A k \in Jobs : pc'[k] \in Holding <=> pc[k] \in Holding
    PROVE  Holders' = Holders
BY DEF Holders

LEMMA NextPermits ==
    ASSUME TypeOK, QueueInv, PermitsConserved, [Next]_vars
    PROVE  PermitsConserved'
<1> USE DEF forgeVars, gatewayVars, jobVars
<1>0. permits \in Nat /\ pc \in [Jobs -> Places] /\ IsFiniteSet(Holders)
      /\ Cardinality(Holders) \in Nat
  BY HoldersFinite DEF TypeOK
<1>1. ASSUME permits' = permits, \A k \in Jobs : pc'[k] \in Holding <=> pc[k] \in Holding
      PROVE  PermitsConserved'
  BY <1>1, SameHolders DEF PermitsConserved, Cap
<1>2. CASE Restart
  <2>1. Holders' = {}
    BY <1>2 DEF Restart, Holders, Holding, Inner
  <2>2. Cardinality({}) = 0
    BY FS_EmptySet
  <2>3. Cap \in Nat
    BY DispatchAssumption DEF Cap
  <2>. QED
    BY <1>2, <2>1, <2>2, <2>3 DEF Restart, PermitsConserved, Cap
<1>3. ASSUME NEW j \in Jobs, Acquire(j) PROVE PermitsConserved'
  <2>1. CASE permits > 0
    <3>1. /\ pc[j] = "acquiring" /\ pc' = [pc EXCEPT ![j] = "lookup"]
          /\ permits' = permits - 1
      BY <1>3, <2>1 DEF Acquire, Goto
    <3>2. j \notin Holders /\ Holders' = Holders \cup {j}
      BY <1>0, <3>1 DEF Holders, Holding, Inner
    <3>3. Cardinality(Holders') = Cardinality(Holders) + 1
      BY <1>0, <3>2, FS_AddElement
    <3>. QED
      BY <1>0, <3>1, <3>3 DEF PermitsConserved, Cap
  <2>2. CASE permits = 0
    <3>1. /\ pc[j] = "acquiring" /\ pc' = [pc EXCEPT ![j] = "queued"]
          /\ permits' = permits
      BY <1>3, <2>2 DEF Acquire, Goto
    <3>. QED
      BY <1>0, <1>1, <3>1 DEF Holding, Inner
  <2>. QED
    BY <1>0, <2>1, <2>2
<1>4. ASSUME NEW j \in Jobs, Release(j) PROVE PermitsConserved'
  <2>0. j \in Holders
    BY <1>4 DEF Release, Goto, Holders, Holding
  <2>1. Cardinality(Holders \ {j}) = Cardinality(Holders) - 1 /\ IsFiniteSet(Holders \ {j})
    BY <1>0, <2>0, FS_RemoveElement
  <2>2. CASE queue = <<>>
    <3>1. pc' = [pc EXCEPT ![j] = "done"] /\ permits' = permits + 1
      BY <1>4, <2>2 DEF Release, Goto
    <3>2. Holders' = Holders \ {j}
      BY <1>0, <3>1 DEF Holders, Holding, Inner
    <3>. QED
      BY <1>0, <2>1, <3>1, <3>2 DEF PermitsConserved, Cap
  <2>3. CASE queue # <<>>
    <3> DEFINE h == Head(queue)
    <3>1. pc' = [pc EXCEPT ![j] = "done", ![h] = "lookup"] /\ permits' = permits
          /\ pc[j] = "release"
      BY <1>4, <2>3 DEF Release
    <3>2. queue \in Seq(Jobs)
      BY DEF TypeOK
    <3>3. h = queue[1] /\ 1 \in 1..Len(queue) /\ h \in Jobs
      BY <2>3, <3>2, HeadAndTail
    <3>4. pc[h] = "queued"
      BY <3>3 DEF QueueInv
    <3> HIDE DEF h
    <3>5. h \notin Holders \ {j} /\ Holders' = (Holders \ {j}) \cup {h}
      BY <1>0, <3>1, <3>3, <3>4 DEF Holders, Holding, Inner
    <3>6. Cardinality(Holders') = Cardinality(Holders)
      <4>1. Cardinality((Holders \ {j}) \cup {h}) = Cardinality(Holders \ {j}) + 1
        BY <2>1, <3>5, FS_AddElement
      <4>. QED
        BY <1>0, <2>1, <3>5, <4>1
    <3>. QED
      BY <3>1, <3>6 DEF PermitsConserved, Cap
  <2>. QED
    BY <2>2, <2>3
<1>5. ASSUME NEW j \in Jobs, JobStep(j), ~Acquire(j), ~Release(j)
      PROVE  PermitsConserved'
  <2>1. CASE CheckPermits(j)
    BY <1>0, <1>1, <2>1 DEF CheckPermits, Goto, Holding, Inner
  <2>2. CASE ~CheckPermits(j)
    <3>1. /\ permits' = permits
          /\ pc[j] \in Inner \cup {"crashed"}
          /\ \E to \in Inner \cup {"release"} : pc' = [pc EXCEPT ![j] = to]
      BY <1>5, <2>2 DEF JobStep, PostCrashStatus, SkipSameSha, BeginReview, FetchIncrementalDiff,
         PostPending, Triage, Prepare, PrepareWorkspaceContext, PostSkipped, LoadDiff, PostReview,
         PostFinalStatus, Record, Goto, Inner
    <3>2. PICK to \in Holding : pc' = [pc EXCEPT ![j] = to]
      BY <3>1 DEF Holding
    <3>3. pc[j] \in Holding
      BY <3>1 DEF Holding
    <3>. QED
      BY <1>0, <1>1, <3>1, <3>2, <3>3
  <2>. QED
    BY <2>1, <2>2
<1>6. ASSUME NEW j \in Jobs, Panic(j) \/ Hang(j) PROVE PermitsConserved'
  BY <1>0, <1>1, <1>6 DEF Panic, Hang, Holding, Inner, NetworkWaits
<1>7. ASSUME NEW j \in Jobs, NEW p \in PRs, NEW f \in BOOLEAN, Dispatch(j, p, f)
      PROVE  PermitsConserved'
  BY <1>0, <1>1, <1>7 DEF Dispatch, Goto, Holding, Inner
<1>8. CASE UNCHANGED <<permits, pc>>
  BY <1>1, <1>8
<1>. QED
  BY <1>2, <1>3, <1>4, <1>5, <1>6, <1>7, <1>8
  DEF Next, vars, Push, ResetPr, PurgeHistory

(* Permits are conserved by every path, under every fault, whatever the    *)
(* limit and however many jobs queue: the cap never shrinks or grows.      *)
THEOREM PermitConservation == Spec => []PermitsConserved
<1>1. Init => TypeOK /\ QueueInv /\ PermitsConserved
  <2> SUFFICES ASSUME Init PROVE PermitsConserved
    BY InitTypes, InitQueues
  <2>1. Holders = {}
    BY DEF Init, Holders, Holding, Inner
  <2>2. Cardinality({}) = 0 /\ Cap \in Nat
    BY FS_EmptySet, DispatchAssumption DEF Cap
  <2>. QED
    BY <2>1, <2>2 DEF Init, PermitsConserved
<1>2. TypeOK /\ QueueInv /\ PermitsConserved /\ [Next]_vars
        => (TypeOK /\ QueueInv /\ PermitsConserved)'
  BY NextTypes, NextQueues, NextPermits
<1>. QED
  BY <1>1, <1>2, PTL DEF Spec

-----------------------------------------------------------------------------
(* Pending statuses.  A step that posts none and takes no owner away keeps *)
(* every pending commit owned.                                             *)

LEMMA StillOwned ==
    ASSUME PendingIsOwned, status' = status,
           \A k \in Jobs : pc[k] \in StatusOwners =>
                pc'[k] \in StatusOwners /\ sha'[k] = sha[k]
    PROVE  PendingIsOwned'
BY DEF PendingIsOwned

(* A step of one job that posts a status for the job's own commit. *)
LEMMA PostedOwned ==
    ASSUME TypeOK, PendingIsOwned, NEW j \in Jobs, NEW s, sha' = sha,
           status' = [status EXCEPT ![sha[j]] = s],
           s = "pending" => pc'[j] \in StatusOwners,
           \A k \in Jobs \ {j} : pc'[k] = pc[k]
    PROVE  PendingIsOwned'
<1>1. sha[j] \in Commits /\ status \in [Commits -> Statuses]
  BY DEF TypeOK
<1>2. ASSUME NEW c \in Commits, status'[c] = "pending"
      PROVE  \E k \in Jobs : sha'[k] = c /\ pc'[k] \in StatusOwners
  <2>1. CASE c = sha[j]
    BY <1>1, <1>2, <2>1
  <2>2. CASE c # sha[j]
    <3>1. status[c] = "pending"
      BY <1>1, <1>2, <2>2
    <3>2. PICK k \in Jobs : sha[k] = c /\ pc[k] \in StatusOwners
      BY <3>1 DEF PendingIsOwned
    <3>. QED
      BY <2>2, <3>2
  <2>. QED
    BY <2>1, <2>2
<1>. QED
  BY <1>2 DEF PendingIsOwned

LEMMA NextOwned ==
    ASSUME "status" \notin Faults, "crash" \notin Faults,
           TypeOK, QueueInv, PendingIsOwned, [Next]_vars
    PROVE  PendingIsOwned'
<1> USE DEF forgeVars, gatewayVars, jobVars
<1>0. pc \in [Jobs -> Places] /\ sha \in [Jobs -> Commits]
  BY DEF TypeOK
<1>1. CASE UNCHANGED <<status, pc, sha>>
  BY <1>1, StillOwned
<1>2. ~Restart
  BY DEF Restart
<1>3. ASSUME NEW j \in Jobs, NEW p \in PRs, NEW f \in BOOLEAN, Dispatch(j, p, f)
      PROVE  PendingIsOwned'
  BY <1>0, <1>3, StillOwned DEF Dispatch, Goto, StatusOwners
<1>4. ASSUME NEW j \in Jobs, Panic(j) \/ Hang(j) PROVE PendingIsOwned'
  <2>1. /\ status' = status /\ sha' = sha
        /\ pc' = [pc EXCEPT ![j] = "crashed"] \/ pc' = [pc EXCEPT ![j] = "hung"]
    BY <1>4 DEF Panic, Hang
  <2>. QED
    BY <1>0, <2>1, StillOwned DEF StatusOwners
<1>5. ASSUME NEW j \in Jobs, JobStep(j) PROVE PendingIsOwned'
  <2>1. CASE Release(j)
    <3>1. ASSUME NEW k \in Jobs, pc[k] \in StatusOwners PROVE pc'[k] = pc[k]
      <4>1. CASE queue = <<>>
        BY <1>0, <2>1, <3>1, <4>1 DEF Release, Goto, StatusOwners
      <4>2. CASE queue # <<>>
        <5>1. queue \in Seq(Jobs)
          BY DEF TypeOK
        <5>2. Head(queue) = queue[1] /\ 1 \in 1..Len(queue)
          BY <4>2, <5>1, HeadAndTail
        <5>3. pc[Head(queue)] = "queued"
          BY <5>2 DEF QueueInv
        <5>. QED
          BY <1>0, <2>1, <3>1, <4>2, <5>3 DEF Release, StatusOwners
      <4>. QED
        BY <4>1, <4>2
    <3>. QED
      BY <2>1, <3>1, StillOwned DEF Release
  <2>2. CASE \/ CheckPermits(j) \/ Acquire(j) \/ SkipSameSha(j) \/ BeginReview(j)
             \/ Record(j)
    <3>1. /\ status' = status /\ sha' = sha
          /\ pc[j] \in {"spawned", "acquiring", "lookup", "record"}
          /\ \E to : pc' = [pc EXCEPT ![j] = to]
      BY <2>2 DEF CheckPermits, Acquire, SkipSameSha, BeginReview, FetchIncrementalDiff, Record, Goto
    <3>. QED
      BY <1>0, <3>1, StillOwned DEF StatusOwners
  <2>3. CASE Triage(j) \/ Prepare(j) \/ LoadDiff(j) \/ PostReview(j)
    <3>1. /\ status' = status /\ sha' = sha
          /\ \E to \in {"prepare", "skip", "review", "posting", "final"} :
                pc' = [pc EXCEPT ![j] = to]
      BY <2>3 DEF Triage, Prepare, PrepareWorkspaceContext, LoadDiff, PostReview, Goto
    <3>. QED
      BY <1>0, <3>1, StillOwned DEF StatusOwners
  <2>4. CASE PostPending(j)
    <3>1. /\ sha' = sha /\ pc' = [pc EXCEPT ![j] = "triage"]
          /\ status' = [status EXCEPT ![sha[j]] = "pending"]
      BY <2>4 DEF PostPending, PostStatus, Goto
    <3>. QED
      BY <1>0, <3>1, PostedOwned DEF StatusOwners
  <2>5. CASE PostCrashStatus(j) \/ PostSkipped(j) \/ PostFinalStatus(j)
    <3>1. sha' = sha /\ \E to : pc' = [pc EXCEPT ![j] = to]
      BY <2>5 DEF PostCrashStatus, PostSkipped, PostFinalStatus, Goto
    <3>2. PICK s : s # "pending" /\ status' = [status EXCEPT ![sha[j]] = s]
      BY <2>5 DEF PostCrashStatus, PostSkipped, PostFinalStatus, PostStatus,
         FinalState
    <3>. QED
      BY <1>0, <3>1, <3>2, PostedOwned
  <2>. QED
    BY <1>5, <2>1, <2>2, <2>3, <2>4, <2>5 DEF JobStep
<1>. QED
  BY <1>1, <1>2, <1>3, <1>4, <1>5 DEF Next, vars, Push, ResetPr, PurgeHistory

(* As long as the forge takes the statuses it is sent and the process      *)
(* stays up, no path of a job leaves a commit pending with nobody left to  *)
(* resolve it, however many jobs share the commit.                         *)
THEOREM PendingOwnership ==
    ASSUME "status" \notin Faults, "crash" \notin Faults
    PROVE  Spec => []PendingIsOwned
<1>1. Init => TypeOK /\ QueueInv /\ PendingIsOwned
  BY InitTypes, InitQueues DEF Init, PendingIsOwned
<1>2. TypeOK /\ QueueInv /\ PendingIsOwned /\ [Next]_vars
        => (TypeOK /\ QueueInv /\ PendingIsOwned)'
  BY NextTypes, NextQueues, NextOwned
<1>. QED
  BY <1>1, <1>2, PTL DEF Spec

-----------------------------------------------------------------------------
(* What a job has reported follows from where it is.                       *)

After(S, o) == {Append(s, o) : s \in S}

Waiting   == {<<>>, <<"QueueWait">>}
Started   == After(Waiting, "Started")
Finished  == After(Started, "Succeeded") \cup After(Started, "Failed")
LeftOut   == After(Waiting, "Skipped")
Panicked  == After(Waiting \cup Started \cup Finished, "FailedPanic")

ObsInv ==
    \A j \in Jobs :
        /\ pc[j] \in {"idle", "spawned"} => obs[j] = <<>>
        /\ pc[j] \in {"acquiring", "queued", "lookup", "pending", "triage",
                     "prepare", "skip"} => obs[j] \in Waiting
        /\ pc[j] \in {"review", "posting"} => obs[j] \in Started
        /\ pc[j] \in {"final", "record"} => obs[j] \in Finished
        /\ pc[j] = "crashed" => obs[j] \in Panicked
        /\ pc[j] \in {"release", "done"} =>
              obs[j] \in LeftOut \cup Finished \cup Panicked

(* One more report of a job; the others' stay. *)
LEMMA Observed ==
    ASSUME TypeOK, NEW j \in Jobs, NEW o, Observe(j, o)
    PROVE  /\ obs'[j] = Append(obs[j], o)
           /\ \A k \in Jobs \ {j} : obs'[k] = obs[k]
BY DEF TypeOK, Observe

LEMMA Moved ==
    ASSUME TypeOK, NEW j \in Jobs, NEW to, pc' = [pc EXCEPT ![j] = to]
    PROVE  pc'[j] = to /\ \A k \in Jobs \ {j} : pc'[k] = pc[k]
BY DEF TypeOK

LEMMA AppendInAfter ==
    ASSUME NEW S, NEW s \in S, NEW o
    PROVE  Append(s, o) \in After(S, o)
BY DEF After

(* A job that moves and reports: it is somewhere else, has said one thing  *)
(* more, and the others are where they were.                               *)
LEMMA MovedAndObserved ==
    ASSUME TypeOK, NEW j \in Jobs, NEW to, NEW o,
           pc' = [pc EXCEPT ![j] = to], Observe(j, o)
    PROVE  /\ pc'[j] = to /\ obs'[j] = Append(obs[j], o)
           /\ \A k \in Jobs \ {j} : pc'[k] = pc[k] /\ obs'[k] = obs[k]
BY Moved, Observed

LEMMA NextObs ==
    ASSUME TypeOK, QueueInv, ObsInv, [Next]_vars
    PROVE  ObsInv'
<1> USE DEF forgeVars, gatewayVars, jobVars
<1>1. CASE UNCHANGED <<pc, obs>>
  BY <1>1 DEF ObsInv
<1>2. CASE Restart
  <2>1. \A j \in Jobs : pc'[j] = "lost" \/ pc'[j] = pc[j]
    BY <1>2 DEF Restart
  <2>2. UNCHANGED obs
    BY <1>2 DEF Restart
  <2>. QED
    BY <2>1, <2>2 DEF ObsInv
<1>3. ASSUME NEW j \in Jobs, \A k \in Jobs \ {j} : pc'[k] = pc[k] /\ obs'[k] = obs[k],
             \/ pc[j] = "idle" /\ pc'[j] = "spawned" /\ obs'[j] = obs[j]
             \/ /\ pc[j] = "spawned" /\ pc'[j] = "acquiring"
                /\ obs'[j] \in {obs[j], Append(obs[j], "QueueWait")}
             \/ /\ pc[j] \in {"acquiring", "lookup", "pending", "triage", "prepare"}
                /\ pc'[j] \in {"queued", "lookup", "pending", "triage", "prepare", "skip"}
                /\ obs'[j] = obs[j]
             \/ /\ pc[j] \in {"lookup", "skip"} /\ pc'[j] = "release"
                /\ obs'[j] = Append(obs[j], "Skipped")
             \/ /\ pc[j] = "prepare" /\ pc'[j] = "review"
                /\ obs'[j] = Append(obs[j], "Started")
             \/ pc[j] = "review" /\ pc'[j] = "posting" /\ obs'[j] = obs[j]
             \/ /\ pc[j] \in {"review", "posting"} /\ pc'[j] = "final"
                /\ obs'[j] \in {Append(obs[j], "Succeeded"), Append(obs[j], "Failed")}
             \/ /\ pc[j] \in {"final", "record"} /\ pc'[j] \in {"record", "release"}
                /\ obs'[j] = obs[j]
             \/ /\ pc[j] \in Inner /\ pc'[j] = "crashed"
                /\ obs'[j] = Append(obs[j], "FailedPanic")
             \/ /\ pc[j] \in {"crashed", "release"} /\ pc'[j] \in {"release", "done"}
                /\ obs'[j] = obs[j]
             \/ pc'[j] = "hung"
      PROVE  ObsInv'
  <2>1. /\ obs[j] = <<>> => Append(obs[j], "QueueWait") \in Waiting
        /\ obs[j] = <<>> => obs[j] \in Waiting
    <3>1. Append(<<>>, "QueueWait") = <<"QueueWait">>
      OBVIOUS
    <3>. QED
      BY <3>1 DEF Waiting
  <2>2. obs[j] \in Waiting =>
          /\ Append(obs[j], "Skipped") \in LeftOut
          /\ Append(obs[j], "Started") \in Started
          /\ Append(obs[j], "FailedPanic") \in Panicked
    BY AppendInAfter DEF LeftOut, Started, Panicked
  <2>3. obs[j] \in Started =>
          /\ Append(obs[j], "Succeeded") \in Finished
          /\ Append(obs[j], "Failed") \in Finished
          /\ Append(obs[j], "FailedPanic") \in Panicked
    BY AppendInAfter DEF Finished, Panicked
  <2>4. obs[j] \in Finished => Append(obs[j], "FailedPanic") \in Panicked
    BY AppendInAfter DEF Panicked
  <2> SUFFICES ASSUME NEW k \in Jobs PROVE
        /\ pc'[k] \in {"idle", "spawned"} => obs'[k] = <<>>
        /\ pc'[k] \in {"acquiring", "queued", "lookup", "pending", "triage",
                     "prepare", "skip"} => obs'[k] \in Waiting
        /\ pc'[k] \in {"review", "posting"} => obs'[k] \in Started
        /\ pc'[k] \in {"final", "record"} => obs'[k] \in Finished
        /\ pc'[k] = "crashed" => obs'[k] \in Panicked
        /\ pc'[k] \in {"release", "done"} =>
              obs'[k] \in LeftOut \cup Finished \cup Panicked
    BY DEF ObsInv
  <2>5. CASE k # j
    BY <1>3, <2>5 DEF ObsInv
  <2>6. CASE k = j
    BY <1>3, <2>1, <2>2, <2>3, <2>4, <2>6 DEF ObsInv, Inner
  <2>. QED
    BY <2>5, <2>6
<1>4. ASSUME NEW j \in Jobs, NEW p \in PRs, NEW f \in BOOLEAN, Dispatch(j, p, f)
      PROVE  ObsInv'
  <2>1. pc[j] = "idle" /\ pc' = [pc EXCEPT ![j] = "spawned"] /\ obs' = obs
    BY <1>4 DEF Dispatch, Goto
  <2>. QED
    BY <1>3, <2>1, Moved
<1>5. ASSUME NEW j \in Jobs, CheckPermits(j) PROVE ObsInv'
  <2>1. /\ pc[j] = "spawned" /\ pc' = [pc EXCEPT ![j] = "acquiring"]
        /\ Observe(j, "QueueWait") \/ obs' = obs
    BY <1>5 DEF CheckPermits, Goto
  <2>2. CASE Observe(j, "QueueWait")
    <3>1. /\ pc'[j] = "acquiring" /\ obs'[j] = Append(obs[j], "QueueWait")
          /\ \A k \in Jobs \ {j} : pc'[k] = pc[k] /\ obs'[k] = obs[k]
      BY <2>1, <2>2, MovedAndObserved
    <3>. QED
      BY <1>3, <2>1, <3>1
  <2>3. CASE obs' = obs
    BY <1>3, <2>1, <2>3, Moved
  <2>. QED
    BY <2>1, <2>2, <2>3
<1>6. ASSUME NEW j \in Jobs, Acquire(j) PROVE ObsInv'
  <2>1. /\ pc[j] = "acquiring" /\ obs' = obs
        /\ \E to \in {"queued", "lookup"} : pc' = [pc EXCEPT ![j] = to]
    BY <1>6 DEF Acquire, Goto
  <2>. QED
    BY <1>3, <2>1, Moved
<1>7. ASSUME NEW j \in Jobs, Release(j) PROVE ObsInv'
  <2>1. CASE queue = <<>>
    <3>1. pc[j] = "release" /\ pc' = [pc EXCEPT ![j] = "done"] /\ obs' = obs
      BY <1>7, <2>1 DEF Release, Goto
    <3>. QED
      BY <1>3, <3>1, Moved
  <2>2. CASE queue # <<>>
    <3>1. Head(queue) \in Jobs /\ pc[Head(queue)] = "queued"
      BY <2>2, HeadAndTail DEF QueueInv, TypeOK
    <3>2. /\ pc[j] = "release" /\ obs' = obs
          /\ pc' = [pc EXCEPT ![j] = "done", ![Head(queue)] = "lookup"]
      BY <1>7, <2>2 DEF Release
    <3>3. PICK h \in Jobs : h = Head(queue) /\ pc[h] = "queued"
      BY <3>1
    <3>4. pc' = [pc EXCEPT ![j] = "done", ![h] = "lookup"] /\ h # j
      BY <3>2, <3>3
    <3>5. /\ pc'[h] = "lookup" /\ pc'[j] = "done"
          /\ \A k \in Jobs : k # h /\ k # j => pc'[k] = pc[k]
      BY <3>4 DEF TypeOK
    <3>. QED
      BY <3>2, <3>3, <3>5 DEF ObsInv
  <2>. QED
    BY <2>1, <2>2
<1>8. ASSUME NEW j \in Jobs, PostCrashStatus(j) PROVE ObsInv'
  <2>1. pc[j] = "crashed" /\ pc' = [pc EXCEPT ![j] = "release"] /\ obs' = obs
    BY <1>8 DEF PostCrashStatus, Goto
  <2>. QED
    BY <1>3, <2>1, Moved
<1>9. ASSUME NEW j \in Jobs, SkipSameSha(j) \/ PostSkipped(j) PROVE ObsInv'
  <2>1. /\ pc[j] \in {"lookup", "skip"} /\ pc' = [pc EXCEPT ![j] = "release"]
        /\ Observe(j, "Skipped")
    BY <1>9 DEF SkipSameSha, PostSkipped, Goto
  <2>. QED
    <3>1. /\ pc'[j] = "release" /\ obs'[j] = Append(obs[j], "Skipped")
          /\ \A k \in Jobs \ {j} : pc'[k] = pc[k] /\ obs'[k] = obs[k]
      BY <2>1, MovedAndObserved
    <3>. QED
      BY <1>3, <2>1, <3>1
<1>10. ASSUME NEW j \in Jobs, BeginReview(j) \/ PostPending(j) \/ Triage(j)
       PROVE  ObsInv'
  <2>1. /\ pc[j] \in {"lookup", "pending", "triage"} /\ obs' = obs
        /\ \E to \in {"pending", "triage", "prepare", "skip"} :
              pc' = [pc EXCEPT ![j] = to]
    BY <1>10 DEF BeginReview, PostPending, Triage, Goto
  <2>. QED
    BY <1>3, <2>1, Moved
<1>11. ASSUME NEW j \in Jobs, Prepare(j) PROVE ObsInv'
  <2>1. CASE pc' = [pc EXCEPT ![j] = "skip"] /\ obs' = obs /\ pc[j] = "prepare"
    BY <1>3, <2>1, Moved
  <2>2. CASE pc' = [pc EXCEPT ![j] = "review"] /\ Observe(j, "Started") /\ pc[j] = "prepare"
    <3>1. /\ pc'[j] = "review" /\ obs'[j] = Append(obs[j], "Started")
          /\ \A k \in Jobs \ {j} : pc'[k] = pc[k] /\ obs'[k] = obs[k]
      BY <2>2, MovedAndObserved
    <3>. QED
      BY <1>3, <2>2, <3>1
  <2>. QED
    BY <1>11, <2>1, <2>2 DEF Prepare, Goto
<1>12. ASSUME NEW j \in Jobs, LoadDiff(j) PROVE ObsInv'
  <2>1. CASE pc' = [pc EXCEPT ![j] = "posting"] /\ obs' = obs /\ pc[j] = "review"
    BY <1>3, <2>1, Moved
  <2>2. CASE pc' = [pc EXCEPT ![j] = "final"] /\ Observe(j, "Failed") /\ pc[j] = "review"
    <3>1. /\ pc'[j] = "final" /\ obs'[j] = Append(obs[j], "Failed")
          /\ \A k \in Jobs \ {j} : pc'[k] = pc[k] /\ obs'[k] = obs[k]
      BY <2>2, MovedAndObserved
    <3>. QED
      BY <1>3, <2>2, <3>1
  <2>. QED
    BY <1>12, <2>1, <2>2 DEF LoadDiff, FailReview, Goto
<1>13. ASSUME NEW j \in Jobs, PostReview(j) PROVE ObsInv'
  <2>1. /\ pc[j] = "posting" /\ pc' = [pc EXCEPT ![j] = "final"]
        /\ Observe(j, "Succeeded") \/ Observe(j, "Failed")
    BY <1>13 DEF PostReview, FailReview, Goto
  <2>2. CASE Observe(j, "Succeeded")
    <3>1. /\ pc'[j] = "final" /\ obs'[j] = Append(obs[j], "Succeeded")
          /\ \A k \in Jobs \ {j} : pc'[k] = pc[k] /\ obs'[k] = obs[k]
      BY <2>1, <2>2, MovedAndObserved
    <3>. QED
      BY <1>3, <2>1, <2>2, <3>1
  <2>3. CASE Observe(j, "Failed")
    <3>1. /\ pc'[j] = "final" /\ obs'[j] = Append(obs[j], "Failed")
          /\ \A k \in Jobs \ {j} : pc'[k] = pc[k] /\ obs'[k] = obs[k]
      BY <2>1, <2>3, MovedAndObserved
    <3>. QED
      BY <1>3, <2>1, <2>3, <3>1
  <2>. QED
    BY <2>1, <2>2, <2>3
<1>14. ASSUME NEW j \in Jobs, PostFinalStatus(j) \/ Record(j) PROVE ObsInv'
  <2>1. /\ pc[j] \in {"final", "record"} /\ obs' = obs
        /\ \E to \in {"record", "release"} : pc' = [pc EXCEPT ![j] = to]
    BY <1>14 DEF PostFinalStatus, Record, Goto
  <2>. QED
    BY <1>3, <2>1, Moved
<1>15. ASSUME NEW j \in Jobs, Panic(j) PROVE ObsInv'
  <2>1. /\ pc[j] \in Inner /\ pc' = [pc EXCEPT ![j] = "crashed"]
        /\ Observe(j, "FailedPanic")
    BY <1>15 DEF Panic
  <2>. QED
    <3>1. /\ pc'[j] = "crashed" /\ obs'[j] = Append(obs[j], "FailedPanic")
          /\ \A k \in Jobs \ {j} : pc'[k] = pc[k] /\ obs'[k] = obs[k]
      BY <2>1, MovedAndObserved
    <3>. QED
      BY <1>3, <2>1, <3>1
<1>16. ASSUME NEW j \in Jobs, Hang(j) PROVE ObsInv'
  <2>1. pc' = [pc EXCEPT ![j] = "hung"] /\ obs' = obs
    BY <1>16 DEF Hang
  <2>. QED
    BY <1>3, <2>1, Moved
<1>. QED
  BY <1>1, <1>2, <1>4, <1>5, <1>6, <1>7, <1>8, <1>9, <1>10, <1>11, <1>12,
     <1>13, <1>14, <1>15, <1>16
     DEF Next, JobStep, vars, Push, ResetPr, PurgeHistory

(* The reports of a job that ended, spelled out. *)
LEMMA EndedReports ==
    ASSUME NEW s \in LeftOut \cup Finished \cup Panicked
    PROVE  (IF s # <<>> /\ Head(s) = "QueueWait" THEN Tail(s) ELSE s)
             \in OneOutcome \cup
                 {<<"FailedPanic">>, <<"Started", "FailedPanic">>,
                  <<"Started", "Succeeded", "FailedPanic">>,
                  <<"Started", "Failed", "FailedPanic">>}
<1>1. ASSUME NEW t, t \in {<<"Skipped">>, <<"FailedPanic">>, <<"Started", "Succeeded">>,
              <<"Started", "Failed">>, <<"Started", "FailedPanic">>,
              <<"Started", "Succeeded", "FailedPanic">>,
              <<"Started", "Failed", "FailedPanic">>}
      PROVE  t # <<>> /\ Head(t) # "QueueWait"
  BY <1>1
<1>2. /\ Started = {<<"Started">>, <<"QueueWait", "Started">>}
      /\ LeftOut = {<<"Skipped">>, <<"QueueWait", "Skipped">>}
  BY DEF Started, LeftOut, After, Waiting
<1>3. Finished = {<<"Started", "Succeeded">>, <<"QueueWait", "Started", "Succeeded">>,
                  <<"Started", "Failed">>, <<"QueueWait", "Started", "Failed">>}
  BY <1>2 DEF Finished, After
<1>4. Panicked = {<<"FailedPanic">>, <<"QueueWait", "FailedPanic">>,
                  <<"Started", "FailedPanic">>, <<"QueueWait", "Started", "FailedPanic">>,
                  <<"Started", "Succeeded", "FailedPanic">>,
                  <<"QueueWait", "Started", "Succeeded", "FailedPanic">>,
                  <<"Started", "Failed", "FailedPanic">>,
                  <<"QueueWait", "Started", "Failed", "FailedPanic">>}
  BY <1>2, <1>3 DEF Panicked, After, Waiting
<1>5. \A a, b : Head(<<a, b>>) = a /\ Tail(<<a, b>>) = <<b>> /\ <<a, b>> # <<>>
  OBVIOUS
<1>6. \A a, b, c : /\ Head(<<a, b, c>>) = a /\ Tail(<<a, b, c>>) = <<b, c>>
                   /\ <<a, b, c>> # <<>>
  OBVIOUS
<1>7. \A a, b, c, d : /\ Head(<<a, b, c, d>>) = a
                      /\ Tail(<<a, b, c, d>>) = <<b, c, d>>
                      /\ <<a, b, c, d>> # <<>>
  OBVIOUS
<1>8. CASE s \in {<<"Skipped">>, <<"FailedPanic">>, <<"Started", "Succeeded">>,
              <<"Started", "Failed">>, <<"Started", "FailedPanic">>,
              <<"Started", "Succeeded", "FailedPanic">>,
              <<"Started", "Failed", "FailedPanic">>}
  BY <1>1, <1>8 DEF OneOutcome
<1>9. CASE s \in {<<"QueueWait", "Skipped">>, <<"QueueWait", "FailedPanic">>}
  BY <1>5, <1>9 DEF OneOutcome
<1>10. CASE s \in {<<"QueueWait", "Started", "Succeeded">>,
                   <<"QueueWait", "Started", "Failed">>,
                   <<"QueueWait", "Started", "FailedPanic">>}
  <2>1. PICK o \in {"Succeeded", "Failed", "FailedPanic"} : s = <<"QueueWait", "Started", o>>
    BY <1>10
  <2>2. Head(s) = "QueueWait" /\ s # <<>> /\ Tail(s) = <<"Started", o>>
    BY <1>6, <2>1
  <2>3. <<"Started", o>> \in {<<"Started", "Succeeded">>, <<"Started", "Failed">>,
                              <<"Started", "FailedPanic">>}
    BY <2>1
  <2>. QED
    BY <2>2, <2>3 DEF OneOutcome
<1>11. CASE s \in {<<"QueueWait", "Started", "Succeeded", "FailedPanic">>,
                   <<"QueueWait", "Started", "Failed", "FailedPanic">>}
  <2>1. Head(s) = "QueueWait" /\ s # <<>>
    BY <1>7, <1>11
  <2>2. Tail(s) \in {<<"Started", "Succeeded", "FailedPanic">>,
                     <<"Started", "Failed", "FailedPanic">>}
    <3>1. CASE s = <<"QueueWait", "Started", "Succeeded", "FailedPanic">>
      BY <1>7, <3>1
    <3>2. CASE s = <<"QueueWait", "Started", "Failed", "FailedPanic">>
      BY <1>7, <3>2
    <3>. QED
      BY <1>11, <3>1, <3>2
  <2>. QED
    BY <2>1, <2>2
<1>. QED
  BY <1>2, <1>3, <1>4, <1>8, <1>9, <1>10, <1>11

(* A panic's report, as what was said before it and the panic. *)
LEMMA PanicIsLast ==
    ASSUME NEW s \in {<<"FailedPanic">>, <<"Started", "FailedPanic">>,
                      <<"Started", "Succeeded", "FailedPanic">>,
                      <<"Started", "Failed", "FailedPanic">>}
    PROVE  \E said \in {<<>>, <<"Started">>, <<"Started", "Succeeded">>,
                         <<"Started", "Failed">>} : s = Append(said, "FailedPanic")
<1> DEFINE Said == {<<>>, <<"Started">>, <<"Started", "Succeeded">>,
                    <<"Started", "Failed">>}
<1>1. After(Said, "FailedPanic") =
        {<<"FailedPanic">>, <<"Started", "FailedPanic">>,
         <<"Started", "Succeeded", "FailedPanic">>,
         <<"Started", "Failed", "FailedPanic">>}
  BY DEF After
<1>. QED
  BY <1>1 DEF After

(* A job that ends without a panic has reported a skip, or a start and one *)
(* outcome, whichever way it left run_review_job; a panic is counted once, *)
(* after a leading part of that.                                           *)
THEOREM ObservationsComplete == Spec => []ObservationsAddUp
<1>1. Init => TypeOK /\ QueueInv /\ ObsInv
  BY InitTypes, InitQueues DEF Init, ObsInv
<1>2. TypeOK /\ QueueInv /\ ObsInv /\ [Next]_vars => (TypeOK /\ QueueInv /\ ObsInv)'
  BY NextTypes, NextQueues, NextObs
<1>3. ObsInv => ObservationsAddUp
  <2> SUFFICES ASSUME ObsInv, NEW j \in Jobs, pc[j] = "done"
               PROVE  \/ Reported(j) \in OneOutcome
                      \/ \E said \in {<<>>, <<"Started">>, <<"Started", "Succeeded">>,
                                       <<"Started", "Failed">>} :
                            Reported(j) = Append(said, "FailedPanic")
    BY DEF ObservationsAddUp
  <2>1. Reported(j) \in OneOutcome \cup
                 {<<"FailedPanic">>, <<"Started", "FailedPanic">>,
                  <<"Started", "Succeeded", "FailedPanic">>,
                  <<"Started", "Failed", "FailedPanic">>}
    BY EndedReports DEF ObsInv, Reported
  <2>. QED
    BY <2>1, PanicIsLast
<1>. QED
  BY <1>1, <1>2, <1>3, PTL DEF Spec
=============================================================================
