--------------------------- MODULE ReviewPipeline ---------------------------
(***************************************************************************)
(* review_pull_request (ar-review/src/pipeline.rs) and what it calls, one  *)
(* await at a time: the diff, the changed files, the self-healing call of  *)
(* the reasoning model, the two verifiers, the metadata check, the removal *)
(* of the override marker and the post of the review.                      *)
(*                                                                         *)
(* A diff is the set of paths it shows.  A finding is a record [path,      *)
(* severity, message]; the model may report any of the sets in Reports,    *)
(* and every answer of a model is a choice.  Ranks: 1 note, 2 warning,     *)
(* 3 error.                                                                *)
(***************************************************************************)
EXTENDS PullRequest

CONSTANTS
    Jobs,               \* calls of review_pull_request
    Paths,              \* files of the repository, as a sequence in diff order
    Size,               \* Size[p]: bytes of the section of p in a diff
    FilesAt,            \* FilesAt[h]: files the pull request changes at head h
    DeltaAt,            \* DeltaAt[h]: files an incremental diff to h shows
    Removed,            \* files the pull request deletes
    Trivial,            \* lockfiles, generated and vendored files
    Ignored,            \* files matching ignored_paths of the repo config
    Contexts,           \* sets of files whose symbols repo_context may quote
    Reports,            \* sets of findings the reasoning model may answer
    Concurrency,        \* AR_REVIEW_CONCURRENCY
    MaxDiff,            \* DEFAULT_MAX_DIFF_BYTES
    MinSeverity,        \* AR_SEVERITY_FLOOR
    MaxAttempts,        \* HealConfig::max_attempts
    MaxTurns,           \* DEFAULT_MAX_TURNS of the agentic verifier
    CheapTier,          \* is a cheap model configured?
    Agentic,            \* AR_AGENTIC_VERIFIER
    MetadataEnabled,    \* pr_metadata_check.enabled
    BodyRequired,       \* pr_metadata_check.checks.body_required
    Faults              \* the calls that may fail: "host", "llm", "store"

PathSet == {Paths[i] : i \in 1..Len(Paths)}

ASSUME PipelineAssumption ==
    /\ IsFiniteSet(Jobs)
    /\ Paths \in Seq(PathSet)
    /\ Size \in [PathSet -> Nat]
    /\ FilesAt \in [1..MaxHead -> SUBSET PathSet]
    /\ DeltaAt \in [1..MaxHead -> SUBSET PathSet]
    /\ Removed \subseteq PathSet
    /\ Trivial \subseteq PathSet
    /\ Ignored \subseteq PathSet
    /\ Contexts \subseteq SUBSET PathSet
    /\ {} \in Contexts
    /\ \A f \in UNION Reports : f.severity \in 1..3
    /\ Concurrency \in Nat \ {0}
    /\ MaxDiff \in Nat
    /\ MinSeverity \in 1..3
    /\ MaxAttempts \in Nat
    /\ MaxTurns \in Nat
    /\ {CheapTier, Agentic, MetadataEnabled, BodyRequired} \subseteq BOOLEAN
    /\ Faults \subseteq {"host", "llm", "store"}

VARIABLE job    \* job[j]: the arguments and locals of the call

(* The text of no pull request in particular. *)
Blank == [head |-> 1, open |-> TRUE, title |-> CHOOSE t \in Titles : TRUE,
          marked |-> FALSE, body |-> CHOOSE b \in Bodies : TRUE,
          section |-> FALSE]

NoJob ==
    [pc |-> "idle", text |-> Blank, force |-> FALSE,
     workspace |-> "none", incremental |-> FALSE, known |-> FALSE,
     diff |-> {}, changed |-> {}, quoted |-> {}, attempt |-> 1, raw |-> {},
     findings |-> {}, todo |-> {}, turn |-> 0, dropped |-> {},
     blocking |-> FALSE]

Goto(j, pc) == job' = [job EXCEPT ![j].pc = pc]

(* The call returns; its locals are gone. *)
Return(j, pc) == job' = [job EXCEPT ![j] = [NoJob EXCEPT !.pc = pc]]

-----------------------------------------------------------------------------
(* Pure parts.                                                             *)

(* classify, is_lockfile, is_generated_path, is_vendored *)
Classify(p) == IF p \in Trivial THEN "Trivial" ELSE "Reviewable"

(* pr_is_skippable: neither an empty list nor one of deletions only. *)
PrIsSkippable(files) ==
    LET surviving == files \ Removed
    IN  surviving # {} /\ \A p \in surviving : Classify(p) = "Trivial"

(* What prepare_workspace_from_clone_url and load_repo_config come to: no  *)
(* clone, or one whose .auto_review.yaml is absent, too large or broken    *)
(* ("plain"), in force, or switches the bot off.                           *)
Workspaces == {"plain", "configured", "disabled"}
              \cup (IF "host" \in Faults THEN {"none"} ELSE {})

DefaultConfig == [ignored |-> {}, metadata |-> TRUE, bodyRequired |-> TRUE]

(* load_repo_config; without a clone the defaults are used as well. *)
RepoConfigOf(k) ==
    IF k.workspace = "configured"
    THEN [ignored |-> Ignored, metadata |-> MetadataEnabled,
          bodyRequired |-> BodyRequired]
    ELSE DefaultConfig

(* The matcher that build_glob_set makes of ignored_paths. *)
IgnoredOf(k) == RepoConfigOf(k).ignored

(* filter_diff_paths and filter_changed_files *)
FilterPaths(files, ignored) == files \ ignored

(* cap_diff: sections in order, each kept when it still fits; out[n] is    *)
(* the length of what is kept of the first n.                              *)
CapDiff(files) ==
    LET fits(n, length) ==
            Paths[n] \in files /\ length + Size[Paths[n]] <= MaxDiff
        out[n \in 0..Len(Paths)] ==
            IF n = 0 THEN 0
            ELSE LET length == out[n - 1]
                 IN  IF fits(n, length) THEN length + Size[Paths[n]] ELSE length
    IN  {Paths[n] : n \in {i \in 1..Len(Paths) : fits(i, out[i - 1])}}

(* apply_severity_floor, severity_rank *)
ApplySeverityFloor(findings) == {f \in findings : f.severity >= MinSeverity}

(* drop_findings_outside_changed_paths: no list, no filter. *)
DropOutside(findings, changed) ==
    IF changed = {} THEN findings ELSE {f \in findings : f.path \in changed}

(* validate_pr_metadata_title_length: the marker counts. *)
TitleTooLong(text) ==
    \/ text.title.length = "long"
    \/ text.title.length = "near" /\ text.marked

(* is_release_pr_title: looks behind the marker. *)
IsReleasePrTitle(text) == text.title.form = "release"

(* markdown_section_has_content for Summary and Why or Verification *)
HasSubstantiveBody(text) == text.body = "good"

(* has_clearly_acceptable_pr_metadata: the marker is neither an imperative *)
(* verb nor a conventional prefix.                                         *)
HasClearlyAcceptablePrMetadata(text) ==
    \/ IsReleasePrTitle(text)
    \/ /\ ~TitleTooLong(text)
       /\ ~text.marked
       /\ text.title.form \in {"imperative", "conventional"}
       /\ HasSubstantiveBody(text)

(* &word[1..] of a first word that starts with a multi-byte character. *)
TitlePanics(text) ==
    text.title.form = "accented" /\ ~text.marked /\ ~TitleTooLong(text)

(* is_empty_body_specific_metadata_failure, for a body that is empty *)
ExcusedEmptyBody(k, verdict) ==
    /\ k.text.body = "empty" /\ ~k.text.section
    /\ ~RepoConfigOf(k).bodyRequired
    /\ verdict = "body"

MetadataVerdicts == {"none", "pass", "fail", "body"}

MetadataBlocks(k, verdict) ==
    /\ verdict \in {"fail", "body"}
    /\ ~HasClearlyAcceptablePrMetadata(k.text)
    /\ ~ExcusedEmptyBody(k, verdict)

(* render_review_prompt: the files the model is shown, in the diff, in the *)
(* list of changed files and in repo_context.                              *)
Prompt(k) == k.diff \cup k.changed \cup k.quoted

(* output_to_review_request, and the event append_pre_merge_checks forces. *)
ReviewEvent(k) ==
    IF k.blocking \/ \E f \in k.findings : f.severity = 3
    THEN "REQUEST_CHANGES" ELSE "APPROVED"

(* The inline comments: one for each severity and message. *)
ErrorComments(findings) == {f.message : f \in {g \in findings : g.severity = 3}}

-----------------------------------------------------------------------------
(* A job is made from the pull request as get_pull_request returned it;    *)
(* when the list of files can be had, trivial pull requests are skipped.   *)
Enqueue(j, text, force) ==
    /\ job[j].pc = "idle"
    /\ \E listed \in BOOLEAN :
          /\ listed \/ "host" \in Faults
          /\ job' = [job EXCEPT ![j] = [NoJob EXCEPT
                !.text = text, !.force = force,
                !.pc = IF listed /\ PrIsSkippable(FilesAt[pr.head])
                       THEN "skipped" ELSE "prepare"]]

CiReview(j) ==
    /\ pr.open
    /\ Enqueue(j, Snapshot, FALSE)
    /\ UNCHANGED prVars

ReviewEnded == {"idle", "done", "failed", "panicked", "skipped"}

Running == {j \in Jobs : job[j].pc \notin ReviewEnded \cup {"prepare"}}

(* The job has a permit.  The workspace is cloned or not; the diff is the  *)
(* incremental one, the one fetched for the context, or still to be        *)
(* fetched.  With a clone and its diff comes repo_context, best-effort:    *)
(* the symbols nearest to that unfiltered diff, of any files of the clone  *)
(* (build_review_context_with_store).  A forced job, which a command asked *)
(* for, is never incremental.                                              *)
PrepareWith(j, workspace, incremental, fetched, quoted) ==
    /\ fetched => workspace # "none"
    /\ quoted # {} => fetched
    /\ incremental => ~job[j].force
    /\ IF workspace = "disabled" THEN Return(j, "skipped")
       ELSE job' = [job EXCEPT ![j] = [@ EXCEPT
                !.pc = "diff", !.workspace = workspace,
                !.force = FALSE, !.quoted = quoted,
                !.incremental = incremental, !.known = incremental \/ fetched,
                !.diff = IF incremental THEN DeltaAt[job[j].text.head]
                         ELSE IF fetched THEN FilesAt[pr.head] ELSE {}]]

Prepare(j) ==
    /\ job[j].pc = "prepare"
    /\ Cardinality(Running) < Concurrency
    /\ \E workspace \in Workspaces, incremental, fetched \in BOOLEAN,
          quoted \in Contexts :
          PrepareWith(j, workspace, incremental, fetched, quoted)
    /\ UNCHANGED prVars

(* raw_diff, then filter_diff_paths and cap_diff.  The changed files of an *)
(* incremental review are those of the filtered, uncapped diff.            *)
FetchDiffUnpruned(j) ==
    /\ job[j].pc = "diff"
    /\ LET k == job[j]
           raw == IF k.known THEN k.diff ELSE FilesAt[pr.head]
           pruned == IF k.incremental THEN raw
                     ELSE FilterPaths(raw, IgnoredOf(k))
       IN  job' = [job EXCEPT ![j] = [k EXCEPT
              !.diff = CapDiff(pruned),
              !.changed = IF k.incremental THEN pruned ELSE {},
              \* not looked at again:
              !.text.head = 1, !.known = FALSE, !.incremental = FALSE,
              !.pc = IF k.incremental THEN "generate" ELSE "files"]]
    /\ UNCHANGED prVars

FetchDiff(j) ==
    /\ job[j].pc = "diff"
    /\ LET k == job[j]
           raw == IF k.known THEN k.diff ELSE FilesAt[pr.head]
           pruned == FilterPaths(raw, IgnoredOf(k))
       IN  job' = [job EXCEPT ![j] = [k EXCEPT
              !.diff = CapDiff(pruned),
              !.changed = IF k.incremental THEN pruned ELSE {},
              \* not looked at again:
              !.text.head = 1, !.known = FALSE, !.incremental = FALSE,
              !.pc = IF k.incremental THEN "generate" ELSE "files"]]
    /\ UNCHANGED prVars

(* list_changed_files of the pull request as it is now. *)
ListChangedFiles(j) ==
    /\ job[j].pc = "files"
    /\ job' = [job EXCEPT ![j] = [@ EXCEPT
          !.changed = FilterPaths(FilesAt[pr.head], IgnoredOf(job[j])),
          !.pc = "generate"]]
    /\ UNCHANGED prVars

HostFails(j) ==
    /\ "host" \in Faults
    /\ \/ job[j].pc = "diff" /\ ~job[j].known
       \/ job[j].pc \in {"files", "post"}
    /\ Return(j, "failed")
    /\ UNCHANGED prVars

(* generate_with_self_heal: an answer that fails validation is sent back   *)
(* with the error, at most MaxAttempts times and at least once.            *)
GenerateForever(j) ==
    /\ job[j].pc = "generate"
    /\ \/ \E findings \in Reports :
             job' = [job EXCEPT ![j] = [@ EXCEPT !.raw = findings,
                !.findings = ApplySeverityFloor(findings),
                !.todo = ApplySeverityFloor(findings), !.pc = "verify",
                !.attempt = 1]]
       \/ IF job[j].attempt < MaxAttempts
          THEN job' = [job EXCEPT ![j].attempt = @ + 1]
          ELSE job' = [job EXCEPT ![j].attempt = 1]
    /\ UNCHANGED prVars

Generate(j) ==
    /\ job[j].pc = "generate"
    /\ \/ \E findings \in Reports :
             job' = [job EXCEPT ![j] = [@ EXCEPT !.raw = findings,
                !.findings = ApplySeverityFloor(findings),
                !.todo = ApplySeverityFloor(findings), !.pc = "verify",
                !.attempt = 1, !.quoted = {}]]
       \/ IF job[j].attempt < MaxAttempts
          THEN job' = [job EXCEPT ![j].attempt = @ + 1]
          ELSE Return(j, "failed")
    /\ UNCHANGED prVars

(* LlmProvider::complete of the reasoning model returns an error. *)
LlmFails(j) ==
    /\ "llm" \in Faults
    /\ job[j].pc = "generate"
    /\ Return(j, "failed")
    /\ UNCHANGED prVars

(* The end of verification: the floor again, and the path guard. *)
Verified(k, findings) ==
    [k EXCEPT !.findings = DropOutside(ApplySeverityFloor(findings), k.changed),
              !.todo = {}, !.turn = 0, !.pc = "metadata"]

(* No cheap tier, or nothing to verify: the output is returned unchanged. *)
SkipVerification(j) ==
    /\ job[j].pc = "verify"
    /\ ~CheapTier \/ job[j].todo = {}
    /\ job' = [job EXCEPT ![j] = Verified(@, @.findings)]
    /\ UNCHANGED prVars

(* verify_findings: one call for all of them.  An error or an answer that  *)
(* fails validation keeps them all; otherwise verdicts name some to drop.  *)
VerifySimple(j) ==
    /\ job[j].pc = "verify"
    /\ CheapTier /\ job[j].todo # {}
    /\ ~(Agentic /\ job[j].workspace # "none")
    /\ \E dropped \in SUBSET job[j].todo :
          job' = [job EXCEPT ![j] =
             Verified([@ EXCEPT !.dropped = dropped], @.findings \ dropped)]
    /\ UNCHANGED prVars

(* verify_one ended for f, with or without dropping it. *)
Judged(k, f, drop) ==
    LET left == [k EXCEPT !.todo = @ \ {f}, !.turn = 0,
                          !.findings = IF drop THEN @ \ {f} ELSE @]
    IN  IF left.todo = {} THEN Verified(left, left.findings) ELSE left

(* tool_read_file or tool_search, on the cloned workspace; what they find, *)
(* or why they find nothing, is appended to the model's prompt.            *)
UseTool(k) == [k EXCEPT !.turn = @ + 1]

(* verify_findings_agentic and verify_one: up to MaxTurns calls for each   *)
(* finding.  Only a verdict with keep = false drops it; an error, broken   *)
(* JSON, an unknown tool or the end of the budget keeps it.                *)
VerifyTurnBudgetDrops(j) ==
    /\ job[j].pc = "verify"
    /\ CheapTier /\ Agentic /\ job[j].workspace # "none"
    /\ job[j].todo # {}
    /\ LET f == CHOOSE g \in job[j].todo : TRUE
       IN \/ job' = [job EXCEPT ![j] =
                Judged([job[j] EXCEPT !.dropped = @ \cup {f}], f, TRUE)]
          \/ IF job[j].turn + 1 < MaxTurns
             THEN job' = [job EXCEPT ![j] = UseTool(@)]
             ELSE job' = [job EXCEPT ![j] = Judged(@, f, TRUE)]
    /\ UNCHANGED prVars

VerifyTurn(j) ==
    /\ job[j].pc = "verify"
    /\ CheapTier /\ Agentic /\ job[j].workspace # "none"
    /\ job[j].todo # {}
    /\ LET f == CHOOSE g \in job[j].todo : TRUE
       IN \/ job' = [job EXCEPT ![j] =
                Judged([job[j] EXCEPT !.dropped = @ \cup {f}], f, TRUE)]
          \/ job' = [job EXCEPT ![j] = Judged(@, f, FALSE)]
          \/ IF job[j].turn + 1 < MaxTurns
             THEN job' = [job EXCEPT ![j] = UseTool(@)]
             ELSE job' = [job EXCEPT ![j] = Judged(@, f, FALSE)]
    /\ UNCHANGED prVars

(* validate_pr_metadata_title_length, then validate_pr_metadata_quality;   *)
(* no answer of the model counts as no verdict.                            *)
Verdicts(k) ==
    IF ~RepoConfigOf(k).metadata THEN {"none"}
    ELSE IF TitleTooLong(k.text) THEN {"fail"}
    ELSE IF ~CheapTier THEN {"none"}
    ELSE MetadataVerdicts

CheckMetadata(j) ==
    /\ job[j].pc = "metadata"
    /\ \E verdict \in Verdicts(job[j]) :
          IF verdict \in {"fail", "body"} /\ TitlePanics(job[j].text)
          THEN Return(j, "panicked")
          ELSE job' = [job EXCEPT ![j] = [NoJob EXCEPT !.pc = "strip",
                  !.text = job[j].text, !.findings = job[j].findings,
                  !.blocking = MetadataBlocks(job[j], verdict)]]
    /\ UNCHANGED prVars

(* The marker comes off when this review does not request changes: a write *)
(* of the title and body the job was made with.  A failed write is logged. *)
StripOverrideUnmarked(j) ==
    /\ job[j].pc = "strip"
    /\ Goto(j, "post")
    /\ IF ReviewEvent(job[j]) # "REQUEST_CHANGES"
       THEN \/ UpdatePullRequest(StripMarker(job[j].text))
            \/ "host" \in Faults /\ UNCHANGED pr
       ELSE UNCHANGED pr
    /\ UNCHANGED <<reviews, versions>>

StripOverride(j) ==
    /\ job[j].pc = "strip"
    /\ Goto(j, "post")
    /\ IF ReviewEvent(job[j]) # "REQUEST_CHANGES" /\ HasMarker(job[j].text)
       THEN \/ UpdatePullRequest(StripMarker(job[j].text))
            \/ "host" \in Faults /\ UNCHANGED pr
       ELSE UNCHANGED pr
    /\ UNCHANGED <<reviews, versions>>

PostReview(j) ==
    /\ job[j].pc = "post"
    /\ CreateReview([Review("pipeline", ReviewEvent(job[j])) EXCEPT
                       !.errors = ErrorComments(job[j].findings)])
    /\ Return(j, "done")
    /\ UNCHANGED <<pr, versions>>

JobStep(j) ==
    \/ Prepare(j) \/ FetchDiff(j) \/ ListChangedFiles(j) \/ HostFails(j)
    \/ Generate(j) \/ LlmFails(j)
    \/ SkipVerification(j) \/ VerifySimple(j) \/ VerifyTurn(j)
    \/ CheckMetadata(j) \/ StripOverride(j) \/ PostReview(j)

PipelineInit == job = [j \in Jobs |-> NoJob]
=============================================================================
