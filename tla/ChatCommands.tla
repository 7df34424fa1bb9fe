---------------------------- MODULE ChatCommands ----------------------------
(***************************************************************************)
(* ChatHandler::handle (ar-chat/src/handler.rs) for the commands that act  *)
(* on the pull request: help, re-review, autofix, docstring, tests, and    *)
(* directed comments, which a model sorts into questions, re-reviews and   *)
(* requests to approve.  A request to approve over the bot's own objection *)
(* is an override: it needs a listed user and a reason, and it leaves the  *)
(* marker on the pull request.  remember and forget are LearningsStore's.  *)
(*                                                                         *)
(* Commands run as tasks of their own, next to each other and to reviews;  *)
(* every await is a step.                                                  *)
(***************************************************************************)
EXTENDS ReviewPipeline

CONSTANTS
    Chats,          \* comments that mention the bot
    Users,
    Approvers,      \* override_approvers in .auto_review.yaml of the base
    Patches,        \* patches the model may propose: records [path, usable]
    MaxPatches,     \* AUTOFIX_MAX_PATCHES
    HasDispatcher   \* ChatHandler::dispatcher is set

ASSUME ChatAssumption ==
    /\ Chats \subseteq Jobs       \* a job is known by who asked for it
    /\ Approvers \subseteq Users
    /\ MaxPatches \in Nat
    /\ HasDispatcher \in BOOLEAN

VARIABLE chat   \* chat[c]: the command's place and locals

vars == <<pr, reviews, versions, job, chat>>

NoChat ==
    [pc |-> "idle", text |-> Blank, blocked |-> FALSE, over |-> FALSE,
     authorised |-> FALSE, replies |-> 0]

(* What parse_chat_command makes of a comment that mentions the bot: the   *)
(* first word decides, a quoted reply is a correction, and anything else,  *)
(* or a remember or forget without its argument, is freeform or help.      *)
Commands == {"help", "re_review", "suggest", "tests", "directed"}

Become(c, k) == chat' = [chat EXCEPT ![c] = k]

Step(c, from, to) ==
    /\ chat[c].pc = from
    /\ chat' = [chat EXCEPT ![c].pc = to]

(* The command ended; only what it told the user is left. *)
End(c, pc, replies) == Become(c, [NoChat EXCEPT !.pc = pc, !.replies = replies])

Mention(c) ==
    /\ chat[c].pc = "idle"
    /\ \E cmd \in Commands : Become(c, [NoChat EXCEPT !.pc = cmd])
    /\ UNCHANGED <<prVars, job>>

(* post: an error is the command's error. *)
Reply(c) ==
    \/ End(c, "answered", chat[c].replies + 1)
    \/ "host" \in Faults /\ End(c, "failed", chat[c].replies)

Help(c) ==
    /\ chat[c].pc = "help"
    /\ Reply(c)
    /\ UNCHANGED <<prVars, job>>

(* DirectedIntent: a question whenever the model is missing, fails or      *)
(* answers something else (parse_directed_intent).                         *)
Intents == {"question"} \cup (IF CheapTier THEN {"re_review", "approval"} ELSE {})

(* handle_directed and classify_intent *)
ClassifyIntent(c) == \E intent \in Intents : Step(c, "directed", intent)

(* handle_re_review: reads the pull request, refuses a draft or closed     *)
(* one, queues a forced job for the snapshot and then replies.             *)
HandleReReviewSilent(c) ==
    /\ chat[c].pc = "re_review"
    /\ \/ /\ ~HasDispatcher \/ ~pr.open
          /\ Reply(c)
          /\ UNCHANGED job
       \/ /\ HasDispatcher /\ pr.open
          /\ Enqueue(c, Snapshot, TRUE)
          /\ End(c, "answered", 0)
       \/ /\ HasDispatcher /\ "host" \in Faults
          /\ End(c, "failed", 0)
          /\ UNCHANGED job
    /\ UNCHANGED prVars

HandleReReview(c) ==
    /\ chat[c].pc = "re_review"
    /\ \/ /\ ~HasDispatcher \/ ~pr.open
          /\ Reply(c)
          /\ UNCHANGED job
       \/ /\ HasDispatcher /\ pr.open
          /\ Enqueue(c, Snapshot, TRUE)
          /\ Step(c, "re_review", "reply")
       \/ /\ HasDispatcher /\ "host" \in Faults
          /\ End(c, "failed", 0)
          /\ UNCHANGED job
    /\ UNCHANGED prVars

ReplyQueued(c) ==
    /\ chat[c].pc = "reply"
    /\ Reply(c)
    /\ UNCHANGED <<prVars, job>>

(* handle_suggest up to the model's call. *)
HandleSuggest(c) ==
    /\ chat[c].pc = "suggest"
    /\ \/ /\ ~CheapTier \/ ~pr.open
          /\ Reply(c)
       \/ /\ CheapTier /\ pr.open
          /\ Become(c, [chat[c] EXCEPT !.pc = "patches"])
       \/ /\ CheapTier /\ "host" \in Faults
          /\ End(c, "failed", 0)
    /\ UNCHANGED <<prVars, job>>

(* What the model may answer: a list of patches in the schema's shape.     *)
Proposals == SUBSET Patches

(* paths_in_diff: the files of the diff, read from its headers. *)
PathsInDiff == FilesAt[pr.head]

(* A filter on what the model proposes; the first MaxPatches of the rest   *)
(* are posted.  No diff is a reply of its own.                             *)
Suggestions(proposed) ==
    {p \in proposed : p.usable /\ p.path \in PathsInDiff}

(* The bot's COMMENT review with inline suggestions. *)
PostSuggestions(c) ==
    /\ chat[c].pc = "patches"
    /\ \/ \E proposed \in Proposals :
             IF Suggestions(proposed) = {}
             THEN Reply(c) /\ UNCHANGED reviews
             ELSE \/ /\ CreateReview(Review("suggest", "COMMENT"))
                     /\ End(c, "answered", chat[c].replies + 1)
                  \/ /\ "host" \in Faults
                     /\ End(c, "failed", 0)
                     /\ UNCHANGED reviews
       \/ "llm" \in Faults /\ End(c, "failed", 0) /\ UNCHANGED reviews
    /\ UNCHANGED <<pr, versions, job>>

(* handle_test_scaffolds: the same checks, and an issue comment at the end. *)
HandleTestScaffolds(c) ==
    /\ chat[c].pc = "tests"
    /\ \/ Reply(c)
       \/ CheapTier /\ pr.open /\ "llm" \in Faults /\ End(c, "failed", 0)
    /\ UNCHANGED <<prVars, job>>

(* handle_freeform: an answer about the diff, or about none. *)
HandleFreeform(c) ==
    /\ chat[c].pc = "question"
    /\ \/ Reply(c)
       \/ CheapTier /\ "llm" \in Faults /\ End(c, "failed", 0)
    /\ UNCHANGED <<prVars, job>>

-----------------------------------------------------------------------------
(* handle_override_approval                                                *)

ReadForApproval(c) ==
    /\ chat[c].pc = "approval"
    /\ \/ ~pr.open /\ Reply(c)
       \/ /\ pr.open
          /\ Become(c, [chat[c] EXCEPT !.pc = "findings",
                                       !.text = [Snapshot EXCEPT !.head = 1]])
       \/ "host" \in Faults /\ End(c, "failed", 0)
    /\ UNCHANGED <<prVars, job>>

ByBot(r) == r.by # "human"

(* outstanding_findings: the newest review by the bot's own login. *)
LatestOfAnyone(rs) == IF rs = <<>> THEN "none" ELSE rs[Len(rs)].event

Latest(rs) ==
    LET mine == {i \in 1..Len(rs) : ByBot(rs[i])}
    IN  IF mine = {} THEN "none"
        ELSE rs[CHOOSE i \in mine : \A k \in mine : k <= i].event

(* The bot's newest review, stated independently, objects. *)
BotObjects ==
    \E i \in 1..Len(reviews) :
       /\ ByBot(reviews[i]) /\ reviews[i].event = "REQUEST_CHANGES"
       /\ \A k \in i + 1..Len(reviews) : ~ByBot(reviews[k])

(* A failed listing counts as no objection.  `over` remembers whether the  *)
(* list that was read held one.                                            *)
OutstandingFindings(c) ==
    /\ chat[c].pc = "findings"
    /\ \/ Become(c, [chat[c] EXCEPT
             !.over = BotObjects,
             !.blocked = Latest(reviews) = "REQUEST_CHANGES",
             !.pc = IF Latest(reviews) = "REQUEST_CHANGES"
                    THEN "authorise" ELSE "remember"])
       \/ "host" \in Faults /\ Become(c, [chat[c] EXCEPT !.pc = "remember"])
    /\ UNCHANGED <<prVars, job>>

(* load_repo_config_for_chat and is_override_approver: a config that       *)
(* cannot be read or parsed lists nobody.                                  *)
LoadedApprovers(loaded) == IF loaded THEN Approvers ELSE {}

(* judge_override_reason: the cheap model finds a reason or not; without   *)
(* the model or its answer, four words count as a reason.                  *)
ReasonFound == BOOLEAN

(* is_override_approver of the commenter, who matters nowhere else. *)
AuthoriseOverride(c) ==
    /\ chat[c].pc = "authorise"
    /\ \E user \in Users, loaded \in BOOLEAN, reasoned \in ReasonFound :
          /\ loaded \/ "host" \in Faults
          /\ \/ /\ user \notin LoadedApprovers(loaded)
                /\ Become(c, [chat[c] EXCEPT !.pc = "note"])
             \/ /\ user \in LoadedApprovers(loaded)
                /\ IF reasoned
                   THEN Become(c, [chat[c] EXCEPT !.pc = "remember",
                                                  !.authorised = TRUE])
                   ELSE Reply(c)
    /\ UNCHANGED <<prVars, job>>

(* remember_correction: the embedding or the store may fail, and the       *)
(* command with it.                                                        *)
RememberCorrection(c) ==
    /\ chat[c].pc \in {"remember", "note"}
    /\ \/ Become(c, [chat[c] EXCEPT
             !.pc = IF @ = "note" THEN "refuse" ELSE "approve"])
       \/ "store" \in Faults /\ End(c, "failed", 0)
    /\ UNCHANGED <<prVars, job>>

Refuse(c) ==
    /\ chat[c].pc = "refuse"
    /\ Reply(c)
    /\ UNCHANGED <<prVars, job>>

(* The approval, whose body names who overrode what and why. *)
OverrideReview(k) == [Review("chat", "APPROVED") EXCEPT
                        !.over = k.over, !.authorised = k.authorised]

Approve(c) ==
    /\ chat[c].pc = "approve"
    /\ \/ /\ CreateReview(OverrideReview(chat[c]))
          /\ IF chat[c].blocked
             THEN Become(c, [chat[c] EXCEPT !.pc = "stamp", !.replies = @ + 1])
             ELSE End(c, "answered", chat[c].replies + 1)
       \/ "host" \in Faults /\ End(c, "failed", 0) /\ UNCHANGED reviews
    /\ UNCHANGED <<pr, versions, job>>

(* The title and body read at the start, with the marker; best effort. *)
StampBodyOnly(c) ==
    /\ chat[c].pc = "stamp"
    /\ UpdatePullRequest([chat[c].text EXCEPT !.section = TRUE])
    /\ End(c, "answered", chat[c].replies)
    /\ UNCHANGED <<reviews, versions, job>>

StampOverride(c) ==
    /\ chat[c].pc = "stamp"
    /\ \/ UpdatePullRequest(ApplyMarker(chat[c].text))
       \/ "host" \in Faults /\ UNCHANGED pr
    /\ End(c, "answered", chat[c].replies)
    /\ UNCHANGED <<reviews, versions, job>>

ChatStep(c) ==
    \/ Help(c)
    \/ ClassifyIntent(c) /\ UNCHANGED <<prVars, job>>
    \/ HandleReReview(c) \/ ReplyQueued(c)
    \/ HandleSuggest(c) \/ PostSuggestions(c)
    \/ HandleTestScaffolds(c) \/ HandleFreeform(c)
    \/ ReadForApproval(c) \/ OutstandingFindings(c) \/ AuthoriseOverride(c)
    \/ RememberCorrection(c) \/ Refuse(c) \/ Approve(c) \/ StampOverride(c)

-----------------------------------------------------------------------------
Init == PRInit /\ PipelineInit /\ chat = [c \in Chats |-> NoChat]

People == (Push \/ Edit) /\ UNCHANGED <<job, chat>>

Next ==
    \/ People
    \/ \E j \in Jobs \ Chats : CiReview(j) /\ UNCHANGED chat
    \/ \E j \in Jobs : JobStep(j) /\ UNCHANGED chat
    \/ \E c \in Chats : Mention(c) \/ ChatStep(c)

Spec == Init /\ [][Next]_vars

(* tokio polls every task it was given; only the people may do nothing. *)
FairSpec ==
    /\ Spec
    /\ \A j \in Jobs : WF_vars(JobStep(j) /\ UNCHANGED chat)
    /\ \A c \in Chats : WF_vars(ChatStep(c))
-----------------------------------------------------------------------------
(* What is left to post after verification is what the model reported, at  *)
(* or above the floor, on a changed path when the changed paths are known, *)
(* and not dropped by an explicit verdict.  In particular a verifier that  *)
(* fails, answers nonsense or runs out of turns drops nothing              *)
(* (verify.rs, agentic_verify.rs, pipeline.rs:645-667).                    *)
FindingsAccounted ==
    \A j \in Jobs : job[j].pc = "metadata" =>
        job[j].findings =
            {f \in job[j].raw :
                /\ f.severity >= MinSeverity
                /\ f \notin job[j].dropped
                /\ job[j].changed = {} \/ f.path \in job[j].changed}

(* ".auto_review.example.yaml": ignored files are stripped from the diff   *)
(* sent to the model and from the list of changed files, on the full and   *)
(* on the incremental way: an ignored file a prompt shows is one its       *)
(* repo_context quotes, which is made from the whole clone and the         *)
(* unfiltered diff, so that docs/USER-GUIDE.md:121-122, which has the list *)
(* filter files "out of the review entirely", says too much.  No ignored   *)
(* file gets an inline comment unless every changed file is ignored, when  *)
(* the path guard is off (pipeline.rs:75, 590-610, 636;                    *)
(* dispatcher.rs:771-803).                                                 *)
IgnoredStayOut ==
    \A j \in Jobs : job[j].pc \notin ReviewEnded \cup {"prepare", "diff"}
                      /\ job[j].workspace = "configured" =>
        /\ \A p \in Prompt(job[j]) \cap Ignored :
              p \in job[j].quoted /\ p \notin job[j].diff \cup job[j].changed
        /\ (job[j].pc = "metadata" /\ job[j].changed # {}) =>
              \A f \in job[j].findings : f.path \notin Ignored

(* An approval that a command posts over an objection the command has seen *)
(* was asked for by a listed user with a reason; other people's reviews do *)
(* not hide the bot's objection (handle_override_approval,                 *)
(* outstanding_findings).                                                  *)
ApprovalIsEarned ==
    \A i \in 1..Len(reviews) :
        reviews[i].by = "chat" /\ reviews[i].over => reviews[i].authorised

(* Someone listed has overridden the bot. *)
Overridden ==
    \E i \in 1..Len(reviews) : reviews[i].by = "chat" /\ reviews[i].authorised

(* Title marker and body section come and go together, and while they are  *)
(* there, an authorised override has been posted: through overlapping      *)
(* overrides and reviews that write the text from their own snapshots.     *)
MarkerIsOverride ==
    /\ pr.marked = pr.section
    /\ pr.marked => Overridden

(* The bot writes title and body from a snapshot, so it can bring back     *)
(* older words (an edit made meanwhile is lost), but the words on the pull *)
(* request are always ones a person has written, title with its body.      *)
(* ImplementsMarker implies it.                                            *)
WordsArePeoples == <<pr.title, pr.body>> \in versions

(* The bot keeps its promise about title and body: it writes neither until *)
(* an authorised override was posted, and then both at once, with words    *)
(* people wrote together; nobody's edit, push or review moves the marker   *)
(* (pipeline.rs:707-731, handler.rs:429-520).                              *)
Marker == INSTANCE OverrideMarker WITH
    words <- <<pr.title, pr.body>>, marker <- <<pr.marked, pr.section>>,
    known <- versions, overridden <- Overridden

ImplementsMarker == Marker!Spec

(* Self-healing and the verifier's turns are bounded: every review ends,   *)
(* posted or not.                                                          *)
EveryReviewEnds ==
    \A j \in Jobs : job[j].pc = "prepare" ~> job[j].pc \in ReviewEnded

(* Every mention is answered by exactly one comment or review, unless a    *)
(* call it depends on failed.                                              *)
EveryMentionAnswered ==
    \A c \in Chats : chat[c].pc # "idle" ~>
        \/ chat[c].pc = "answered" /\ chat[c].replies = 1
        \/ chat[c].pc = "failed"

(* "The marker must be reversible: if a later push genuinely addresses the *)
(* findings and auto-review approves cleanly, the marker is stripped back  *)
(* out" (override_marker.rs:7-9): no review objects, because of the marker *)
(* it should strip, to a title and body it accepts without it.             *)
MarkerNeverBlocks ==
    \A j \in Jobs :
        /\ job[j].pc = "strip" /\ job[j].blocking
        /\ HasMarker(job[j].text)
        => ~HasClearlyAcceptablePrMetadata(StripMarker(job[j].text))
=============================================================================
