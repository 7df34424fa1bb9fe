----------------------------- MODULE ChatIntake -----------------------------
(***************************************************************************)
(* How a comment that mentions the bot reaches the chat handler: through   *)
(* the issue_comment webhook, deduplicated by delivery, and through the    *)
(* background poller, which lists the comments of every reviewed pull      *)
(* request.  Both claim a comment on one shared cursor per pull request,   *)
(* the highest comment id seen.  Webhook requests and the poller           *)
(* interleave at every await.                                              *)
(*                                                                         *)
(* A comment's id is its position in `comments`; the delivery of its       *)
(* webhook goes by the same number.                                        *)
(***************************************************************************)
EXTENDS DeliveryDedup

CONSTANTS
    PRs,
    Reviewed,       \* pull requests in the review history at the start
    Requests,       \* webhook requests that may be in flight together
    MaxComments,    \* bound: comments written
    MaxRestarts,    \* bound: restarts of the gateway
    Faults          \* "known", "list": the poller's reads may fail;
                    \* "review", "reset": the history may grow, shrink

ASSUME ChatAssumption ==
    /\ Reviewed \subseteq PRs
    /\ MaxComments \in Nat
    /\ MaxRestarts \in Nat
    /\ Deliveries = 1..MaxComments
    /\ Faults \subseteq {"known", "list", "review", "reset"}

VARIABLES
    \* the forge and the review history
    comments,   \* [pr, mention]: a user's mention of the bot, or anything else
    known,      \* ReviewHistory::list_known
    \* the gateway
    cursors,    \* SharedCommentCursors, a map from pull requests to ids
    restarts,
    boot,       \* bookkeeping: the last comment before the process started
    late,       \* bookkeeping: comments from before that webhooks claimed since
    handled,    \* bookkeeping: how often this process gave a comment to the
                \* chat handler
    \* webhook requests
    req, about,
    \* the poller: where it is, and the locals of poll_once and poll_pr
    at, todo, cur, upto, pos, outbox

world   == <<comments, known>>
process == <<restarts, boot, late>>
hooks   == <<req, about>>
poller  == <<at, todo, cur, upto, pos, outbox>>
vars    == <<world, process, cursors, handled, store, hooks, poller>>

Ids == 1..Len(comments)

On(p) == {c \in Ids : comments[c].pr = p}

Highest(S) == IF S = {} THEN 0 ELSE CHOOSE c \in S : \A d \in S : d <= c

(* Times the handler was given c: none, once, or more. *)
Given(c) == handled' = [handled EXCEPT ![c] = IF @ = 2 THEN 2 ELSE @ + 1]

Cursor(p) == IF p \in DOMAIN cursors THEN cursors[p] ELSE 0

SetCursor(p, c) ==
    cursors' = [q \in DOMAIN cursors \cup {p} |-> IF q = p THEN c ELSE cursors[q]]

(* claim_chat_comment answers true, and moves the cursor to the comment. *)
Claimable(p, c) == c > Cursor(p)

Init ==
    /\ StoreInit
    /\ comments = <<>>
    /\ known = Reviewed
    /\ cursors = [p \in {} |-> 0]
    /\ restarts = 0
    /\ boot = 0
    /\ late = {}
    /\ handled = [c \in 1..MaxComments |-> 0]
    /\ req = [r \in Requests |-> "free"]
    /\ about = [r \in Requests |-> 0]
    /\ at = "idle"
    /\ todo = {}
    /\ cur \in PRs
    /\ upto = 0
    /\ pos = 0
    /\ outbox = <<>>

-----------------------------------------------------------------------------
(* The environment.                                                        *)

Comment(p, m) ==
    /\ Len(comments) < MaxComments
    /\ comments' = Append(comments, [pr |-> p, mention |-> m])
    /\ UNCHANGED <<known, process, cursors, handled, store, hooks, poller>>

(* A review of the pull request is recorded. *)
RecordReview(p) ==
    /\ "review" \in Faults
    /\ known' = known \cup {p}
    /\ UNCHANGED <<comments, process, cursors, handled, store, hooks, poller>>

(* history reset-pr or history purge. *)
ForgetReview(p) ==
    /\ "reset" \in Faults
    /\ known' = known \ {p}
    /\ UNCHANGED <<comments, process, cursors, handled, store, hooks, poller>>

(* Cursors, requests and the poller's pass are lost with the process. *)
Restart ==
    /\ restarts < MaxRestarts
    /\ restarts' = restarts + 1
    /\ boot' = Len(comments)
    /\ late' = {}
    /\ handled' = [c \in 1..MaxComments |-> 0]
    /\ StoreRestart
    /\ cursors' = [p \in {} |-> 0]
    /\ req' = [r \in Requests |-> "free"]
    /\ at' = "idle"
    /\ outbox' = <<>>
    /\ UNCHANGED <<world, about, todo, cur, upto, pos>>

-----------------------------------------------------------------------------
(* webhook::handle and handle_issue_comment.                               *)

(* A delivery arrives, perhaps again, and perhaps long after the comment.  *)
(* Only a user's mention goes on to the claim.                             *)
Deliver(r, c) ==
    /\ req[r] = "free"
    /\ c \in Ids
    /\ \/ /\ Bounce(c)
          /\ UNCHANGED hooks
       \/ /\ Admit(c)
          /\ IF comments[c].mention
             THEN /\ req' = [req EXCEPT ![r] = "claim"]
                  /\ about' = [about EXCEPT ![r] = c]
             ELSE UNCHANGED hooks
    /\ UNCHANGED <<world, process, cursors, handled, poller>>

ClaimWebhook(r) ==
    LET c == about[r]
        p == comments[c].pr
    IN  /\ req[r] = "claim"
        /\ \/ /\ Claimable(p, c)
              /\ SetCursor(p, c)
              /\ late' = late \cup ({c} \cap 1..boot)
              /\ req' = [req EXCEPT ![r] = "handle"]
           \/ /\ ~Claimable(p, c)
              /\ req' = [req EXCEPT ![r] = "free"]
              /\ UNCHANGED <<cursors, late>>
        /\ UNCHANGED <<world, restarts, boot, handled, store, about, poller>>

(* The spawned task runs ChatHandler::handle; its error is only logged. *)
HandleWebhook(r) ==
    /\ req[r] = "handle"
    /\ Given(about[r])
    /\ req' = [req EXCEPT ![r] = "free"]
    /\ UNCHANGED <<world, process, cursors, store, about, poller>>

-----------------------------------------------------------------------------
(* ChatPoller::poll_once and poll_pr.                                      *)

(* list_known; an error ends the pass before it began. *)
ListKnown ==
    /\ at = "idle"
    /\ \/ /\ at' = "prune"
          /\ todo' = known
       \/ /\ "known" \in Faults
          /\ UNCHANGED <<at, todo>>
    /\ UNCHANGED <<world, process, cursors, handled, store, hooks, cur, upto,
                   pos, outbox>>

(* cursors.retain, with the list just read. *)
PruneCursors ==
    /\ at = "prune"
    /\ at' = "next"
    /\ cursors' = [p \in DOMAIN cursors \cap todo |-> cursors[p]]
    /\ UNCHANGED <<world, process, handled, store, hooks, todo, cur, upto,
                   pos, outbox>>

(* list_pr_review_comments of the next pull request; an error skips it. *)
ListComments(p) ==
    /\ at = "next"
    /\ p \in todo
    /\ todo' = todo \ {p}
    /\ \/ /\ at' = "listed"
          /\ cur' = p
          /\ upto' = Len(comments)
       \/ /\ "list" \in Faults
          /\ UNCHANGED <<at, cur, upto>>
    /\ UNCHANGED <<world, process, cursors, handled, store, hooks, pos,
                   outbox>>

EndPass ==
    /\ at = "next"
    /\ todo = {}
    /\ at' = "idle"
    /\ UNCHANGED <<world, process, cursors, handled, store, hooks, todo, cur,
                   upto, pos, outbox>>

(* Mutant of ReadCursor: no cursor is read as a cursor at 0. *)
ReadCursorDefault ==
    /\ at = "listed"
    /\ at' = "scan"
    /\ pos' = Cursor(cur)
    /\ UNCHANGED <<world, process, cursors, handled, store, hooks, todo, cur,
                   upto, outbox>>

(* The cursor is read after the list, under a lock that is given up; no    *)
(* cursor means first sight: nothing of the list is handed over.           *)
ReadCursor ==
    /\ at = "listed"
    /\ IF cur \in DOMAIN cursors
       THEN at' = "scan" /\ pos' = cursors[cur]
       ELSE at' = "seed" /\ UNCHANGED pos
    /\ UNCHANGED <<world, process, cursors, handled, store, hooks, todo, cur,
                   upto, outbox>>

(* Comments of the list that the scan has not come to. *)
Unscanned == {c \in On(cur) : pos < c /\ c <= upto}

(* The next listed comment above the cursor that was read: claimed         *)
(* whatever it says, and kept for the handler if it mentions the bot.      *)
ScanComment ==
    /\ at = "scan"
    /\ \E c \in Unscanned :
          /\ \A d \in Unscanned : c <= d
          /\ pos' = c
          /\ IF Claimable(cur, c)
             THEN /\ SetCursor(cur, c)
                  /\ outbox' = IF comments[c].mention THEN Append(outbox, c)
                               ELSE outbox
             ELSE UNCHANGED <<cursors, outbox>>
    /\ UNCHANGED <<world, process, handled, store, hooks, at, todo, cur, upto>>

EndScan ==
    /\ at = "scan"
    /\ Unscanned = {}
    /\ at' = "dispatch"
    /\ UNCHANGED <<world, process, cursors, handled, store, hooks, todo, cur,
                   upto, pos, outbox>>

(* Mutant of SeedCursor: sets the cursor, even when that lowers it. *)
SeedCursorLowers ==
    /\ at = "seed"
    /\ at' = "dispatch"
    /\ SetCursor(cur, Highest({c \in On(cur) : c <= upto}))
    /\ UNCHANGED <<world, process, handled, store, hooks, todo, cur, upto,
                   pos, outbox>>

(* seed_chat_cursor_monotonic: a webhook may have claimed a newer comment. *)
SeedCursor ==
    /\ at = "seed"
    /\ at' = "dispatch"
    /\ SetCursor(cur, Highest({c \in On(cur) : c <= upto} \cup {Cursor(cur)}))
    /\ UNCHANGED <<world, process, handled, store, hooks, todo, cur, upto,
                   pos, outbox>>

(* Mutant of DispatchMention: an error of one handler ends the loop. *)
DispatchMentionAborts ==
    /\ at = "dispatch"
    /\ \/ /\ outbox # <<>>
          /\ Given(Head(outbox))
          /\ outbox' \in {Tail(outbox), <<>>}
          /\ UNCHANGED at
       \/ /\ outbox = <<>>
          /\ at' = "next"
          /\ UNCHANGED <<handled, outbox>>
    /\ UNCHANGED <<world, process, cursors, store, hooks, todo, cur, upto, pos>>

(* The claimed mentions, one after the other; an error is only logged. *)
DispatchMention ==
    /\ at = "dispatch"
    /\ \/ /\ outbox # <<>>
          /\ Given(Head(outbox))
          /\ outbox' = Tail(outbox)
          /\ UNCHANGED at
       \/ /\ outbox = <<>>
          /\ at' = "next"
          /\ UNCHANGED <<handled, outbox>>
    /\ UNCHANGED <<world, process, cursors, store, hooks, todo, cur, upto,
                   pos>>

-----------------------------------------------------------------------------
PollStep ==
    \/ ListKnown \/ PruneCursors \/ EndPass \/ ReadCursor \/ ScanComment
    \/ EndScan \/ SeedCursor \/ DispatchMention
    \/ \E p \in PRs : ListComments(p)

Next ==
    \/ \E p \in PRs, m \in BOOLEAN : Comment(p, m)
    \/ \E p \in PRs : RecordReview(p) \/ ForgetReview(p)
    \/ Restart
    \/ \E r \in Requests, c \in Deliveries : Deliver(r, c)
    \/ \E r \in Requests : ClaimWebhook(r) \/ HandleWebhook(r)
    \/ PollStep

(* The interval timer and the runtime keep the poller going. *)
Fairness == WF_vars(PollStep)

Spec == Init /\ [][Next]_vars

FairSpec == Spec /\ Fairness

-----------------------------------------------------------------------------
(* Properties.                                                             *)

(* claim_chat_comment: "a comment observed through both paths is           *)
(* dispatched at most once", by one process, whatever webhooks are         *)
(* retried, delayed or overlap, wherever the poller is when they come and  *)
(* whatever an earlier process left behind.                                *)
HandledAtMostOnce == \A c \in 1..MaxComments : handled[c] <= 1

(* poller.rs: "a gateway restart starts every PR's cursor at the highest   *)
(* current comment id (so we don't reprocess history)": the poller hands   *)
(* over no comment from before the process started.                        *)
NoReplayAfterRestart == \A i \in DOMAIN outbox : outbox[i] > boot

(* A webhook claimed an older comment of the same pull request, itself     *)
(* from before the start, since the process started.                       *)
PassedByLateWebhook(c) ==
    \E d \in late : comments[d].pr = comments[c].pr /\ d < c

(* What is true of it: the poller hands over a comment from before the     *)
(* process started only if a late webhook got to the cursors first and     *)
(* left the pull request's below that comment, so that the poller's first  *)
(* look at it was no first sight.                                          *)
ReplayNeedsLateWebhook ==
    \A i \in DOMAIN outbox : outbox[i] > boot \/ PassedByLateWebhook(outbox[i])

(* A mention above the cursor of its pull request is handled in the end,   *)
(* by the poller alone, unless the process restarts or the history forgets *)
(* the pull request, then or just before in the list the poller prunes by. *)
PolledMentionHandled ==
    \A c \in 1..MaxComments :
        (c \in Ids /\ comments[c].pr \in DOMAIN cursors
           /\ comments[c].mention /\ c > Cursor(comments[c].pr)
           /\ (at = "prune" => comments[c].pr \in todo))
        ~> \/ handled[c] > 0
           \/ c <= boot
           \/ c \in Ids /\ comments[c].pr \notin known
=============================================================================
