---------------------------- MODULE Invocations ----------------------------
(***************************************************************************)
(* The AgentCore runtime: POST /invocations claims an idempotency key,     *)
(* then runs the review or the chat command inside the request and answers *)
(* when it is over.  Requests overlap, their clients may go away, and the  *)
(* runtime may be started again between any two steps.                     *)
(*                                                                         *)
(* `agentcore serve` puts together a runtime for Forgejo or for GitHub, or *)
(* one without a handler that accepts and drops every payload; the crate   *)
(* also offers a handler for reviews only.                                 *)
(***************************************************************************)
EXTENDS Naturals, FiniteSets

CONSTANTS
    Calls,          \* identities of the requests
    Commits,        \* head commits of the pull request
    CommentIds,     \* comment_id values, and NoComment for an absent one
    NoComment,
    Modes,          \* ways the runtime is started: [handler, durable]
    Faults,         \* "store", "fetch", "work", "cancel", "expire", "payload"
    MaxRestarts     \* bound: cold starts

(* build_agentcore_serve_config: no input, no handler; inputs that do not  *)
(* make up one of the two forges are refused before anything is served.    *)
Handlers == {"none", "review_only", "forgejo", "github"}

(* build_agentcore_stores: claims in DynamoDB (durable) or in memory. *)
ASSUME InvocationsAssumption ==
    /\ NoComment \notin CommentIds
    /\ Modes \subseteq [handler : Handlers, durable : BOOLEAN]
    /\ MaxRestarts \in Nat
    /\ Faults \subseteq {"store", "fetch", "work", "cancel", "expire", "payload"}

VARIABLES
    mode,       \* how the runtime was started
    head,       \* the pull request's head commit
    claimed,    \* keys the store holds
    restarts,
    pc, kind, sha, comment,
    answer,     \* what the client was told
    grants      \* bookkeeping: calls that own the record of their key

payload == <<kind, sha, comment>>
vars    == <<mode, head, claimed, restarts, pc, payload, answer, grants>>

Kinds == {"semantic_review", "chat_command"}

(* Mutant of Key: two commands on one head share a key. *)
KeyWithoutComment(i) == <<kind[i], sha[i]>>

(* idempotency_key; provider, repository and pull request are fixed here,  *)
(* and the payload's `force` is not part of it.                            *)
Key(i) == <<kind[i], sha[i], comment[i]>>

(* The statuses and the error kinds a client can see. *)
Answers == {"accepted", "dispatched", "completed", "handled", "duplicate",
            "idempotency_failed", "invalid_payload", "execution_failed",
            "stale_head"}

Keys == Kinds \X Commits \X (CommentIds \cup {NoComment})

(* build_router_from_config *)
HasHandler == mode.handler # "none"

(* SemanticReviewHandler takes no commands and does not claim to have run  *)
(* the review.                                                             *)
ReviewsOnly == mode.handler = "review_only"

Answer(i, a) ==
    /\ answer' = [answer EXCEPT ![i] = a]
    /\ pc' = [pc EXCEPT ![i] = "done"]

Init ==
    /\ mode \in Modes
    /\ head \in Commits
    /\ claimed = {}
    /\ restarts = 0
    /\ pc = [i \in Calls |-> "idle"]
    /\ kind \in [Calls -> Kinds]
    /\ sha \in [Calls -> Commits]
    /\ comment \in [Calls -> CommentIds \cup {NoComment}]
    /\ answer = [i \in Calls |-> "none"]
    /\ grants = {}

-----------------------------------------------------------------------------
Push(c) ==
    /\ c # head
    /\ head' = c
    /\ UNCHANGED <<mode, claimed, restarts, pc, payload, answer, grants>>

(* DynamoDB Time To Live removes a record. *)
Expire(k) ==
    /\ "expire" \in Faults
    /\ mode.durable
    /\ k \in claimed
    /\ claimed' = claimed \ {k}
    /\ grants' = {i \in grants : Key(i) # k}
    /\ UNCHANGED <<mode, head, restarts, pc, payload, answer>>

(* A cold start loses the requests in flight, and claims kept in memory. *)
Restart ==
    /\ restarts < MaxRestarts
    /\ restarts' = restarts + 1
    /\ pc' = [i \in Calls |-> IF pc[i] = "idle" THEN "idle" ELSE "done"]
    /\ claimed' = IF mode.durable THEN claimed ELSE {}
    /\ grants' = IF mode.durable THEN grants ELSE {}
    /\ UNCHANGED <<mode, head, payload, answer>>

(* CI, or a workflow on a comment, sends a payload; one that cannot be     *)
(* read is answered before anything is claimed.                            *)
Invoke(i) ==
    /\ pc[i] = "idle"
    /\ \/ /\ pc' = [pc EXCEPT ![i] = "claim"]
          /\ UNCHANGED answer
       \/ /\ "payload" \in Faults
          /\ Answer(i, "invalid_payload")
    /\ UNCHANGED <<mode, head, claimed, restarts, payload, grants>>

(* invocations: without a handler there is nothing to claim or to run. *)
Accept(i) ==
    /\ pc[i] = "claim" /\ ~HasHandler
    /\ Answer(i, "accepted")
    /\ UNCHANGED <<mode, head, claimed, restarts, payload, grants>>

(* The answer of InvocationIdempotency::claim: a new key is the call's, an *)
(* old one makes it a duplicate.                                           *)
ClaimUnconditionally(i) ==
    /\ claimed' = claimed \cup {Key(i)}
    /\ pc' = [pc EXCEPT ![i] = "handle"]
    /\ grants' = grants \cup {i}
    /\ UNCHANGED answer

Claim(i) ==
    \/ /\ Key(i) \notin claimed
       /\ claimed' = claimed \cup {Key(i)}
       /\ pc' = [pc EXCEPT ![i] = "handle"]
       /\ grants' = grants \cup {i}
       /\ UNCHANGED answer
    \/ /\ Key(i) \in claimed
       /\ Answer(i, "duplicate")
       /\ UNCHANGED <<claimed, grants>>

(* One insert under the lock. *)
ClaimInMemory(i) ==
    /\ pc[i] = "claim" /\ HasHandler /\ ~mode.durable
    /\ Claim(i)
    /\ UNCHANGED <<mode, head, restarts, payload>>

(* put_claim, one conditional write.  On an error of the store the write   *)
(* may have happened all the same.                                         *)
PutClaim(i) ==
    /\ pc[i] = "claim" /\ HasHandler /\ mode.durable
    /\ \/ Claim(i)
       \/ /\ "store" \in Faults
          /\ claimed' \in {claimed, claimed \cup {Key(i)}}
          /\ Answer(i, "idempotency_failed")
          /\ UNCHANGED grants
    /\ UNCHANGED <<mode, head, restarts, payload>>

(* What a handler refuses without asking anyone: the other forge's         *)
(* payloads, a chat command without its text or to a handler for reviews,  *)
(* and on GitHub a payload without its installation.                       *)
Refused(i) ==
    \/ "payload" \in Faults
    \/ ReviewsOnly /\ kind[i] = "chat_command"

RefusePayload(i) ==
    /\ pc[i] = "handle"
    /\ Refused(i)
    /\ Answer(i, "invalid_payload")
    /\ UNCHANGED <<mode, head, claimed, restarts, payload, grants>>

(* host_for_payload: a client and an installation token of its own for     *)
(* every payload.                                                          *)
HostForPayload(i) ==
    /\ pc[i] = "handle" /\ mode.handler = "github"
    /\ \/ /\ "fetch" \in Faults
          /\ Answer(i, "execution_failed")
       \/ /\ pc' = [pc EXCEPT ![i] = "host"]
          /\ UNCHANGED answer
    /\ UNCHANGED <<mode, head, claimed, restarts, payload, grants>>

(* A review looks at the pull request's head first; a command does not. *)
Handle(i) ==
    /\ pc[i] = IF mode.handler = "github" THEN "host" ELSE "handle"
    /\ ~(ReviewsOnly /\ kind[i] = "chat_command")
    /\ \/ /\ kind[i] = "semantic_review"
          /\ "fetch" \in Faults
          /\ Answer(i, "execution_failed")
       \/ /\ kind[i] = "semantic_review"
          /\ sha[i] # head
          /\ Answer(i, "stale_head")
       \/ /\ kind[i] = "semantic_review" => sha[i] = head
          /\ pc' = [pc EXCEPT ![i] = "work"]
          /\ UNCHANGED answer
    /\ UNCHANGED <<mode, head, claimed, restarts, payload, grants>>

(* InlineDispatcher::dispatch answers nothing, so a review that failed is  *)
(* "completed" too.                                                        *)
RunReview(i) ==
    /\ pc[i] = "work" /\ kind[i] = "semantic_review"
    /\ Answer(i, IF ReviewsOnly THEN "dispatched" ELSE "completed")
    /\ UNCHANGED <<mode, head, claimed, restarts, payload, grants>>

(* A chat command reports its error. *)
RunCommand(i) ==
    /\ pc[i] = "work" /\ kind[i] = "chat_command"
    /\ \/ Answer(i, "handled")
       \/ "work" \in Faults /\ Answer(i, "execution_failed")
    /\ UNCHANGED <<mode, head, claimed, restarts, payload, grants>>

(* The client disconnects and the request's future is dropped where it is; *)
(* a claim on its way to the store may still arrive there.                 *)
Cancel(i) ==
    /\ "cancel" \in Faults
    /\ pc' = [pc EXCEPT ![i] = "done"]
    /\ \/ /\ pc[i] \in {"claim", "handle", "host", "work"}
          /\ UNCHANGED claimed
       \/ /\ pc[i] = "claim" /\ HasHandler /\ mode.durable
          /\ claimed' = claimed \cup {Key(i)}
    /\ UNCHANGED <<mode, head, restarts, payload, answer, grants>>

Next ==
    \/ \E c \in Commits : Push(c)
    \/ \E k \in Keys : Expire(k)
    \/ Restart
    \/ \E i \in Calls :
          \/ Invoke(i) \/ Accept(i) \/ ClaimInMemory(i) \/ PutClaim(i)
          \/ RefusePayload(i) \/ HostForPayload(i) \/ Handle(i)
          \/ RunReview(i) \/ RunCommand(i) \/ Cancel(i)

Spec == Init /\ [][Next]_vars

-----------------------------------------------------------------------------
(* Properties.                                                             *)

TypeOK ==
    /\ mode \in Modes
    /\ head \in Commits
    /\ claimed \subseteq Keys
    /\ restarts \in 0..MaxRestarts
    /\ pc \in [Calls -> {"idle", "claim", "handle", "host", "work", "done"}]
    /\ kind \in [Calls -> Kinds]
    /\ sha \in [Calls -> Commits]
    /\ comment \in [Calls -> CommentIds \cup {NoComment}]
    /\ answer \in [Calls -> Answers \cup {"none"}]
    /\ grants \subseteq Calls

(* ARCHITECTURE.md: duplicates are answered "without re-running the review *)
(* or chat command".  As long as a key's record lasts one call at most got *)
(* past the claim, however calls overlap, whatever store errors, cancelled *)
(* requests and cold starts come between.                                  *)
OneRunPerRecord == \A i, j \in grants : Key(i) = Key(j) => i = j
=============================================================================
