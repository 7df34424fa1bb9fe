----------------------------- MODULE HostCalls -----------------------------
(***************************************************************************)
(* What the forge clients keep between calls (ar-github/src/lib.rs,        *)
(* ar-forgejo/src/client.rs): listings that are read page by page while    *)
(* the list changes, and GitHub installation tokens, cached by one client, *)
(* held by a review for all of its calls and refused once they expire.     *)
(*                                                                         *)
(* The AgentCore handler makes a client for each payload, so its cache     *)
(* never has a second reader there; callers that share a client are what   *)
(* the crate offers and its tests use.                                     *)
(***************************************************************************)
EXTENDS Naturals, Sequences, FiniteSets, FiniteSetsExt

CONSTANTS
    PageSize,       \* PAGINATION_PAGE_SIZE
    MaxPages,       \* PAGINATION_MAX_PAGES
    GithubPages,    \* pages the GitHub client reads of a listing at most
    Callers,        \* tasks that share one GitHub client
    Scopes,         \* InstallationTokenCacheKey: installation, repository, rights
    Lifetime,       \* time a token is issued for
    Margin,         \* TOKEN_REFRESH_MARGIN
    MaxNow          \* bound: the clock

ASSUME HostAssumption ==
    /\ {PageSize, MaxPages, GithubPages} \subseteq Nat \ {0}
    /\ {Lifetime, Margin, MaxNow} \subseteq Nat

VARIABLES
    now,        \* the clock
    tokens,     \* installation_tokens: scope -> expiry, 0 when there is none
    calls       \* calls[g]: the caller's place and locals

hostVars == <<now, tokens, calls>>

-----------------------------------------------------------------------------
(* Listings.                                                               *)

(* Page n of what the forge has now; short or empty at the end. *)
Page(list, n) ==
    SubSeq(list, (n - 1) * PageSize + 1, Min({n * PageSize, Len(list)}))

(* The loop ends on a page that is not full, or at the limit. *)
LastPage(chunk, n) == Len(chunk) < PageSize \/ n = MaxPages

-----------------------------------------------------------------------------
(* Installation tokens.                                                    *)

NoCall == [pc |-> "idle", scope |-> "none", asked |-> 0, expires |-> 0,
           issuedFor |-> "none", handed |-> 0, page |-> 0]

Go(g, call) == calls' = [calls EXCEPT ![g] = call]

(* Mutant: a token counts as fresh until the moment it expires. *)
FreshUntilExpiry(scope) == tokens[scope] > now

(* fresh_cached_token: the clock is read before the lock is taken. *)
Fresh(scope) == tokens[scope] > now + Margin

(* installation_token, up to the request. *)
AskToken(g) ==
    /\ calls[g].pc = "idle"
    /\ \E s \in Scopes :
          Go(g, IF Fresh(s)
                THEN [NoCall EXCEPT !.pc = "host", !.scope = s, !.asked = now,
                         !.handed = now, !.expires = tokens[s], !.issuedFor = s]
                ELSE [NoCall EXCEPT !.pc = "requesting", !.scope = s, !.asked = now])
    /\ UNCHANGED <<now, tokens>>

(* GitHub issues a token, or the request fails. *)
IssueToken(g) ==
    /\ calls[g].pc = "requesting"
    /\ \/ Go(g, [calls[g] EXCEPT !.pc = "received", !.expires = now + Lifetime,
                                 !.issuedFor = calls[g].scope])
       \/ Go(g, NoCall)
    /\ UNCHANGED <<now, tokens>>

(* The answer is parsed and cached; the last insert wins, also when its    *)
(* token is the older one.                                                 *)
KeepToken(g) ==
    /\ calls[g].pc = "received"
    /\ tokens' = [tokens EXCEPT ![calls[g].scope] = calls[g].expires]
    /\ Go(g, [calls[g] EXCEPT !.pc = "host", !.handed = now])
    /\ UNCHANGED now

(* What a review or a command asks of the host: one answer each, listings  *)
(* page by page, and writes.                                               *)
Reads    == {"pull_request", "diff", "compare", "file"}
Listings == {"files", "comments", "reviews", "review_comments"}
Writes   == {"status", "review", "comment", "update"}

(* installation_auth_header: InstallationReviewHost sends the token it was *)
(* made with on every call, and GitHub refuses an expired one.             *)
Authorised(g) == calls[g].expires > now

(* Any answer that is not a success is the call's error, and the error of  *)
(* what the call was part of.                                              *)
HostAnswer(g, call) ==
    Go(g, IF Authorised(g) THEN call ELSE [calls[g] EXCEPT !.pc = "refused", !.page = 0])

(* get_with_installation_token and its kin; a file that does not exist is  *)
(* an answer too.                                                          *)
ReadCall(g) ==
    /\ calls[g].pc = "host" /\ calls[g].page = 0
    /\ \E read \in Reads : HostAnswer(g, calls[g])
    /\ UNCHANGED <<now, tokens>>

(* One page of a listing.  A full one is followed by the next while fewer  *)
(* than GithubPages have been read; an error loses the pages before it.    *)
ListCall(g) ==
    /\ calls[g].pc = "host"
    /\ \E listing \in Listings, full \in BOOLEAN :
          HostAnswer(g, [calls[g] EXCEPT
             !.page = IF full /\ @ + 1 < GithubPages THEN @ + 1 ELSE 0])
    /\ UNCHANGED <<now, tokens>>

(* post_with_installation_token, patch_with_installation_token *)
WriteCall(g) ==
    /\ calls[g].pc = "host" /\ calls[g].page = 0
    /\ \E write \in Writes : HostAnswer(g, calls[g])
    /\ UNCHANGED <<now, tokens>>

(* The payload is handled, or given up. *)
DropHost(g) ==
    /\ calls[g].pc \in {"host", "refused"}
    /\ Go(g, NoCall)
    /\ UNCHANGED <<now, tokens>>

Tick ==
    /\ now < MaxNow
    /\ now' = now + 1
    /\ UNCHANGED <<tokens, calls>>

HostStep(g) == \/ AskToken(g) \/ IssueToken(g) \/ KeepToken(g)
               \/ ReadCall(g) \/ ListCall(g) \/ WriteCall(g) \/ DropHost(g)

HostInit ==
    /\ now = 0
    /\ tokens = [s \in Scopes |-> 0]
    /\ calls = [g \in Callers |-> NoCall]

(* A review is never cut short by a token that was old when it got it: a   *)
(* call is refused only when the review has run for longer than the        *)
(* refresh margin, or the answer to its own request for a token was as     *)
(* late as that; and the token is for the repository and rights asked for. *)
(* Overlapping requests, the loser of which overwrites the newer token in  *)
(* the cache, do not change this (lib.rs:332-366, 743-754).                *)
TokenFitsUse ==
    \A g \in Callers : LET call == calls[g] IN
        /\ call.pc \in {"host", "refused"} => call.issuedFor = call.scope
        /\ call.pc = "refused" =>
              \/ now - call.handed > Margin
              \/ call.handed - call.asked >= Lifetime - Margin
=============================================================================
