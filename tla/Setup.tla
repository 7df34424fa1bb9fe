------------------------------- MODULE Setup -------------------------------
(***************************************************************************)
(* Setting a deployment up and keeping it going, from one operator's       *)
(* shell: `auth init`, `webhook register`, `ops doctor`, `webhook test`    *)
(* and `review once` (ar-cli/src/commands.rs), and the gateway started     *)
(* with the same environment (ar-gateway/src/startup.rs).  Tokens are      *)
(* revoked, secrets rotated and servers come and go at any time, also      *)
(* between two probes of the doctor.                                       *)
(*                                                                         *)
(* `auth init` prints an export of AR_FORGEJO_TOKEN, which the gateway and *)
(* the doctor read; the other commands read FORGEJO_TOKEN.                 *)
(***************************************************************************)
EXTENDS Naturals, FiniteSets

CONSTANTS
    Settings,       \* what the shell may have set at first
    MaxTokens,      \* bound: tokens ever minted
    MaxChanges      \* bound: changes of tokens, servers and the webhook from outside

(* An optional tier: its model, on the main server, on a server of its own *)
(* or at a URL that is none.                                               *)
TierSettings == {"unset", "named", "elsewhere", "malformed"}

SettingType ==
    [urls : BOOLEAN,                            \* FORGEJO_BASE_URL, LLM_BASE_URL
     reasoning : {"unset", "blank", "named"},   \* LLM_REASONING_MODEL
     cheap : TierSettings,                      \* LLM_CHEAP_MODEL
     embedding : TierSettings,                  \* LLM_EMBEDDING_MODEL
     bare : {"on", "off", "odd"},               \* AR_GATEWAY_BARE
     bot : {"fine", "blank"},                   \* AR_BOT_LOGIN, AR_BOT_NAME
     ci : {"unset", "short", "strong"},         \* AR_CI_REVIEW_TOKEN
     secret : {"unset", "short", "good"}]       \* WEBHOOK_SECRET at first

ASSUME SetupAssumption ==
    /\ Settings \subseteq SettingType
    /\ MaxTokens \in Nat /\ MaxChanges \in Nat

Checks == {"forgejo", "llm", "reasoning", "cheap", "embedding", "secret", "isolation", "git"}
HostParts == {"launcher", "stores", "port"}
Secrets == {"good", "other"}

VARIABLES
    shell,      \* the operator's environment
    site,       \* external: tokens, servers and programs there are
    hook,       \* the secret of the registered webhook
    served,     \* the gateway process and what it read
    report,     \* the last run of the doctor
    tested,     \* the secret that passed `webhook test` on this gateway
    surprise    \* history variable: something failed that had passed its probe

setupVars == <<shell, site, hook, served, report, tested, surprise>>

NoReport == [pc |-> "idle", result |-> [c \in Checks |-> "none"], exit |-> "none"]
Down == [pc |-> "down", token |-> 0, secret |-> "unset", confined |-> FALSE]

(* Something that `checks` are about has changed: that they passed says    *)
(* nothing any more.                                                       *)
Outdate(checks) ==
    report' = [report EXCEPT !.result =
        [c \in Checks |-> IF c \in checks /\ @[c] = "pass" THEN "stale" ELSE @[c]]]

-----------------------------------------------------------------------------
(* The operator and the world.                                             *)

(* auth init: one request with the password, for whatever scopes it is     *)
(* told; the answer, which has the only copy of the token, may be lost.    *)
AuthInit ==
    /\ shell.urls /\ site.forge /\ site.minted < MaxTokens
    /\ site' = [site EXCEPT !.minted = @ + 1, !.live = @ \cup {site.minted + 1}]
    /\ \/ /\ shell' = [shell EXCEPT !.token = site.minted + 1]
          /\ Outdate({"forgejo"})
       \/ UNCHANGED <<shell, report>>
    /\ UNCHANGED <<hook, served, tested, surprise>>

Export ==
    /\ \/ /\ shell' = [shell EXCEPT !.cli = shell.token]
          /\ UNCHANGED report
       \/ \E s \in Secrets :
             /\ shell' = [shell EXCEPT !.secret = s]
             /\ Outdate({"secret"})
    /\ UNCHANGED <<site, hook, served, tested, surprise>>

Changed(s) ==
    /\ site.changes < MaxChanges
    /\ site' = [s EXCEPT !.changes = @ + 1]

Revoke ==
    /\ \E t \in site.live : Changed([site EXCEPT !.live = @ \ {t}])
    /\ Outdate({"forgejo"})
    /\ UNCHANGED <<shell, hook, served, tested, surprise>>

ServersChange ==
    /\ \/ Changed([site EXCEPT !.forge = ~@]) /\ Outdate({"forgejo"})
       \/ Changed([site EXCEPT !.llm = ~@]) /\ Outdate({"llm", "reasoning", "cheap", "embedding"})
       \/ Changed([site EXCEPT !.model = ~@]) /\ Outdate({"reasoning", "cheap", "embedding"})
       \/ Changed([site EXCEPT !.git = ~@]) /\ Outdate({"git"})
    /\ UNCHANGED <<shell, hook, served, tested, surprise>>

(* webhook register, and a change of the secret in the forge's settings. *)
RegisterHook ==
    /\ shell.secret \notin {"unset", "short"}
    /\ shell.urls /\ site.forge /\ shell.cli \in site.live
    /\ hook' = shell.secret
    /\ UNCHANGED <<shell, site, served, report, tested, surprise>>

EditHook ==
    /\ \E s \in Secrets : hook' = s
    /\ Changed(site)
    /\ UNCHANGED <<shell, served, report, tested, surprise>>

-----------------------------------------------------------------------------
(* ops doctor: one probe after the other, each of which may time out.      *)

StartDoctor ==
    /\ report.pc \in {"idle", "ended"}
    /\ report' = [NoReport EXCEPT !.pc = "forgejo"]
    /\ UNCHANGED <<shell, site, hook, served, tested, surprise>>

Probed(pc, results) ==
    /\ report' = [report EXCEPT !.pc = pc,
          !.result = [c \in Checks |-> IF c \in DOMAIN results THEN results[c] ELSE @[c]]]
    /\ UNCHANGED <<shell, site, hook, served, tested, surprise>>

(* Mutant: only /version is asked for, which needs no token. *)
ProbeForgejoVersionOnly ==
    /\ report.pc = "forgejo"
    /\ \E r \in IF ~shell.urls THEN {"skip"} ELSE {"fail", IF site.forge THEN "pass" ELSE "fail"} :
          Probed("llm", [forgejo |-> r])

(* probe_forgejo asks for /version and then, with the token, for /user;    *)
(* probe_forgejo_anonymous for the first alone.  Whether the token may do  *)
(* what a review does is not asked.                                        *)
ProbeForgejo ==
    /\ report.pc = "forgejo"
    /\ LET answer == IF ~site.forge THEN "fail"
                     ELSE IF shell.token = 0 THEN "warn"
                     ELSE IF shell.token \in site.live THEN "pass" ELSE "fail"
       IN \E r \in IF ~shell.urls THEN {"skip"} ELSE {answer, "fail"} :
             Probed("llm", [forgejo |-> r])

(* Is the model of a tier among those /v1/models listed?  The list is the  *)
(* main server's, for tiers with a URL of their own as well.               *)
ModelResults(tier) ==
    CASE shell[tier] = "unset" -> {"skip"}
      [] shell[tier] = "blank" -> {"fail"}
      [] shell[tier] = "named" -> {IF site.model THEN "pass" ELSE "fail"}
      [] shell[tier] \in {"elsewhere", "malformed"} -> {"pass", "fail"}

ProbeLlm ==
    /\ report.pc = "llm"
    /\ \/ /\ shell.urls /\ site.llm
          /\ \E reasoning \in ModelResults("reasoning"), cheap \in ModelResults("cheap"),
                embedding \in ModelResults("embedding") :
                Probed("secret", [llm |-> "pass", reasoning |-> reasoning, cheap |-> cheap,
                                  embedding |-> embedding])
       \/ Probed("secret", [llm |-> IF shell.urls THEN "fail" ELSE "skip",
                            reasoning |-> "skip", cheap |-> "skip", embedding |-> "skip"])

(* check_webhook_secret: length and variety, and never more than a warning. *)
CheckWebhookSecret ==
    /\ report.pc = "secret"
    /\ Probed("isolation", [secret |-> CASE shell.secret = "unset" -> "skip"
                                         [] shell.secret = "short" -> "warn"
                                         [] OTHER -> "pass"])

(* An AR_GATEWAY_BARE that cannot be read ends the doctor without a report. *)
CheckIsolation ==
    /\ report.pc = "isolation"
    /\ IF shell.bare = "odd"
       THEN /\ report' = [NoReport EXCEPT !.pc = "ended", !.exit = "error"]
            /\ UNCHANGED <<shell, site, hook, served, tested, surprise>>
       ELSE Probed("git", [isolation |-> "warn"])

ProbeGit ==
    /\ report.pc = "git"
    /\ \E r \in {IF site.git THEN "pass" ELSE "fail", "fail"} : Probed("print", [git |-> r])

HasFailures == \E c \in Checks : report.result[c] = "fail"

EndDoctor ==
    /\ report.pc = "print"
    /\ report' = IF HasFailures THEN [NoReport EXCEPT !.pc = "ended", !.exit = "error"]
                 ELSE [report EXCEPT !.pc = "ended", !.exit = "ok"]
    /\ UNCHANGED <<shell, site, hook, served, tested, surprise>>

(* What the doctor passed without a word, and has not changed since. *)
Vouched(checks) ==
    /\ report.exit = "ok"
    /\ \A c \in checks : report.result[c] = "pass"

-----------------------------------------------------------------------------
(* The gateway, and what it and `review once` then do.                     *)

(* What nobody probes. *)
Unprobed == {"launcher", "bot", "tiers", "stores", "ci", "port", "scopes"}

(* Something failed, or not, for the reasons `why`, and had been probed.   *)
Noted(why, probed) == surprise' = (surprise \/ (probed /\ ~(why \subseteq Unprobed)))

(* run_from_env, in its order: the launcher, what has to be set, the       *)
(* bot's names, the tiers' providers, the stores' files, the CI token and  *)
(* the bind; `broken` is what of the host does not work at the moment.  A  *)
(* missing git and a short secret are only logged.                         *)
Obstacle(why, broken) ==
    CASE why = "isolation" -> shell.bare = "odd"
      [] why = "launcher" -> shell.bare = "off" /\ "launcher" \in broken
      [] why = "required" -> ~shell.urls \/ shell.token = 0 \/ shell.secret = "unset"
      [] why = "model" -> shell.reasoning = "blank"
      [] why = "bot" -> shell.bot = "blank"
      [] why = "tiers" -> shell.embedding = "malformed" \/ shell.cheap = "malformed"
      [] why = "stores" -> "stores" \in broken
      [] why = "ci" -> shell.ci = "short"
      [] why = "port" -> "port" \in broken

Obstacles(broken) ==
    {why \in {"isolation", "launcher", "required", "model", "bot", "tiers", "stores",
              "ci", "port"} : Obstacle(why, broken)}

StartGateway ==
    /\ served.pc = "down"
    /\ \E broken \in SUBSET HostParts :
          /\ served' = IF Obstacles(broken) = {}
                       THEN [pc |-> "up", token |-> shell.token, secret |-> shell.secret,
                             confined |-> shell.bare = "off"]
                       ELSE Down
          /\ Noted(Obstacles(broken), Vouched({"forgejo", "llm", "reasoning", "secret"}))
    /\ tested' = "none"
    /\ UNCHANGED <<shell, site, hook, report>>

StopGateway ==
    /\ served.pc = "up"
    /\ served' = Down /\ tested' = "none"
    /\ UNCHANGED <<shell, site, hook, report, surprise>>

(* webhook test: a signed ping or stub event, which the gateway answers    *)
(* with success when the signature is right.                               *)
TestWebhook ==
    /\ served.pc = "up" /\ shell.secret # "unset"
    /\ tested' = IF shell.secret = served.secret THEN shell.secret ELSE tested
    /\ UNCHANGED <<shell, site, hook, served, report, surprise>>

(* The forge delivers an event. *)
Deliver ==
    /\ served.pc = "up" /\ hook # "none"
    /\ Noted(IF hook = served.secret THEN {} ELSE {"signature"}, hook = tested)
    /\ UNCHANGED <<shell, site, hook, served, report, tested>>

(* What a review may not find that it needs: the default model, the        *)
(* token's scopes and what a container has packed may or may not be there. *)
Lacking(token, confined) ==
    {why \in {"forge", "token", "scopes", "llm", "model", "git", "launcher"} :
        CASE why = "forge" -> ~site.forge
          [] why = "token" -> token \notin site.live
          [] why = "scopes" -> TRUE
          [] why = "llm" -> ~site.llm
          [] why = "model" -> shell.reasoning = "unset" \/ ~site.model
          [] why = "git" -> ~confined /\ ~site.git
          [] why = "launcher" -> confined}

TryReview ==
    /\ served.pc = "up"
    /\ Noted(Lacking(served.token, served.confined),
             /\ Vouched({"forgejo", "llm", "reasoning", "git"})
             /\ served.token = shell.token)
    /\ UNCHANGED <<shell, site, hook, served, report, tested>>

(* review once: a draft and --dry-run end before the review; otherwise a   *)
(* forced one, without history or stores, whose failure is not reported.   *)
ReviewOnce ==
    /\ shell.urls /\ shell.cli # 0 /\ shell.reasoning # "blank"
    /\ \E draft, dryRun \in BOOLEAN :
          /\ ~draft /\ ~dryRun
          /\ Noted(Lacking(shell.cli, FALSE),
                   /\ Vouched({"forgejo", "llm", "reasoning", "git"})
                   /\ shell.cli = shell.token)
    /\ UNCHANGED <<shell, site, hook, served, report, tested>>

SetupInit ==
    /\ \E s \in Settings :
          shell = [urls |-> s.urls, reasoning |-> s.reasoning, cheap |-> s.cheap,
                   embedding |-> s.embedding, bare |-> s.bare, bot |-> s.bot,
                   ci |-> s.ci, secret |-> s.secret, token |-> 0, cli |-> 0]
    /\ site = [minted |-> 0, live |-> {}, forge |-> TRUE, llm |-> TRUE, model |-> TRUE,
               git |-> TRUE, changes |-> 0]
    /\ hook = "none" /\ served = Down /\ report = NoReport
    /\ tested = "none" /\ surprise = FALSE

SetupStep ==
    \/ AuthInit \/ Export \/ Revoke \/ ServersChange
    \/ RegisterHook \/ EditHook
    \/ StartDoctor \/ ProbeForgejo \/ ProbeLlm \/ CheckWebhookSecret \/ CheckIsolation
    \/ ProbeGit \/ EndDoctor
    \/ StartGateway \/ StopGateway \/ TestWebhook \/ Deliver \/ TryReview \/ ReviewOnce

-----------------------------------------------------------------------------
(* What was probed works: when the doctor has passed forge, model, secret  *)
(* and git and none of them changed since its own probe, nothing it looked *)
(* at keeps a gateway from coming up with that shell, or a review by it or *)
(* by `review once` with the same token from finding what it needs; and    *)
(* when `webhook test` passed on this gateway with the secret of the       *)
(* webhook, deliveries are accepted.  What may still stand in the way is   *)
(* what nobody probes: the launcher and what it packs, the bot's names,    *)
(* the other tiers' URLs, the stores, the length of the CI token, the      *)
(* port, and the token's scopes (commands.rs:1205-1323, 1328-1362,         *)
(* 1569-1612; startup.rs:1048-1337, 1463, 1522).                           *)
ProbedWorks == ~surprise
=============================================================================
