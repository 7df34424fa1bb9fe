--------------------------- MODULE WorkbenchProofs ---------------------------
(***************************************************************************)
(* Proofs about Workbench: the GitHub client's tokens, the repository's    *)
(* configuration, setting a deployment up, the webhook commands, the       *)
(* verifier's tools, the cost of reviews and the benchmark's scores, for   *)
(* every number of callers, webhooks and reviews, every tree, all fixtures *)
(* and labels, and every limit.                                            *)
(*                                                                         *)
(* A behaviour is about one of the parts, so each argument looks at the    *)
(* steps of its own part alone; the others leave its variables as they     *)
(* are.                                                                    *)
(***************************************************************************)
EXTENDS Workbench, FiniteSetTheorems, SequenceTheorems, WellFoundedInduction, TLAPS

-----------------------------------------------------------------------------
(* Installation tokens.                                                    *)

ScopeNames == Scopes \cup {"none"}
CallRec == [pc : {"idle", "requesting", "received", "host", "refused"},
            scope : ScopeNames, asked : Nat, expires : Nat, issuedFor : ScopeNames,
            handed : Nat, page : Nat]

(* A token that is in use was fresh by the margin when it was handed out,  *)
(* or its own request was made no longer than its lifetime before it       *)
(* expires; one that was refused has expired.                              *)
Fits(call, time) ==
    /\ call \in CallRec
    /\ call.pc # "idle" => call.scope \in Scopes /\ call.asked <= time
    /\ call.pc \in {"received", "host", "refused"} => call.issuedFor = call.scope
    /\ call.pc = "received" => call.expires >= call.asked + Lifetime
    /\ call.pc \in {"host", "refused"} =>
          /\ call.handed <= time
          /\ call.expires > call.handed + Margin \/ call.expires >= call.asked + Lifetime
    /\ call.pc = "refused" => call.expires <= time

TokensSound ==
    /\ now \in Nat /\ tokens \in [Scopes -> Nat] /\ DOMAIN calls = Callers
    /\ \A g \in Callers : Fits(calls[g], now)

LEMMA NoCallFits == ASSUME NEW t \in Nat PROVE Fits(NoCall, t)
<1> DEFINE k == NoCall
<1>1. k \in CallRec /\ k.pc = "idle"
  BY DEF NoCall, CallRec, ScopeNames
<1> HIDE DEF k
<1>. QED
  BY <1>1 DEF Fits, k

LEMMA CallChange ==
    ASSUME TokensSound, now' = now, tokens' \in [Scopes -> Nat], NEW g \in Callers,
           NEW k, Fits(k, now), calls' = [calls EXCEPT ![g] = k]
    PROVE  TokensSound'
BY DEF TokensSound

(* What an answer of the host does to a call. *)
LEMMA AnswerFits ==
    ASSUME NEW t \in Nat, NEW call, Fits(call, t), call.pc = "host",
           NEW k, k \in CallRec, k.scope = call.scope, k.asked = call.asked,
           k.expires = call.expires, k.issuedFor = call.issuedFor, k.handed = call.handed,
           \/ k.pc = "host"
           \/ k.pc = "refused" /\ ~(call.expires > t)
    PROVE  Fits(k, t)
<1>1. call.expires \in Nat
  BY DEF Fits, CallRec
<1>. QED
  BY <1>1 DEF Fits

LEMMA HostAnswerSound ==
    ASSUME TokensSound, NEW g \in Callers, calls[g].pc = "host", NEW n \in Nat,
           HostAnswer(g, [calls[g] EXCEPT !.page = n]), UNCHANGED <<now, tokens>>
    PROVE  TokensSound'
<1>1. PICK call : call = calls[g]
  OBVIOUS
<1>2. Fits(call, now) /\ call \in CallRec /\ call.pc = "host" /\ now \in Nat
  BY <1>1 DEF TokensSound, Fits
<1> DEFINE k == [call EXCEPT !.page = n]
           e == [call EXCEPT !.pc = "refused", !.page = 0]
<1>3. \/ calls' = [calls EXCEPT ![g] = k]
      \/ calls' = [calls EXCEPT ![g] = e] /\ ~(call.expires > now)
  BY <1>1 DEF HostAnswer, Go, Authorised
<1>4. /\ k \in CallRec /\ k.scope = call.scope /\ k.asked = call.asked
      /\ k.expires = call.expires /\ k.issuedFor = call.issuedFor /\ k.handed = call.handed
      /\ k.pc = "host"
  BY <1>2 DEF CallRec
<1>5. /\ e \in CallRec /\ e.scope = call.scope /\ e.asked = call.asked
      /\ e.expires = call.expires /\ e.issuedFor = call.issuedFor /\ e.handed = call.handed
      /\ e.pc = "refused"
  BY <1>2 DEF CallRec
<1> HIDE DEF k, e
<1>6. Fits(k, now) /\ (~(call.expires > now) => Fits(e, now))
  BY <1>2, <1>4, <1>5, AnswerFits
<1>. QED
  BY <1>3, <1>6, CallChange DEF TokensSound

LEMMA AskSound ==
    ASSUME TokensSound, NEW g \in Callers, AskToken(g)
    PROVE  TokensSound'
<1>1. PICK s \in Scopes :
        \/ Fresh(s) /\ calls' = [calls EXCEPT ![g] =
              [NoCall EXCEPT !.pc = "host", !.scope = s, !.asked = now,
                 !.handed = now, !.expires = tokens[s], !.issuedFor = s]]
        \/ calls' = [calls EXCEPT ![g] =
              [NoCall EXCEPT !.pc = "requesting", !.scope = s, !.asked = now]]
  BY DEF AskToken, Go
<1>2. PICK t, x : t = now /\ x = tokens[s] /\ t \in Nat /\ x \in Nat
  BY DEF TokensSound
<1> DEFINE k == [NoCall EXCEPT !.pc = "host", !.scope = s, !.asked = t,
                    !.handed = t, !.expires = x, !.issuedFor = s]
           a == [NoCall EXCEPT !.pc = "requesting", !.scope = s, !.asked = t]
<1>3. \/ x > t + Margin /\ calls' = [calls EXCEPT ![g] = k]
      \/ calls' = [calls EXCEPT ![g] = a]
  BY <1>1, <1>2 DEF Fresh
<1>4. /\ k \in CallRec /\ k.pc = "host" /\ k.scope = s /\ k.asked = t /\ k.handed = t
      /\ k.expires = x /\ k.issuedFor = s
  BY <1>2 DEF NoCall, CallRec, ScopeNames
<1>5. a \in CallRec /\ a.pc = "requesting" /\ a.scope = s /\ a.asked = t
  BY <1>2 DEF NoCall, CallRec, ScopeNames
<1> HIDE DEF k, a
<1>6. x > t + Margin => Fits(k, t)
  BY <1>2, <1>4 DEF Fits
<1>7. Fits(a, t)
  BY <1>2, <1>5 DEF Fits
<1>8. now' = now /\ tokens' \in [Scopes -> Nat]
  BY DEF AskToken, TokensSound
<1>. QED
  BY <1>2, <1>3, <1>6, <1>7, <1>8, CallChange

LEMMA IssueSound ==
    ASSUME TokensSound, NEW g \in Callers, IssueToken(g)
    PROVE  TokensSound'
<1>1. PICK call, t : call = calls[g] /\ t = now
  OBVIOUS
<1>2. Fits(call, t) /\ call \in CallRec /\ call.pc = "requesting" /\ t \in Nat
      /\ Lifetime \in Nat
  BY <1>1, HostAssumption DEF TokensSound, Fits, IssueToken
<1>0. PICK x \in Nat : x = t + Lifetime
  BY <1>2
<1> DEFINE k == [call EXCEPT !.pc = "received", !.expires = x, !.issuedFor = call.scope]
<1>3. calls' = [calls EXCEPT ![g] = k] \/ calls' = [calls EXCEPT ![g] = NoCall]
  BY <1>0, <1>1 DEF IssueToken, Go
<1>4. /\ k \in CallRec /\ k.pc = "received" /\ k.scope = call.scope /\ k.asked = call.asked
      /\ k.expires = x /\ k.issuedFor = call.scope
  BY <1>2 DEF CallRec
<1> HIDE DEF k
<1>5. Fits(k, t)
  <2>1. call.asked \in Nat /\ call.asked <= t /\ call.scope \in Scopes
    BY <1>2 DEF Fits, CallRec
  <2>. QED
    BY <1>0, <1>2, <1>4, <2>1 DEF Fits
<1>6. now' = now /\ tokens' \in [Scopes -> Nat] /\ Fits(NoCall, t)
  BY <1>2, NoCallFits DEF IssueToken, TokensSound
<1>. QED
  BY <1>1, <1>3, <1>5, <1>6, CallChange

LEMMA KeepSound ==
    ASSUME TokensSound, NEW g \in Callers, KeepToken(g)
    PROVE  TokensSound'
<1>1. PICK call, t : call = calls[g] /\ t = now
  OBVIOUS
<1>2. Fits(call, t) /\ call \in CallRec /\ call.pc = "received" /\ t \in Nat
  BY <1>1 DEF TokensSound, Fits, KeepToken
<1>3. /\ call.scope \in Scopes /\ call.expires \in Nat /\ call.asked \in Nat
      /\ call.asked <= t /\ call.expires >= call.asked + Lifetime
      /\ call.issuedFor = call.scope
  BY <1>2 DEF Fits, CallRec
<1> DEFINE k == [call EXCEPT !.pc = "host", !.handed = t]
<1>4. /\ calls' = [calls EXCEPT ![g] = k]
      /\ tokens' = [tokens EXCEPT ![call.scope] = call.expires] /\ now' = now
  BY <1>1 DEF KeepToken, Go
<1>5. /\ k \in CallRec /\ k.pc = "host" /\ k.scope = call.scope /\ k.asked = call.asked
      /\ k.handed = t /\ k.expires = call.expires /\ k.issuedFor = call.issuedFor
  BY <1>2 DEF CallRec
<1> HIDE DEF k
<1>6. Fits(k, t)
  BY <1>2, <1>3, <1>5 DEF Fits
<1>7. tokens' \in [Scopes -> Nat]
  BY <1>3, <1>4 DEF TokensSound
<1>. QED
  BY <1>1, <1>4, <1>6, <1>7, CallChange

LEMMA NextTokens ==
    ASSUME TokensSound, [Next]_vars
    PROVE  TokensSound'
<1>1. CASE UNCHANGED hostVars
  BY <1>1 DEF hostVars, TokensSound
<1>2. CASE Tick
  <2>1. now \in Nat /\ now' = now + 1 /\ tokens' = tokens /\ calls' = calls
    BY <1>2 DEF Tick, TokensSound
  <2>2. ASSUME NEW t \in Nat, NEW call, Fits(call, t) PROVE Fits(call, t + 1)
    <3>1. call.asked \in Nat /\ call.handed \in Nat /\ call.expires \in Nat
      BY <2>2 DEF Fits, CallRec
    <3>. QED
      BY <2>2, <3>1 DEF Fits
  <2>. QED
    BY <2>1, <2>2 DEF TokensSound
<1>3. ASSUME NEW g \in Callers, ReadCall(g) \/ WriteCall(g) PROVE TokensSound'
  <2>1. PICK call : call = calls[g] /\ call \in CallRec /\ call.page = 0
    BY <1>3 DEF TokensSound, Fits, ReadCall, WriteCall
  <2>2. [call EXCEPT !.page = 0] = call
    BY <2>1 DEF CallRec
  <2>3. HostAnswer(g, [calls[g] EXCEPT !.page = 0]) /\ calls[g].pc = "host"
        /\ UNCHANGED <<now, tokens>>
    BY <1>3, <2>1, <2>2 DEF ReadCall, WriteCall
  <2>. QED
    BY <2>3, HostAnswerSound
<1>4. ASSUME NEW g \in Callers, ListCall(g) PROVE TokensSound'
  <2>1. calls[g].page \in Nat /\ calls[g].pc = "host" /\ UNCHANGED <<now, tokens>>
    BY <1>4 DEF TokensSound, Fits, CallRec, ListCall
  <2>2. PICK full \in BOOLEAN :
          HostAnswer(g, [calls[g] EXCEPT
             !.page = IF full /\ calls[g].page + 1 < GithubPages
                      THEN calls[g].page + 1 ELSE 0])
    BY <1>4 DEF ListCall
  <2>3. PICK n : n = IF full /\ calls[g].page + 1 < GithubPages
                     THEN calls[g].page + 1 ELSE 0
    OBVIOUS
  <2>4. n \in Nat
    BY <2>1, <2>3
  <2>. QED
    BY <2>1, <2>2, <2>3, <2>4, HostAnswerSound
<1>5. ASSUME NEW g \in Callers, DropHost(g) PROVE TokensSound'
  BY <1>5, NoCallFits, CallChange DEF DropHost, Go, TokensSound
<1>6. CASE GithubNext
  BY <1>2, <1>3, <1>4, <1>5, <1>6, AskSound, IssueSound, KeepSound DEF GithubNext, HostStep
<1>. QED
  BY <1>1, <1>6
     DEF Next, HooksNext, BenchNext, CostNext, CheckoutNext, SetupNext, vars

(* No review is cut short by a token that was old when it got it, and none *)
(* gets a token of another scope, however requests that overlap overwrite  *)
(* each other's tokens in the cache.                                       *)
THEOREM TokensFit == Spec => []TokenFitsUse
<1>1. Init => TokensSound
  <2> SUFFICES ASSUME Init PROVE TokensSound
    OBVIOUS
  <2>. QED
    BY NoCallFits DEF Init, HostInit, TokensSound
<1>2. TokensSound => TokenFitsUse
  <2> SUFFICES ASSUME TokensSound, NEW g \in Callers
               PROVE  LET call == calls[g] IN
                      /\ call.pc \in {"host", "refused"} => call.issuedFor = call.scope
                      /\ call.pc = "refused" =>
                            \/ now - call.handed > Margin
                            \/ call.handed - call.asked >= Lifetime - Margin
    BY DEF TokenFitsUse
  <2>1. /\ Fits(calls[g], now) /\ now \in Nat /\ Margin \in Nat /\ Lifetime \in Nat
        /\ calls[g].asked \in Nat /\ calls[g].handed \in Nat /\ calls[g].expires \in Nat
    BY HostAssumption DEF TokensSound, Fits, CallRec
  <2>. QED
    BY <2>1 DEF Fits
<1>. QED
  BY <1>1, <1>2, NextTokens, PTL DEF Spec

-----------------------------------------------------------------------------
(* Configuration.                                                          *)

(* The files of a commit do not change, so what was validated and what was *)
(* loaded, whenever that was, can be compared.                             *)
ConfigSound ==
    /\ repo \in [Commits -> [{"yaml", "yml"} -> ConfigFiles]]
    /\ DOMAIN co = {"pc", "at", "config", "chat", "valid", "answer"}
    /\ co.pc = "ready" => co.at = "head"
    /\ co.config \in {"none", LoadRepoConfig("head")}
    /\ co.chat \in {"none"} \cup LoadRepoConfigForChat
    /\ \A c \in co.valid :
          c \in Commits /\ (ValidateConfig(c, TRUE) \/ ValidateConfig(c, FALSE))

LEMMA NextConfig ==
    ASSUME ConfigSound, [Next]_vars
    PROVE  ConfigSound'
<1>1. CASE UNCHANGED checkoutVars
  BY <1>1 DEF ConfigSound, checkoutVars, LoadRepoConfig, LoadRepoConfigForChat,
              ValidateConfig, FirstPresent, ParseRepoConfig, ParseStrict, ExpandConfigPaths
<1>2. ASSUME UNCHANGED repo, DOMAIN co' = DOMAIN co, co'.pc = "ready" => co'.at = "head",
             co'.config \in {co.config, LoadRepoConfig("head")},
             co'.chat \in {co.chat} \cup LoadRepoConfigForChat,
             \A c \in co'.valid : \/ c \in co.valid
                                  \/ c \in Commits /\ (ValidateConfig(c, TRUE) \/ ValidateConfig(c, FALSE))
      PROVE  ConfigSound'
  <2>1. /\ LoadRepoConfig("head")' = LoadRepoConfig("head")
        /\ LoadRepoConfigForChat' = LoadRepoConfigForChat
        /\ \A c \in Commits, b \in BOOLEAN : ValidateConfig(c, b)' = ValidateConfig(c, b)
    BY <1>2 DEF LoadRepoConfig, LoadRepoConfigForChat, ValidateConfig, FirstPresent,
                ParseRepoConfig, ParseStrict, ExpandConfigPaths
  <2>. QED
    BY <1>2, <2>1 DEF ConfigSound
<1>3. CASE CreateTempDir \/ GitClone \/ GitFetch \/ GitCheckout \/ DropWorkspace
  BY <1>2, <1>3 DEF ConfigSound, CreateTempDir, GitClone, GitFetch, GitCheckout,
                    DropWorkspace, Co
<1>4. CASE LoadConfig
  BY <1>2, <1>4 DEF ConfigSound, LoadConfig
<1>5. CASE LoadConfigForChat
  BY <1>2, <1>5 DEF ConfigSound, LoadConfigForChat
<1>6. CASE RunValidateConfig
  <2>1. PICK c \in Commits, b \in BOOLEAN :
          co' = [co EXCEPT !.valid = IF ValidateConfig(c, b) THEN co.valid \cup {c} ELSE co.valid]
    BY <1>6 DEF RunValidateConfig
  <2>. QED
    BY <1>2, <1>6, <2>1 DEF ConfigSound, RunValidateConfig
<1>7. CASE UseReadFile
  <2>1. PICK a : co' = [co EXCEPT !.answer = a]
    BY <1>7 DEF UseReadFile
  <2>. QED
    BY <1>2, <1>7, <2>1 DEF ConfigSound, UseReadFile
<1>8. CASE UseSearch
  <2>1. PICK a : co' = [co EXCEPT !.answer = a]
    BY <1>8 DEF UseSearch
  <2>. QED
    BY <1>2, <1>8, <2>1 DEF ConfigSound, UseSearch
<1>9. CASE CheckoutNext
  BY <1>3, <1>4, <1>5, <1>6, <1>7, <1>8, <1>9
     DEF CheckoutNext, PrepareStep, ConfigStep, ToolStep
<1>. QED
  BY <1>1, <1>9
     DEF Next, HooksNext, GithubNext, BenchNext, CostNext, SetupNext, vars

(* A configuration that validate-config passed for a commit is the one the *)
(* review and the chat commands then use, but for the two reasons the      *)
(* property names.                                                         *)
THEOREM ValidatedInForce == Spec => []ValidatedIsInForce
<1>1. Init => ConfigSound
  BY DEF Init, CheckoutInit, ConfigSound
<1>2. ConfigSound => ValidatedIsInForce
  <2> SUFFICES ASSUME ConfigSound PROVE ValidatedIsInForce
    OBVIOUS
  <2>1. ASSUME NEW c \in Commits, ValidateConfig(c, TRUE) \/ ValidateConfig(c, FALSE)
        PROVE  LET n == FirstPresent(c) IN repo[c][n] # "absent" /\ repo[c][n] # "broken"
    BY <2>1 DEF ValidateConfig, FirstPresent, ExpandConfigPaths, ParseRepoConfig, ParseStrict
  <2>2. ASSUME "head" \in co.valid, co.config # "none"
        PROVE  \/ co.config = FirstPresent("head")
               \/ repo["head"][FirstPresent("head")] = "big"
    BY <2>1, <2>2 DEF ConfigSound, LoadRepoConfig, ParseRepoConfig
  <2>3. ASSUME "base" \in co.valid, co.chat # "none"
        PROVE  co.chat \in {FirstPresent("base"), "unread"}
    BY <2>1, <2>3 DEF ConfigSound, LoadRepoConfigForChat, ParseRepoConfig
  <2>. QED
    BY <2>2, <2>3 DEF ValidatedIsInForce
<1>. QED
  BY <1>1, <1>2, NextConfig, PTL DEF Spec

-----------------------------------------------------------------------------
(* Setting a deployment up.                                                *)

ShellFields == {"urls", "reasoning", "cheap", "embedding", "bare", "bot", "ci", "secret",
                "token", "cli"}
SiteFields == {"minted", "live", "forge", "llm", "model", "git", "changes"}

(* A result that says "pass" is still true of what it is about. *)
Holds(check) ==
    CASE check = "forgejo" -> shell.urls /\ site.forge /\ shell.token \in site.live
      [] check = "llm" -> shell.urls /\ site.llm
      [] check = "reasoning" -> shell.reasoning = "named" /\ site.model
      [] check = "secret" -> shell.secret \notin {"unset", "short"}
      [] check = "git" -> site.git
      [] OTHER -> TRUE

SetupTypes ==
    /\ DOMAIN shell = ShellFields /\ DOMAIN site = SiteFields
    /\ DOMAIN report = {"pc", "result", "exit"} /\ DOMAIN report.result = Checks
    /\ site.minted \in Nat /\ \A t \in site.live : t \in Nat \ {0}
    /\ site.forge \in BOOLEAN /\ site.llm \in BOOLEAN /\ site.model \in BOOLEAN
    /\ site.git \in BOOLEAN /\ shell.urls \in BOOLEAN
    /\ shell.reasoning \in {"unset", "blank", "named"}

SetupSound ==
    /\ SetupTypes
    /\ \A c \in Checks : report.result[c] = "pass" => Holds(c)
    /\ report.pc \in {"git", "print"} \/ report.exit = "ok" => shell.bare # "odd"
    /\ tested \in {"none", served.secret}
    /\ ~surprise

(* What the doctor vouches for holds. *)
LEMMA VouchedHolds ==
    ASSUME SetupSound, NEW checks \in SUBSET Checks, Vouched(checks)
    PROVE  shell.bare # "odd" /\ \A c \in checks : Holds(c)
BY DEF SetupSound, Vouched

(* A new state in which the report has lost what may no longer be true. *)
LEMMA OutdateSound ==
    ASSUME SetupSound, NEW checks \in SUBSET Checks, Outdate(checks), SetupTypes',
           shell'.bare = shell.bare, UNCHANGED <<served, tested, surprise>>,
           \A c \in Checks \ checks : Holds(c) => Holds(c)'
    PROVE  SetupSound'
<1>1. /\ report'.pc = report.pc /\ report'.exit = report.exit
      /\ \A c \in Checks : report'.result[c] = "pass" =>
             c \notin checks /\ report.result[c] = "pass"
  BY DEF Outdate, SetupSound, SetupTypes
<1>. QED
  BY <1>1 DEF SetupSound

LEMMA ProbedSound ==
    ASSUME SetupSound, NEW pc, NEW results, Probed(pc, results),
           \A c \in DOMAIN results : results[c] = "pass" => Holds(c),
           pc \in {"git", "print"} => shell.bare # "odd"
    PROVE  SetupSound'
<1>1. /\ UNCHANGED <<shell, site, hook, served, tested, surprise>>
      /\ report' = [report EXCEPT !.pc = pc,
            !.result = [c \in Checks |-> IF c \in DOMAIN results THEN results[c]
                                         ELSE report.result[c]]]
  BY DEF Probed
<1>2. /\ DOMAIN report' = DOMAIN report /\ report'.pc = pc /\ report'.exit = report.exit
      /\ report'.result = [c \in Checks |-> IF c \in DOMAIN results THEN results[c]
                                            ELSE report.result[c]]
  BY <1>1 DEF SetupSound, SetupTypes
<1>3. SetupTypes' /\ \A c : Holds(c)' <=> Holds(c)
  BY <1>1, <1>2 DEF SetupSound, SetupTypes, Holds
<1>. QED
  BY <1>1, <1>2, <1>3 DEF SetupSound

(* Tokens, servers and the webhook change. *)
LEMMA WorldSound ==
    ASSUME SetupSound, AuthInit \/ Export \/ Revoke \/ ServersChange \/ RegisterHook \/ EditHook
    PROVE  SetupSound'
<1> USE DEF SetupSound
<1>1. CASE AuthInit
  <2>1. /\ DOMAIN site' = SiteFields /\ site'.minted = site.minted + 1
        /\ site'.live = site.live \cup {site.minted + 1}
        /\ site'.forge = site.forge /\ site'.llm = site.llm /\ site'.model = site.model
        /\ site'.git = site.git
    BY <1>1 DEF AuthInit, SetupTypes, SiteFields
  <2>2. site.minted + 1 \in Nat \ {0} /\ site'.minted \in Nat
    BY <2>1 DEF SetupTypes
  <2>3. CASE shell' = [shell EXCEPT !.token = site.minted + 1] /\ Outdate({"forgejo"})
    <3>1. /\ DOMAIN shell' = ShellFields /\ shell'.urls = shell.urls
          /\ shell'.reasoning = shell.reasoning /\ shell'.secret = shell.secret
          /\ shell'.bare = shell.bare
      BY <2>3 DEF SetupTypes, ShellFields
    <3>2. SetupTypes'
      BY <1>1, <2>1, <2>2, <2>3, <3>1 DEF SetupTypes, Outdate, AuthInit
    <3>3. \A c \in Checks \ {"forgejo"} : Holds(c) => Holds(c)'
      BY <2>1, <3>1 DEF Holds
    <3>. QED
      BY <1>1, <2>3, <3>1, <3>2, <3>3, OutdateSound DEF AuthInit, Checks
  <2>4. CASE UNCHANGED <<shell, report>>
    <3>1. SetupTypes'
      BY <1>1, <2>1, <2>2, <2>4 DEF SetupTypes, AuthInit
    <3>2. \A c \in Checks : Holds(c) => Holds(c)'
      BY <2>1, <2>4 DEF Holds
    <3>. QED
      BY <1>1, <2>4, <3>1, <3>2 DEF AuthInit
  <2>. QED
    BY <1>1, <2>3, <2>4 DEF AuthInit
<1>2. CASE Export
  <2>1. CASE shell' = [shell EXCEPT !.cli = shell.token] /\ UNCHANGED report
    <3>1. /\ DOMAIN shell' = ShellFields /\ shell'.urls = shell.urls
          /\ shell'.reasoning = shell.reasoning /\ shell'.secret = shell.secret
          /\ shell'.bare = shell.bare /\ shell'.token = shell.token
      BY <2>1 DEF SetupTypes, ShellFields
    <3>2. SetupTypes' /\ \A c \in Checks : Holds(c) => Holds(c)'
      BY <1>2, <2>1, <3>1 DEF SetupTypes, Export, Holds
    <3>. QED
      BY <1>2, <2>1, <3>1, <3>2 DEF Export
  <2>2. ASSUME NEW s, shell' = [shell EXCEPT !.secret = s], Outdate({"secret"})
        PROVE  SetupSound'
    <3>1. /\ DOMAIN shell' = ShellFields /\ shell'.urls = shell.urls
          /\ shell'.reasoning = shell.reasoning
          /\ shell'.bare = shell.bare /\ shell'.token = shell.token
      BY <2>2 DEF SetupTypes, ShellFields
    <3>2. SetupTypes' /\ \A c \in Checks \ {"secret"} : Holds(c) => Holds(c)'
      BY <1>2, <2>2, <3>1 DEF SetupTypes, Export, Holds, Outdate
    <3>. QED
      BY <1>2, <2>2, <3>1, <3>2, OutdateSound DEF Export, Checks
  <2>. QED
    BY <1>2, <2>1, <2>2 DEF Export
<1>3. CASE Revoke
  <2>1. /\ DOMAIN site' = SiteFields /\ site'.minted = site.minted
        /\ site'.live \subseteq site.live
        /\ site'.forge = site.forge /\ site'.llm = site.llm /\ site'.model = site.model
        /\ site'.git = site.git /\ shell' = shell
    <3>1. PICK t : Changed([site EXCEPT !.live = @ \ {t}])
      BY <1>3 DEF Revoke
    <3> DEFINE s == [site EXCEPT !.live = @ \ {t}]
    <3>2. /\ DOMAIN s = SiteFields /\ s.minted = site.minted /\ s.live \subseteq site.live
          /\ s.forge = site.forge /\ s.llm = site.llm /\ s.model = site.model
          /\ s.git = site.git
      BY DEF SetupTypes, SiteFields
    <3>3. site' = [s EXCEPT !.changes = @ + 1]
      BY <3>1 DEF Changed
    <3> HIDE DEF s
    <3>. QED
      BY <1>3, <3>2, <3>3 DEF Revoke, SiteFields
  <2>2. SetupTypes' /\ \A c \in Checks \ {"forgejo"} : Holds(c) => Holds(c)'
    BY <1>3, <2>1 DEF SetupTypes, Revoke, Holds, Outdate
  <2>. QED
    BY <1>3, <2>1, <2>2, OutdateSound DEF Revoke, Checks
<1>4. CASE ServersChange
  <2>1. /\ DOMAIN site' = SiteFields /\ site'.minted = site.minted
        /\ site'.live = site.live /\ shell' = shell
        /\ site'.forge \in BOOLEAN /\ site'.llm \in BOOLEAN /\ site'.model \in BOOLEAN
        /\ site'.git \in BOOLEAN
        /\ \/ Outdate({"forgejo"}) /\ site'.llm = site.llm /\ site'.model = site.model
              /\ site'.git = site.git
           \/ Outdate({"llm", "reasoning", "cheap", "embedding"}) /\ site'.forge = site.forge
              /\ site'.git = site.git
           \/ Outdate({"reasoning", "cheap", "embedding"}) /\ site'.forge = site.forge
              /\ site'.llm = site.llm /\ site'.git = site.git
           \/ Outdate({"git"}) /\ site'.forge = site.forge /\ site'.llm = site.llm
              /\ site'.model = site.model
    BY ZenonT(60), <1>4 DEF ServersChange, Changed, SetupTypes, SiteFields
  <2>2. ASSUME NEW checks, Outdate(checks) PROVE SetupTypes'
    BY <1>4, <2>1, <2>2 DEF SetupTypes, ServersChange, Outdate
  <2>3. ASSUME NEW checks \in SUBSET Checks, Outdate(checks),
               \A c \in Checks \ checks : Holds(c) => Holds(c)'
        PROVE  SetupSound'
    BY <1>4, <2>1, <2>2, <2>3, OutdateSound DEF ServersChange
  <2>. QED
    BY <2>1, <2>3 DEF Holds, Checks
<1>5. CASE RegisterHook
  BY <1>5 DEF RegisterHook, SetupTypes, Holds
<1>6. CASE EditHook
  <2>1. /\ DOMAIN site' = SiteFields /\ site'.minted = site.minted
        /\ site'.live = site.live
        /\ site'.forge = site.forge /\ site'.llm = site.llm /\ site'.model = site.model
        /\ site'.git = site.git /\ shell' = shell
    BY <1>6 DEF EditHook, Changed, SetupTypes, SiteFields
  <2>2. SetupTypes' /\ \A c \in Checks : Holds(c) => Holds(c)'
    BY <1>6, <2>1 DEF SetupTypes, EditHook, Holds
  <2>. QED
    BY <1>6, <2>1, <2>2 DEF EditHook
<1>. QED
  BY <1>1, <1>2, <1>3, <1>4, <1>5, <1>6

(* The doctor's probes. *)
LEMMA DoctorSound ==
    ASSUME SetupSound,
           \/ StartDoctor \/ ProbeForgejo \/ ProbeLlm \/ CheckWebhookSecret
           \/ CheckIsolation \/ ProbeGit \/ EndDoctor
    PROVE  SetupSound'
<1>1. ASSUME NEW k, DOMAIN k = {"pc", "result", "exit"}, DOMAIN k.result = Checks,
             \A c \in Checks : k.result[c] = "pass" => report.result[c] = "pass",
             k.pc \notin {"git", "print"}, k.exit = "ok" => report.pc = "print",
             report' = k, UNCHANGED <<shell, site, hook, served, tested, surprise>>
      PROVE  SetupSound'
  <2>1. SetupTypes' /\ \A c \in Checks : Holds(c)' <=> Holds(c)
    BY <1>1 DEF SetupSound, SetupTypes, Holds
  <2>. QED
    BY <1>1, <2>1 DEF SetupSound
<1>3. CASE StartDoctor
  <2> DEFINE k == [NoReport EXCEPT !.pc = "forgejo"]
  <2>1. /\ DOMAIN k = {"pc", "result", "exit"} /\ k.pc = "forgejo" /\ k.exit = "none"
        /\ k.result = [c \in Checks |-> "none"]
    BY DEF NoReport
  <2> HIDE DEF k
  <2>. QED
    BY <1>1, <1>3, <2>1 DEF k, StartDoctor
<1>2. ASSUME report' = [NoReport EXCEPT !.pc = "ended", !.exit = "error"],
             UNCHANGED <<shell, site, hook, served, tested, surprise>>
      PROVE  SetupSound'
  <2> DEFINE k == [NoReport EXCEPT !.pc = "ended", !.exit = "error"]
  <2>1. /\ DOMAIN k = {"pc", "result", "exit"} /\ k.pc = "ended" /\ k.exit = "error"
        /\ k.result = [c \in Checks |-> "none"]
    BY DEF NoReport
  <2> HIDE DEF k
  <2>. QED
    BY <1>1, <1>2, <2>1 DEF k
<1>4. CASE ProbeForgejo
  <2>1. PICK r : /\ r = "pass" => shell.urls /\ site.forge /\ shell.token \in site.live
                 /\ Probed("llm", [forgejo |-> r])
    BY <1>4 DEF ProbeForgejo
  <2> DEFINE found == [forgejo |-> r]
  <2>2. DOMAIN found = {"forgejo"} /\ found["forgejo"] = r
    OBVIOUS
  <2> HIDE DEF found
  <2>3. \A c \in DOMAIN found : found[c] = "pass" => Holds(c)
    BY <2>1, <2>2 DEF Holds
  <2>4. Probed("llm", found)
    BY <2>1 DEF found
  <2>. QED
    BY <2>3, <2>4, ProbedSound
<1>5. CASE ProbeLlm
  <2>1. PICK l, m, n, e :
          /\ l = "pass" => shell.urls /\ site.llm
          /\ m = "pass" => shell.reasoning = "named" /\ site.model
          /\ Probed("secret", [llm |-> l, reasoning |-> m, cheap |-> n, embedding |-> e])
    <3>1. ASSUME NEW m \in ModelResults("reasoning"), m = "pass"
          PROVE  shell.reasoning = "named" /\ site.model
      BY <3>1 DEF ModelResults, SetupSound, SetupTypes
    <3>. QED
      BY <1>5, <3>1 DEF ProbeLlm
  <2> DEFINE found == [llm |-> l, reasoning |-> m, cheap |-> n, embedding |-> e]
  <2>2. /\ DOMAIN found = {"llm", "reasoning", "cheap", "embedding"}
        /\ found["llm"] = l /\ found["reasoning"] = m
    OBVIOUS
  <2> HIDE DEF found
  <2>3. \A c \in DOMAIN found : found[c] = "pass" => Holds(c)
    BY <2>1, <2>2 DEF Holds
  <2>4. Probed("secret", found)
    BY <2>1 DEF found
  <2>. QED
    BY <2>3, <2>4, ProbedSound
<1>6. CASE CheckWebhookSecret
  <2>1. PICK r : /\ r = "pass" => shell.secret \notin {"unset", "short"}
                 /\ Probed("isolation", [secret |-> r])
    BY <1>6 DEF CheckWebhookSecret
  <2> DEFINE found == [secret |-> r]
  <2>2. DOMAIN found = {"secret"} /\ found["secret"] = r
    OBVIOUS
  <2> HIDE DEF found
  <2>3. \A c \in DOMAIN found : found[c] = "pass" => Holds(c)
    BY <2>1, <2>2 DEF Holds
  <2>4. Probed("isolation", found)
    BY <2>1 DEF found
  <2>. QED
    BY <2>3, <2>4, ProbedSound
<1>7. CASE CheckIsolation
  <2>1. CASE shell.bare = "odd"
    BY <1>2, <1>7, <2>1 DEF CheckIsolation
  <2>2. CASE shell.bare # "odd"
    <3> DEFINE found == [isolation |-> "warn"]
    <3>1. DOMAIN found = {"isolation"} /\ found["isolation"] # "pass"
      OBVIOUS
    <3> HIDE DEF found
    <3>2. Probed("git", found)
      BY <1>7, <2>2 DEF CheckIsolation, found
    <3>. QED
      BY <2>2, <3>1, <3>2, ProbedSound
  <2>. QED
    BY <2>1, <2>2
<1>8. CASE ProbeGit
  <2>1. PICK r : (r = "pass" => site.git) /\ Probed("print", [git |-> r])
    BY <1>8 DEF ProbeGit
  <2> DEFINE found == [git |-> r]
  <2>2. DOMAIN found = {"git"} /\ found["git"] = r
    OBVIOUS
  <2> HIDE DEF found
  <2>3. \A c \in DOMAIN found : found[c] = "pass" => Holds(c)
    BY <2>1, <2>2 DEF Holds
  <2>4. Probed("print", found) /\ shell.bare # "odd"
    BY <1>8, <2>1 DEF found, ProbeGit, SetupSound
  <2>. QED
    BY <2>3, <2>4, ProbedSound
<1>9. CASE EndDoctor
  <2>1. CASE report' = [NoReport EXCEPT !.pc = "ended", !.exit = "error"]
    BY <1>2, <1>9, <2>1 DEF EndDoctor
  <2>2. CASE report' = [report EXCEPT !.pc = "ended", !.exit = "ok"]
    <3> DEFINE k == [report EXCEPT !.pc = "ended", !.exit = "ok"]
    <3>1. DOMAIN k = DOMAIN report /\ k.result = report.result /\ k.pc = "ended" /\ k.exit = "ok"
      BY DEF SetupSound, SetupTypes
    <3>2. report' = k /\ report.pc = "print" /\ UNCHANGED <<shell, site, served, tested, surprise>>
      BY <1>9, <2>2 DEF EndDoctor
    <3> HIDE DEF k
    <3>3. SetupTypes'
      BY <3>1, <3>2 DEF SetupSound, SetupTypes
    <3>4. \A c \in Checks : Holds(c) => Holds(c)'
      BY <3>2 DEF Holds
    <3>5. \A c \in Checks : report'.result[c] = "pass" => Holds(c)'
      BY <3>1, <3>2, <3>4 DEF SetupSound
    <3>. QED
      BY <3>1, <3>2, <3>3, <3>5 DEF SetupSound
  <2>. QED
    BY <1>9, <2>1, <2>2 DEF EndDoctor
<1>. QED
  BY <1>3, <1>4, <1>5, <1>6, <1>7, <1>8, <1>9

(* The gateway and the reviews: nothing that was vouched for fails. *)
LEMMA ServingSound ==
    ASSUME SetupSound,
           StartGateway \/ StopGateway \/ TestWebhook \/ Deliver \/ TryReview \/ ReviewOnce
    PROVE  SetupSound'
<1>1. ASSUME UNCHANGED <<shell, site, report>>, tested' \in {"none", served'.secret}, ~surprise'
      PROVE  SetupSound'
  <2>1. SetupTypes' /\ \A c \in Checks : Holds(c)' <=> Holds(c)
    BY <1>1 DEF SetupSound, SetupTypes, Holds
  <2>. QED
    BY <1>1, <2>1 DEF SetupSound
<1>2. ASSUME NEW why, NEW probed, Noted(why, probed), probed => why \subseteq Unprobed
      PROVE  ~surprise'
  BY <1>2 DEF Noted, SetupSound
<1>3. CASE StartGateway
  <2>1. PICK broken \in SUBSET HostParts :
          Noted(Obstacles(broken), Vouched({"forgejo", "llm", "reasoning", "secret"}))
    BY <1>3 DEF StartGateway
  <2>2. ASSUME Vouched({"forgejo", "llm", "reasoning", "secret"})
        PROVE  Obstacles(broken) \subseteq Unprobed
    <3>1. /\ Holds("forgejo") /\ Holds("llm") /\ Holds("reasoning") /\ Holds("secret")
          /\ shell.bare # "odd"
      BY <2>2, VouchedHolds DEF Checks
    <3>2. /\ shell.urls /\ shell.token \in site.live /\ shell.secret # "unset"
          /\ shell.reasoning = "named"
      BY <3>1 DEF Holds
    <3>3. shell.token # 0
      BY <3>2 DEF SetupSound, SetupTypes
    <3>4. /\ ~Obstacle("isolation", broken) /\ ~Obstacle("required", broken)
          /\ ~Obstacle("model", broken)
      BY <3>1, <3>2, <3>3 DEF Obstacle
    <3>. QED
      BY <3>4 DEF Obstacles, Unprobed
  <2>. QED
    BY <1>1, <1>2, <1>3, <2>1, <2>2 DEF StartGateway
<1>4. CASE StopGateway
  BY <1>1, <1>4 DEF StopGateway, SetupSound
<1>5. CASE TestWebhook
  BY <1>1, <1>5 DEF TestWebhook, SetupSound
<1>6. CASE Deliver
  <2>1. hook = tested => hook = served.secret
    BY <1>6 DEF Deliver, SetupSound
  <2>2. ~surprise'
    BY <1>2, <1>6, <2>1 DEF Deliver
  <2>. QED
    BY <1>1, <1>6, <2>2 DEF Deliver, SetupSound
<1>7. ASSUME NEW confined, Vouched({"forgejo", "llm", "reasoning", "git"})
      PROVE  Lacking(shell.token, confined) \subseteq Unprobed
  <2>1. Holds("forgejo") /\ Holds("llm") /\ Holds("reasoning") /\ Holds("git")
    BY <1>7, VouchedHolds DEF Checks
  <2>2. /\ site.forge /\ shell.token \in site.live /\ site.llm /\ site.git /\ site.model
        /\ shell.reasoning = "named"
    BY <2>1 DEF Holds
  <2>. QED
    BY <2>2 DEF Lacking, Unprobed
<1>8. CASE TryReview
  <2>1. ~surprise'
    BY <1>2, <1>7, <1>8 DEF TryReview
  <2>. QED
    BY <1>1, <1>8, <2>1 DEF TryReview, SetupSound
<1>9. CASE ReviewOnce
  <2>1. ~surprise'
    BY <1>2, <1>7, <1>9 DEF ReviewOnce
  <2>. QED
    BY <1>1, <1>9, <2>1 DEF ReviewOnce, SetupSound
<1>. QED
  BY <1>3, <1>4, <1>5, <1>6, <1>8, <1>9

(* Nothing that the doctor or `webhook test` probed, and that has not      *)
(* changed since its own probe, keeps the gateway from coming up, or a     *)
(* review or a delivery from succeeding, whatever tokens, servers, secrets *)
(* and the host do in between; what nobody probes may.                     *)
THEOREM ProbesHold == Spec => []ProbedWorks
<1>1. Init => SetupSound
  <2> SUFFICES ASSUME Init PROVE SetupSound
    OBVIOUS
  <2>1. PICK s \in Settings :
          shell = [urls |-> s.urls, reasoning |-> s.reasoning, cheap |-> s.cheap,
                   embedding |-> s.embedding, bare |-> s.bare, bot |-> s.bot,
                   ci |-> s.ci, secret |-> s.secret, token |-> 0, cli |-> 0]
    BY DEF Init, SetupInit
  <2>2. /\ DOMAIN shell = ShellFields /\ shell.urls \in BOOLEAN
        /\ shell.reasoning \in {"unset", "blank", "named"}
    BY <2>1, SetupAssumption DEF ShellFields, SettingType
  <2>3. /\ site = [minted |-> 0, live |-> {}, forge |-> TRUE, llm |-> TRUE, model |-> TRUE,
                   git |-> TRUE, changes |-> 0]
        /\ report = NoReport /\ tested = "none" /\ surprise = FALSE
    BY DEF Init, SetupInit
  <2>4. SetupTypes
    BY <2>2, <2>3 DEF SetupTypes, SiteFields, NoReport
  <2>. QED
    BY <2>3, <2>4 DEF SetupSound, NoReport
<1>2. SetupSound /\ [Next]_vars => SetupSound'
  <2> SUFFICES ASSUME SetupSound, [Next]_vars PROVE SetupSound'
    OBVIOUS
  <2>1. CASE UNCHANGED setupVars
    BY <2>1 DEF setupVars, SetupSound, SetupTypes, Holds
  <2>2. CASE SetupNext
    BY <2>2, WorldSound, DoctorSound, ServingSound DEF SetupNext, SetupStep
  <2>. QED
    BY <2>1, <2>2
       DEF Next, HooksNext, GithubNext, BenchNext, CostNext, CheckoutNext, vars
<1>3. SetupSound => ProbedWorks
  BY DEF SetupSound, ProbedWorks
<1>. QED
  BY <1>1, <1>2, <1>3, PTL DEF Spec

-----------------------------------------------------------------------------
(* What is computed along a sequence: the ids of matching webhooks, the    *)
(* place a path leads to, the tokens of a tier, the bill of a review.      *)

LEMMA LeastOf ==
    ASSUME NEW T \in SUBSET Nat, T # {}
    PROVE  \E m \in T : \A d \in T : m <= d
<1>1. PICK x \in T : \A y \in T : ~(<<y, x>> \in OpToRel(<, Nat))
  BY NatLessThanWellFounded, WFMin
<1>2. \A y \in T : ~(y < x)
  BY <1>1 DEF OpToRel
<1>. QED
  BY <1>2

Base(what) ==
    IF what[1] = "ids" THEN << >>
    ELSE IF what[1] = "path" THEN "ws"
    ELSE IF what[1] = "sum" THEN Nothing
    ELSE IF what[1] = "total" THEN 0
    ELSE IF what[1] = "claims" THEN {}
    ELSE IF what[1] = "sorted" THEN << >>
    ELSE NoBill

Along(what, before, e) ==
    IF what[1] = "ids" THEN IF e.ours THEN Append(before, e.id) ELSE before
    ELSE IF what[1] = "path" THEN Descend(before, e)
    ELSE IF what[1] = "sum" THEN IF e.tier = what[2] THEN Added(before, e) ELSE before
    ELSE IF what[1] = "total" THEN before + e
    ELSE IF what[1] = "claims" THEN Claiming(before, e, what[2])
    ELSE IF what[1] = "sorted" THEN IF e.ok THEN Inserted(before, e.seconds) ELSE before
    ELSE Billed(before, e, what[2])

GoneThrough(what, list, n, g) ==
    g = [i \in 0..n |-> IF i = 0 THEN Base(what) ELSE Along(what, g[i - 1], list[i])]

(* The recursive functions of the model are what their equations say: the  *)
(* prefixes have their results one by one.                                 *)
LEMMA PrefixesExist ==
    ASSUME NEW what, NEW list, NEW n \in Nat
    PROVE  \E g : GoneThrough(what, list, n, g)
<1> DEFINE Bad == {k \in Nat : ~ \E g : GoneThrough(what, list, k, g)}
<1> SUFFICES ASSUME Bad # {} PROVE FALSE
  OBVIOUS
<1>1. PICK m \in Bad : \A d \in Bad : m <= d
  BY LeastOf
<1>2. m # 0
  <2>1. GoneThrough(what, list, 0, [i \in 0..0 |-> Base(what)])
    BY DEF GoneThrough
  <2>. QED
    BY <2>1
<1>3. m \in Nat /\ m - 1 \in Nat /\ ~(m <= m - 1)
  BY <1>2
<1>4. PICK g : GoneThrough(what, list, m - 1, g)
  BY <1>1, <1>3
<1> DEFINE h == [i \in 0..m |-> IF i = m THEN Along(what, g[m - 1], list[m]) ELSE g[i]]
<1>5. ASSUME NEW i \in 0..m
      PROVE  h[i] = IF i = 0 THEN Base(what) ELSE Along(what, h[i - 1], list[i])
  <2>1. CASE i = m
    <3>1. h[m - 1] = g[m - 1]
      BY <1>3
    <3>. QED
      BY <1>2, <2>1, <3>1
  <2>2. CASE i # m
    <3>1. i \in 0..(m - 1) /\ h[i] = g[i]
      BY <1>3, <2>2
    <3>2. g[i] = IF i = 0 THEN Base(what) ELSE Along(what, g[i - 1], list[i])
      BY <1>4, <3>1 DEF GoneThrough
    <3>3. i # 0 => h[i - 1] = g[i - 1]
      BY <1>3, <3>1
    <3>. QED
      BY <3>1, <3>2, <3>3
  <2>. QED
    BY <2>1, <2>2
<1>6. GoneThrough(what, list, m, h)
  BY <1>5 DEF GoneThrough
<1>. QED
  BY <1>6

(* One more element is one more step. *)
StartsAs(longer, list, n, m) == m = n + 1 /\ \A i \in 1..n : longer[i] = list[i]

LEMMA OneMoreStep ==
    ASSUME NEW what, NEW list, NEW longer, NEW n \in Nat, NEW m,
           StartsAs(longer, list, n, m), NEW g, GoneThrough(what, list, n, g),
           NEW h, GoneThrough(what, longer, m, h)
    PROVE  h[m] = Along(what, g[n], longer[m])
<1> USE DEF StartsAs
<1> DEFINE Bad == {i \in 0..n : h[i] # g[i]}
<1>1. \A i \in 0..n : g[i] = IF i = 0 THEN Base(what) ELSE Along(what, g[i - 1], list[i])
  BY DEF GoneThrough
<1>2. \A i \in 0..m :
         h[i] = IF i = 0 THEN Base(what) ELSE Along(what, h[i - 1], longer[i])
  BY DEF GoneThrough
<1>3. Bad = {}
  <2> SUFFICES ASSUME Bad # {} PROVE FALSE
    OBVIOUS
  <2>1. PICK k \in Bad : \A d \in Bad : k <= d
    <3>1. Bad \in SUBSET Nat
      OBVIOUS
    <3>. QED
      BY <3>1, LeastOf
  <2>2. k \in 0..n /\ k \in 0..m /\ k \in Nat
    OBVIOUS
  <2>3. k # 0
    BY <1>1, <1>2, <2>1, <2>2
  <2>4. k - 1 \in 0..n /\ k \in 1..n /\ ~(k <= k - 1)
    BY <2>2, <2>3
  <2>5. h[k - 1] = g[k - 1]
    BY <2>1, <2>4
  <2>6. h[k] = Along(what, h[k - 1], longer[k]) /\ g[k] = Along(what, g[k - 1], list[k])
    BY <1>1, <1>2, <2>2, <2>3
  <2>. QED
    BY <2>1, <2>4, <2>5, <2>6
<1>4. h[n] = g[n]
  <2>1. n \in 0..n
    OBVIOUS
  <2>. QED
    BY <1>3, <2>1
<1>5. m \in 0..m /\ m # 0 /\ m - 1 = n
  OBVIOUS
<1>. QED
  BY <1>2, <1>4, <1>5

-----------------------------------------------------------------------------
(* Sequences of webhooks.                                                  *)

HookRec == [id : Nat, ours : BOOLEAN]

LEMMA MinOfTwo ==
    ASSUME NEW a \in Nat, NEW b \in Nat
    PROVE  Min({a, b}) = IF a <= b THEN a ELSE b
<1>1. \E x \in {a, b} : \A y \in {a, b} : x =< y
  OBVIOUS
<1>2. Min({a, b}) \in {a, b} /\ \A y \in {a, b} : Min({a, b}) =< y
  BY <1>1 DEF Min
<1>. QED
  BY <1>2

LEMMA MatchedIdsDef ==
    ASSUME NEW list, Len(list) \in Nat
    PROVE  \E g : GoneThrough(<<"ids">>, list, Len(list), g) /\ MatchedIds(list) = g[Len(list)]
<1>1. PICK g : GoneThrough(<<"ids">>, list, Len(list), g)
  BY PrefixesExist
<1> DEFINE ids[n \in 0..Len(list)] ==
        IF n = 0 THEN <<>>
        ELSE IF list[n].ours THEN Append(ids[n - 1], list[n].id) ELSE ids[n - 1]
<1>2. ids = [n \in 0..Len(list) |->
        IF n = 0 THEN <<>>
        ELSE IF list[n].ours THEN Append(ids[n - 1], list[n].id) ELSE ids[n - 1]]
  <2>1. g = [n \in 0..Len(list) |->
          IF n = 0 THEN <<>>
          ELSE IF list[n].ours THEN Append(g[n - 1], list[n].id) ELSE g[n - 1]]
    BY <1>1 DEF GoneThrough, Base, Along
  <2>. QED
    BY <2>1 DEF ids
<1>3. MatchedIds(list) = ids[Len(list)]
  BY DEF MatchedIds
<1> HIDE DEF ids
<1>4. GoneThrough(<<"ids">>, list, Len(list), ids)
  BY <1>2 DEF GoneThrough, Base, Along
<1>. QED
  BY <1>3, <1>4

(* It has the ids of all webhooks that are ours. *)
LEMMA MatchedIdsOurs ==
    ASSUME NEW list \in Seq(HookRec)
    PROVE  MatchedIds(list) \in Seq(Nat) /\ Ours(list) \subseteq Range(MatchedIds(list))
<1>1. PICK n : n = Len(list) /\ n \in Nat
  OBVIOUS
<1>2. PICK g : GoneThrough(<<"ids">>, list, n, g) /\ MatchedIds(list) = g[n]
  BY <1>1, MatchedIdsDef
<1>3. \A i \in 1..n : list[i] \in HookRec
  BY <1>1
<1> DEFINE Good(k) == /\ g[k] \in Seq(Nat)
                      /\ \A i \in 1..k : list[i].ours => list[i].id \in Range(g[k])
           Bad == {k \in 0..n : ~Good(k)}
<1>4. Bad = {}
  <2> SUFFICES ASSUME Bad # {} PROVE FALSE
    OBVIOUS
  <2>1. PICK m \in Bad : \A d \in Bad : m <= d
    <3>1. Bad \in SUBSET Nat
      BY <1>1
    <3>. QED
      BY <3>1, LeastOf
  <2>2. Good(0)
    <3>1. g[0] = << >>
      BY <1>1, <1>2 DEF GoneThrough, Base
    <3>. QED
      BY <3>1
  <2>3. m \in 1..n /\ m - 1 \in 0..n /\ Good(m - 1)
    <3>1. m \in 0..n /\ m # 0
      BY <2>2
    <3>2. m - 1 \in 0..n /\ ~(m <= m - 1)
      BY <1>1, <3>1
    <3>. QED
      BY <1>1, <2>1, <3>1, <3>2
  <2>4. PICK before, h : before = g[m - 1] /\ h = list[m] /\ h \in HookRec
    BY <1>3, <2>3
  <2>5. g[m] = IF h.ours THEN Append(before, h.id) ELSE before
    <3>1. g[m] = Along(<<"ids">>, g[m - 1], list[m])
      <4>1. m \in 0..n /\ m # 0
        BY <1>1, <2>3
      <4>. QED
        BY <1>2, <4>1 DEF GoneThrough
    <3>. QED
      BY <2>4, <3>1 DEF Along
  <2>6. before \in Seq(Nat) /\ h.id \in Nat
    BY <2>3, <2>4 DEF HookRec
  <2>7. g[m] \in Seq(Nat) /\ Range(before) \subseteq Range(g[m])
        /\ (h.ours => h.id \in Range(g[m]))
    <3>1. CASE h.ours
      <4>1. PICK k : k = Len(before) /\ k \in Nat
        BY <2>6
      <4>2. /\ g[m] \in Seq(Nat) /\ Len(g[m]) = k + 1 /\ DOMAIN g[m] = 1..(k + 1)
            /\ DOMAIN before = 1..k
            /\ \A j \in 1..k : g[m][j] = before[j]
            /\ g[m][k + 1] = h.id
        BY <2>5, <2>6, <3>1, <4>1
      <4>3. k + 1 \in 1..(k + 1) /\ \A j \in 1..k : j \in 1..(k + 1)
        BY <4>1
      <4>. QED
        BY <4>2, <4>3 DEF Range
    <3>2. CASE ~h.ours
      BY <2>5, <2>6, <3>2
    <3>. QED
      BY <3>1, <3>2
  <2>8. ASSUME NEW i \in 1..m, list[i].ours PROVE list[i].id \in Range(g[m])
    <3>1. i = m \/ i \in 1..(m - 1)
      BY <2>3
    <3>. QED
      BY <2>3, <2>4, <2>7, <2>8, <3>1
  <2>. QED
    BY <2>7, <2>8
<1>5. Good(n)
  BY <1>1, <1>4
<1>. QED
  BY <1>1, <1>2, <1>5 DEF Ours

(* A list without one of its webhooks. *)
LEMMA RemoveOne ==
    ASSUME NEW list \in Seq(HookRec), NEW i \in 1..Len(list), NEW rest,
           rest = RemoveAt(list, i)
    PROVE  /\ rest \in Seq(HookRec) /\ Len(rest) = Len(list) - 1
           /\ \A k \in 1..(Len(list) - 1) :
                 rest[k] = IF k < i THEN list[k] ELSE list[k + 1]
<1>1. PICK n : n = Len(list) /\ n \in Nat /\ i \in 1..n
  OBVIOUS
<1>2. \A k \in 1..n : list[k] \in HookRec
  BY <1>1
<1>3. PICK a, b : a = SubSeq(list, 1, i - 1) /\ b = SubSeq(list, i + 1, n)
  OBVIOUS
<1>4. /\ a \in Seq(HookRec) /\ Len(a) = i - 1
      /\ \A k \in 1..(i - 1) : a[k] = list[k]
  <2>1. i - 1 \in Int /\ 1 \in Int /\ \A k \in 1..(i - 1) : list[k] \in HookRec
    BY <1>1, <1>2
  <2>2. /\ a \in Seq(HookRec) /\ Len(a) = (IF 1 <= i - 1 THEN (i - 1) - 1 + 1 ELSE 0)
        /\ \A k \in 1..((i - 1) - 1 + 1) : a[k] = list[1 + k - 1]
    BY <1>3, <2>1, SubSeqProperties
  <2>. QED
    BY <1>1, <2>2
<1>5. /\ b \in Seq(HookRec) /\ Len(b) = n - i
      /\ \A k \in 1..(n - i) : b[k] = list[i + k]
  <2>1. i + 1 \in Int /\ n \in Int /\ \A k \in (i + 1)..n : list[k] \in HookRec
    BY <1>1, <1>2
  <2>2. /\ b \in Seq(HookRec) /\ Len(b) = (IF i + 1 <= n THEN n - (i + 1) + 1 ELSE 0)
        /\ \A k \in 1..(n - (i + 1) + 1) : b[k] = list[(i + 1) + k - 1]
    BY <1>3, <2>1, SubSeqProperties
  <2>. QED
    BY <1>1, <2>2
<1>6. rest = a \o b
  BY <1>1, <1>3 DEF RemoveAt
<1>7. /\ rest \in Seq(HookRec) /\ Len(rest) = Len(a) + Len(b)
      /\ \A k \in 1..(Len(a) + Len(b)) :
            rest[k] = IF k <= Len(a) THEN a[k] ELSE b[k - Len(a)]
  BY <1>4, <1>5, <1>6, ConcatProperties
<1>8. /\ rest \in Seq(HookRec) /\ Len(rest) = n - 1
      /\ \A k \in 1..(n - 1) :
            rest[k] = IF k <= i - 1 THEN a[k] ELSE b[k - (i - 1)]
  BY <1>1, <1>4, <1>5, <1>7
<1>9. ASSUME NEW k \in 1..(n - 1)
      PROVE  rest[k] = IF k < i THEN list[k] ELSE list[k + 1]
  <2>1. CASE k < i
    <3>1. k \in 1..(i - 1) /\ k <= i - 1
      BY <1>1, <2>1
    <3>. QED
      BY <1>4, <1>8, <2>1, <3>1
  <2>2. CASE ~(k < i)
    <3>1. k - (i - 1) \in 1..(n - i) /\ ~(k <= i - 1) /\ i + (k - (i - 1)) = k + 1
      BY <1>1, <2>2
    <3>. QED
      BY <1>5, <1>8, <2>2, <3>1
  <2>. QED
    BY <2>1, <2>2
<1>. QED
  BY <1>1, <1>8, <1>9

(* Reading on: what was read and the next page are a longer prefix. *)
BeginningOf(found, list) ==
    /\ found \in Seq(HookRec) /\ Len(found) <= Len(list)
    /\ \A i \in 1..Len(found) : found[i] = list[i]

ReadOn(list, found, p, chunk, all) ==
    /\ BeginningOf(found, list) /\ Len(found) = (p - 1) * PageSize
    /\ chunk = Page(list, p) /\ all = found \o chunk

LEMMA NextPagePrefix ==
    ASSUME NEW list \in Seq(HookRec), NEW p \in Nat \ {0}, NEW found, NEW chunk, NEW all,
           ReadOn(list, found, p, chunk, all)
    PROVE  /\ BeginningOf(all, list)
           /\ \/ Len(chunk) = PageSize /\ Len(all) = p * PageSize
              \/ Len(chunk) < PageSize /\ Len(all) = Len(list)
<1> USE DEF ReadOn
<1>1. PICK n, lo, hi : /\ n = Len(list) /\ lo = (p - 1) * PageSize /\ hi = p * PageSize
  OBVIOUS
<1>2. PICK P : P = PageSize /\ P \in Nat \ {0}
  BY HostAssumption
<1>3. n \in Nat /\ lo \in Nat /\ hi = lo + P /\ hi \in Nat
  <2>1. n \in Nat
    BY <1>1
  <2>2. (p - 1) * P \in Nat /\ p * P = (p - 1) * P + P
    BY <1>2
  <2>. QED
    BY <1>1, <1>2, <2>1, <2>2
<1>4. lo <= n /\ Len(found) = lo /\ found \in Seq(HookRec)
  BY <1>1 DEF BeginningOf
<1>5. PICK last : last = Min({hi, n})
  OBVIOUS
<1>6. last = (IF hi <= n THEN hi ELSE n) /\ last \in Nat /\ lo <= last /\ last <= n
  <2>1. last = IF hi <= n THEN hi ELSE n
    BY <1>3, <1>5, MinOfTwo
  <2>2. lo <= hi
    BY <1>2, <1>3
  <2>. QED
    BY <1>3, <1>4, <2>1, <2>2
<1>7. chunk = SubSeq(list, lo + 1, last)
  BY <1>1, <1>5 DEF Page
<1>8. /\ chunk \in Seq(HookRec) /\ Len(chunk) = last - lo
      /\ \A k \in 1..(last - lo) : chunk[k] = list[lo + k]
  <2>1. /\ lo + 1 \in Int /\ last \in Int
        /\ \A k \in (lo + 1)..last : k \in 1..n
    BY <1>3, <1>6
  <2>2. \A k \in (lo + 1)..last : list[k] \in HookRec
    BY <1>1, <2>1
  <2>3. /\ chunk \in Seq(HookRec)
        /\ Len(chunk) = (IF lo + 1 <= last THEN last - (lo + 1) + 1 ELSE 0)
        /\ \A k \in 1..(last - (lo + 1) + 1) : chunk[k] = list[(lo + 1) + k - 1]
    BY SMTT(60), <1>7, <2>1, <2>2, SubSeqProperties
  <2>4. /\ (IF lo + 1 <= last THEN last - (lo + 1) + 1 ELSE 0) = last - lo
        /\ last - (lo + 1) + 1 = last - lo
        /\ \A k \in 1..(last - lo) : (lo + 1) + k - 1 = lo + k
    BY <1>3, <1>6
  <2>. QED
    BY <2>3, <2>4
<1>9. /\ all \in Seq(HookRec) /\ Len(all) = last
      /\ \A k \in 1..last : all[k] = IF k <= lo THEN found[k] ELSE chunk[k - lo]
  <2>1. /\ all \in Seq(HookRec) /\ Len(all) = Len(found) + Len(chunk)
        /\ \A k \in 1..(Len(found) + Len(chunk)) :
              all[k] = IF k <= Len(found) THEN found[k] ELSE chunk[k - Len(found)]
    BY ZenonT(60), <1>4, <1>8, ConcatProperties
  <2>2. Len(found) + Len(chunk) = last
    BY <1>3, <1>4, <1>6, <1>8
  <2>. QED
    BY <1>4, <2>1, <2>2
<1>10. ASSUME NEW k \in 1..last PROVE all[k] = list[k]
  <2>1. CASE k <= lo
    <3>1. k \in 1..lo
      BY <1>3, <1>6, <2>1
    <3>. QED
      BY <1>4, <1>9, <2>1, <3>1 DEF BeginningOf
  <2>2. CASE ~(k <= lo)
    <3>1. k - lo \in 1..(last - lo) /\ lo + (k - lo) = k
      BY <1>3, <1>6, <2>2
    <3>. QED
      BY <1>8, <1>9, <2>2, <3>1
  <2>. QED
    BY <2>1, <2>2
<1>11. BeginningOf(all, list)
  BY <1>1, <1>6, <1>9, <1>10 DEF BeginningOf
<1>12. \/ Len(chunk) = P /\ Len(all) = hi
       \/ Len(chunk) < P /\ Len(all) = n
  <2>1. last - lo = P \/ (last - lo < P /\ last = n)
    BY <1>2, <1>3, <1>6
  <2>2. last - lo = P => last = hi
    BY <1>2, <1>3, <1>6
  <2>. QED
    BY <1>8, <1>9, <2>1, <2>2
<1>. QED
  BY <1>1, <1>2, <1>11, <1>12

-----------------------------------------------------------------------------
(* Webhook commands.                                                       *)

(* The oldest first, and no more than the pages hold. *)
Ordered(list, next) ==
    /\ list \in Seq(HookRec) /\ next \in Nat /\ 1 <= next
    /\ next <= MaxPages * PageSize + 1
    /\ \A i \in 1..Len(list) : i <= list[i].id /\ list[i].id < next
    /\ \A i, j \in 1..Len(list) : i < j => list[i].id < list[j].id

CommandFields == {"name", "pc", "page", "found", "todo", "began", "ours", "raced", "exit"}

(* What the property says of a command that has ended. *)
Accounted(c, list) ==
    /\ c.name = "list" => /\ c.began \subseteq IdsOf(c.found)
                          /\ Cardinality(IdsOf(c.found)) = Len(c.found)
    /\ c.name = "match" => c.ours \cap IdsOf(list) = {}

(* Unless a webhook was deleted meanwhile, what was read is the beginning  *)
(* of the list as it is, and what the command began with is all there.     *)
Reading(c, list) ==
    /\ BeginningOf(c.found, list) /\ Len(c.found) = (c.page - 1) * PageSize
    /\ c.began \subseteq IdsOf(list) /\ c.ours \subseteq Ours(list)

CommandSound(c, list, next) ==
    /\ DOMAIN c = CommandFields
    /\ c.pc \in {"idle", "listing", "deleting", "ended"}
    /\ c.pc = "idle" => c.name = "none"
    /\ \A x \in c.ours : x \in Nat /\ x < next
    /\ c.pc = "listing" =>
          /\ c.name \in {"list", "match"} /\ c.page \in 1..MaxPages
          /\ ~c.raced => Reading(c, list)
    /\ c.pc = "deleting" =>
          /\ c.name \in {"match", "id"}
          /\ (c.name = "match" /\ ~c.raced) =>
                c.todo \in Seq(Nat) /\ c.ours \cap IdsOf(list) \subseteq Range(c.todo)
    /\ (c.pc = "ended" /\ c.exit = "ok" /\ ~c.raced) => Accounted(c, list)

HooksSound ==
    /\ Ordered(hooks, nextHook)
    /\ DOMAIN cmd = Operators
    /\ \A o \in Operators : CommandSound(cmd[o], hooks, nextHook)

LEMMA OrderedIds ==
    ASSUME NEW list, NEW next, Ordered(list, next)
    PROVE  \A i \in 1..Len(list) :
              list[i].id \in Nat /\ i <= list[i].id /\ list[i].id < next
<1>1. ASSUME NEW i \in 1..Len(list) PROVE list[i].id \in Nat
  <2>1. list[i] \in HookRec
    BY ElementOfSeq DEF Ordered
  <2>. QED
    BY <2>1 DEF HookRec
<1>2. \A i \in 1..Len(list) : i <= list[i].id /\ list[i].id < next
  BY DEF Ordered
<1>. QED
  BY <1>1, <1>2

LEMMA LengthBound ==
    ASSUME NEW list, NEW next, Ordered(list, next)
    PROVE  Len(list) \in Nat /\ Len(list) < next /\ Len(list) <= MaxPages * PageSize
<1>1. PICK n, L : n = Len(list) /\ L = MaxPages * PageSize
  OBVIOUS
<1>2. n \in Nat /\ L \in Nat /\ next \in Nat /\ 1 <= next /\ next <= L + 1
  BY <1>1, HostAssumption DEF Ordered
<1>3. n < next
  <2>1. CASE n = 0
    BY <1>2, <2>1
  <2>2. CASE n # 0
    <3>1. n \in 1..n
      BY <1>2, <2>2
    <3>2. list[n].id \in Nat /\ n <= list[n].id /\ list[n].id < next
      BY <1>1, <3>1, OrderedIds
    <3>. QED
      BY <1>2, <3>2
  <2>. QED
    BY <2>1, <2>2
<1>. QED
  BY <1>1, <1>2, <1>3

Room(next) == next <= MaxPages * PageSize

Grown(list, next, h, new) ==
    /\ Ordered(list, next) /\ Room(next)
    /\ h \in HookRec /\ h.id = next /\ new = Append(list, h)

LEMMA AppendOrdered ==
    ASSUME NEW list, NEW next, NEW h, NEW new, Grown(list, next, h, new)
    PROVE  /\ Ordered(new, next + 1)
           /\ Len(new) = Len(list) + 1 /\ \A i \in 1..Len(list) : new[i] = list[i]
           /\ IdsOf(new) = IdsOf(list) \cup {next} /\ Ours(list) \subseteq Ours(new)
<1> USE DEF Grown
<1>1. PICK n : n = Len(list) /\ n \in Nat /\ n < next /\ next \in Nat /\ list \in Seq(HookRec)
  BY LengthBound DEF Ordered
<1>2. /\ new \in Seq(HookRec) /\ Len(new) = n + 1 /\ new[n + 1] = h
      /\ \A i \in 1..n : new[i] = list[i]
  BY <1>1
<1>3. \A i \in 1..(n + 1) : i = n + 1 \/ i \in 1..n
  BY <1>1
<1>4. 1..n \subseteq 1..(n + 1) /\ n + 1 \in 1..(n + 1)
  BY <1>1
<1>5. \A i \in 1..n : list[i].id \in Nat /\ i <= list[i].id /\ list[i].id < next
  BY <1>1, OrderedIds
<1>6. \A i \in 1..(n + 1) : i <= new[i].id /\ new[i].id < next + 1
  BY <1>1, <1>2, <1>3, <1>5
<1>7. ASSUME NEW i \in 1..(n + 1), NEW j \in 1..(n + 1), i < j PROVE new[i].id < new[j].id
  <2>1. i \in 1..n
    BY <1>1, <1>7
  <2>2. CASE j = n + 1
    BY <1>2, <1>5, <2>1, <2>2
  <2>3. CASE j \in 1..n
    BY <1>1, <1>2, <1>7, <2>1, <2>3 DEF Ordered
  <2>. QED
    BY <1>3, <2>2, <2>3
<1>8. next + 1 \in Nat /\ 1 <= next + 1 /\ next + 1 <= MaxPages * PageSize + 1
  <2>1. MaxPages * PageSize \in Nat
    BY HostAssumption
  <2>. QED
    BY <1>1, <2>1 DEF Room
<1>9. Ordered(new, next + 1)
  BY <1>2, <1>6, <1>7, <1>8 DEF Ordered
<1>10. IdsOf(new) = IdsOf(list) \cup {next}
  BY <1>1, <1>2, <1>3, <1>4 DEF IdsOf
<1>11. Ours(list) \subseteq Ours(new)
  BY <1>1, <1>2, <1>4 DEF Ours
<1>. QED
  BY <1>1, <1>2, <1>9, <1>10, <1>11

LEMMA AppendCommand ==
    ASSUME NEW list, NEW next, Ordered(list, next), NEW new, new \in Seq(HookRec),
           Len(new) = Len(list) + 1, \A i \in 1..Len(list) : new[i] = list[i],
           IdsOf(new) = IdsOf(list) \cup {next}, Ours(list) \subseteq Ours(new),
           NEW c, CommandSound(c, list, next)
    PROVE  CommandSound(c, new, next + 1)
<1>1. next \in Nat /\ Len(list) \in Nat
  BY DEF Ordered
<1>2. \A x \in c.ours : x \in Nat /\ x < next + 1 /\ x # next
  BY <1>1 DEF CommandSound
<1>3. c.ours \cap IdsOf(new) = c.ours \cap IdsOf(list)
  BY <1>2
<1>4. ASSUME Reading(c, list) PROVE Reading(c, new)
  <2>1. PICK n, m : n = Len(list) /\ m = Len(c.found) /\ n \in Nat /\ m \in Nat /\ m <= n
    BY <1>4 DEF Reading, BeginningOf, Ordered
  <2>2. m <= n + 1 /\ \A i \in 1..m : i \in 1..n
    BY <2>1
  <2>3. BeginningOf(c.found, new)
    BY <1>4, <2>1, <2>2 DEF Reading, BeginningOf
  <2>. QED
    BY <1>4, <2>3 DEF Reading
<1>. QED
  BY <1>2, <1>3, <1>4 DEF CommandSound, Accounted

LEMMA DropOrdered ==
    ASSUME NEW list, NEW next, Ordered(list, next), NEW i \in 1..Len(list),
           NEW rest, rest = RemoveAt(list, i)
    PROVE  Ordered(rest, next) /\ IdsOf(rest) \subseteq IdsOf(list) \ {list[i].id}
<1>1. PICK n : n = Len(list) /\ n \in Nat /\ i \in 1..n /\ list \in Seq(HookRec)
  BY DEF Ordered
<1>2. /\ rest \in Seq(HookRec) /\ Len(rest) = n - 1
      /\ \A k \in 1..(n - 1) : rest[k] = IF k < i THEN list[k] ELSE list[k + 1]
  BY <1>1, RemoveOne
<1> DEFINE at(k) == IF k < i THEN k ELSE k + 1
<1>3. \A k \in 1..(n - 1) : /\ at(k) \in 1..n /\ at(k) # i /\ k <= at(k)
                            /\ rest[k] = list[at(k)]
  BY <1>1, <1>2
<1>4. \A k, l \in 1..(n - 1) : k < l => at(k) < at(l)
  BY <1>1
<1> HIDE DEF at
<1>5. \A k \in 1..n : list[k].id \in Nat /\ k <= list[k].id /\ list[k].id < next
  BY <1>1, OrderedIds
<1>6. \A k \in 1..n : k # i => list[k].id # list[i].id
  <2> SUFFICES ASSUME NEW k \in 1..n, k # i PROVE list[k].id # list[i].id
    OBVIOUS
  <2>1. k < i \/ i < k
    BY <1>1
  <2>2. list[k].id < list[i].id \/ list[i].id < list[k].id
    BY <1>1, <2>1 DEF Ordered
  <2>. QED
    BY <1>1, <1>5, <2>2
<1>7. \A k \in 1..(n - 1) : k <= rest[k].id /\ rest[k].id < next
  <2> SUFFICES ASSUME NEW k \in 1..(n - 1) PROVE k <= rest[k].id /\ rest[k].id < next
    OBVIOUS
  <2>1. PICK a : a = at(k) /\ a \in 1..n /\ k <= a /\ rest[k] = list[a]
    BY <1>3
  <2>2. list[a].id \in Nat /\ a <= list[a].id /\ list[a].id < next
    BY <1>5, <2>1
  <2>. QED
    BY <1>1, <2>1, <2>2
<1>8. \A k, l \in 1..(n - 1) : k < l => rest[k].id < rest[l].id
  BY <1>1, <1>3, <1>4 DEF Ordered
<1>9. Ordered(rest, next)
  BY <1>2, <1>7, <1>8 DEF Ordered
<1>10. IdsOf(rest) \subseteq IdsOf(list) \ {list[i].id}
  BY <1>1, <1>2, <1>3, <1>6 DEF IdsOf
<1>. QED
  BY <1>9, <1>10

LEMMA DropCommand ==
    ASSUME NEW list, NEW next, NEW rest, IdsOf(rest) \subseteq IdsOf(list),
           NEW c, CommandSound(c, list, next),
           NEW k, k = IF c.pc = "listing" THEN [c EXCEPT !.raced = TRUE] ELSE c
    PROVE  CommandSound(k, rest, next)
<1>1. CASE c.pc = "listing"
  <2>1. /\ DOMAIN k = CommandFields /\ k.pc = "listing" /\ k.name = c.name
        /\ k.page = c.page /\ k.ours = c.ours /\ k.raced = TRUE
    BY <1>1 DEF CommandSound, CommandFields
  <2>. QED
    BY <1>1, <2>1 DEF CommandSound
<1>2. CASE c.pc # "listing"
  BY <1>2 DEF CommandSound, Accounted
<1>. QED
  BY <1>1, <1>2

LEMMA OnceEach ==
    ASSUME NEW list, NEW next, Ordered(list, next)
    PROVE  Cardinality(IdsOf(list)) = Len(list)
<1>1. PICK n : n = Len(list) /\ n \in Nat
  BY DEF Ordered
<1> DEFINE f == [i \in 1..n |-> list[i].id]
<1>2. f \in [1..n -> IdsOf(list)] /\ \A y \in IdsOf(list) : \E i \in 1..n : f[i] = y
  BY <1>1 DEF IdsOf
<1>3. ASSUME NEW i \in 1..n, NEW j \in 1..n, i # j PROVE f[i] # f[j]
  <2>1. i < j \/ j < i
    BY <1>1, <1>3
  <2>2. list[i].id < list[j].id \/ list[j].id < list[i].id
    BY <1>1, <2>1 DEF Ordered
  <2>3. list[i].id \in Nat /\ list[j].id \in Nat
    BY <1>1, OrderedIds
  <2>. QED
    BY <2>2, <2>3
<1> HIDE DEF f
<1>4. f \in Bijection(1..n, IdsOf(list))
  BY <1>2, <1>3 DEF Bijection, Injection, Surjection, IsInjective
<1>5. ExistsBijection(1..n, IdsOf(list))
  BY <1>4 DEF ExistsBijection
<1>6. IsFiniteSet(1..n) /\ Cardinality(1..n) = n
  <2>1. n \in Int /\ 1 \in Int
    BY <1>1
  <2>2. IsFiniteSet(1..n) /\ Cardinality(1..n) = IF 1 > n THEN 0 ELSE n - 1 + 1
    BY <2>1, FS_Interval
  <2>3. (IF 1 > n THEN 0 ELSE n - 1 + 1) = n
    BY <1>1
  <2>. QED
    BY <2>2, <2>3
<1>. QED
  BY <1>1, <1>5, <1>6, FS_Bijection

LEMMA EndedIs ==
    ASSUME NEW c, NEW code, NEW k, k = Ended(c, code)
    PROVE  /\ DOMAIN k = CommandFields /\ k.pc = "ended" /\ k.exit = code
           /\ k.name = c.name /\ k.raced = c.raced
           /\ k.ours = IF code = "ok" THEN c.ours ELSE {}
BY DEF Ended, NoCommand, CommandFields

(* A command may end without success at any time, with success when it has *)
(* nothing to account for.                                                 *)
LEMMA EndedSound ==
    ASSUME NEW c, NEW list, NEW next, CommandSound(c, list, next), NEW code,
           code # "ok" \/ c.name \in {"none", "id"}
              \/ (c.name = "match" /\ (~c.raced => c.ours \cap IdsOf(list) = {}))
    PROVE  CommandSound(Ended(c, code), list, next)
<1>1. PICK k : k = Ended(c, code)
  OBVIOUS
<1>2. /\ DOMAIN k = CommandFields /\ k.pc = "ended" /\ k.exit = code
      /\ k.name = c.name /\ k.raced = c.raced
      /\ k.ours = IF code = "ok" THEN c.ours ELSE {}
  BY <1>1, EndedIs
<1>3. CommandSound(k, list, next)
  BY <1>2 DEF CommandSound, Accounted
<1>. QED
  BY <1>1, <1>3

(* The whole list has been read. *)
LEMMA ListedSound ==
    ASSUME NEW c, NEW list, NEW next, Ordered(list, next), CommandSound(c, list, next),
           c.pc = "listing", NEW found, ~c.raced => found = list
    PROVE  CommandSound(Listed(c, found), list, next)
<1>1. PICK matched : matched = MatchedIds(found)
  OBVIOUS
<1>2. ~c.raced => matched \in Seq(Nat) /\ c.ours \subseteq Range(matched)
  BY <1>1, MatchedIdsOurs DEF Ordered, CommandSound, Reading
<1>3. PICK k : k = Listed(c, found)
  OBVIOUS
<1>4. CASE c.name = "list"
  <2> DEFINE e == Ended(c, "ok")
  <2>1. k = [e EXCEPT !.found = found, !.began = c.began]
    BY <1>3, <1>4 DEF Listed
  <2>2. /\ DOMAIN e = CommandFields /\ e.pc = "ended" /\ e.exit = "ok"
        /\ e.name = c.name /\ e.raced = c.raced /\ e.ours = c.ours
    BY EndedIs
  <2> HIDE DEF e
  <2>3. /\ DOMAIN k = CommandFields /\ k.pc = "ended" /\ k.exit = "ok"
        /\ k.name = c.name /\ k.raced = c.raced /\ k.ours = c.ours
        /\ k.found = found /\ k.began = c.began
    BY <2>1, <2>2 DEF CommandFields
  <2>4. ~c.raced => c.began \subseteq IdsOf(found) /\ Cardinality(IdsOf(found)) = Len(found)
    BY OnceEach DEF CommandSound, Reading
  <2>5. CommandSound(k, list, next)
    BY <1>4, <2>3, <2>4 DEF CommandSound, Accounted
  <2>. QED
    BY <1>3, <2>5
<1>5. CASE c.name = "match" /\ matched = << >>
  <2>1. k = Ended(c, "error")
    BY <1>1, <1>3, <1>5 DEF Listed
  <2>. QED
    BY <1>3, <2>1, EndedSound
<1>6. CASE c.name = "match" /\ matched # << >>
  <2>1. k = [c EXCEPT !.pc = "deleting", !.found = <<>>, !.began = {}, !.page = 1,
                      !.todo = matched]
    BY <1>1, <1>3, <1>6 DEF Listed
  <2>2. /\ DOMAIN k = CommandFields /\ k.pc = "deleting" /\ k.todo = matched
        /\ k.name = c.name /\ k.raced = c.raced /\ k.ours = c.ours
    BY <2>1 DEF CommandSound, CommandFields
  <2>3. CommandSound(k, list, next)
    BY <1>2, <1>6, <2>2 DEF CommandSound
  <2>. QED
    BY <1>3, <2>3
<1>. QED
  BY <1>4, <1>5, <1>6 DEF CommandSound

LEMMA CommandChange ==
    ASSUME HooksSound, NEW o \in Operators, NEW k, CommandSound(k, hooks, nextHook),
           cmd' = [cmd EXCEPT ![o] = k], UNCHANGED <<hooks, nextHook>>
    PROVE  HooksSound'
BY DEF HooksSound

LEMMA ListPageSound ==
    ASSUME HooksSound, NEW o \in Operators, ListPage(o)
    PROVE  HooksSound'
<1>1. PICK c, list, next : c = cmd[o] /\ list = hooks /\ next = nextHook
  OBVIOUS
<1>2. /\ Ordered(list, next) /\ CommandSound(c, list, next) /\ c.pc = "listing"
      /\ list \in Seq(HookRec)
  BY <1>1 DEF HooksSound, ListPage, Listing, Ordered
<1>3. PICK chunk, found : chunk = Page(list, c.page) /\ found = c.found \o chunk
  OBVIOUS
<1>4. c.page \in 1..MaxPages /\ c.page \in Nat \ {0} /\ MaxPages \in Nat
  <2>1. c.page \in 1..MaxPages
    BY <1>2 DEF CommandSound
  <2>. QED
    BY <2>1, HostAssumption
<1>5. ASSUME ~c.raced
      PROVE  /\ BeginningOf(found, list)
             /\ \/ Len(chunk) = PageSize /\ Len(found) = c.page * PageSize
                \/ Len(chunk) < PageSize /\ Len(found) = Len(list)
  <2>1. PICK p, f : p = c.page /\ f = c.found /\ p \in Nat \ {0}
    BY <1>4
  <2>2. BeginningOf(f, list) /\ Len(f) = (p - 1) * PageSize
    BY <1>2, <1>5, <2>1 DEF CommandSound, Reading
  <2>3. chunk = Page(list, p) /\ found = f \o chunk
    BY <1>3, <2>1
  <2>4. /\ BeginningOf(found, list)
        /\ \/ Len(chunk) = PageSize /\ Len(found) = p * PageSize
           \/ Len(chunk) < PageSize /\ Len(found) = Len(list)
    <3>1. ReadOn(list, f, p, chunk, found)
      BY <2>2, <2>3 DEF ReadOn
    <3>. QED
      BY <1>2, <2>1, <3>1, NextPagePrefix
  <2>. QED
    BY <2>1, <2>4
<1>6. \/ cmd' = [cmd EXCEPT ![o] = Ended(c, "error")]
      \/ LastPage(chunk, c.page) /\ cmd' = [cmd EXCEPT ![o] = Listed(c, found)]
      \/ /\ ~LastPage(chunk, c.page)
         /\ cmd' = [cmd EXCEPT ![o] = [c EXCEPT !.found = found, !.page = c.page + 1]]
  BY <1>1, <1>3 DEF ListPage, Exit
<1>7. CASE cmd' = [cmd EXCEPT ![o] = Ended(c, "error")]
  <2>1. CommandSound(Ended(c, "error"), list, next)
    BY <1>2, EndedSound
  <2>. QED
    BY <1>1, <1>7, <2>1, CommandChange DEF ListPage
<1>8. CASE LastPage(chunk, c.page) /\ cmd' = [cmd EXCEPT ![o] = Listed(c, found)]
  <2>1. ASSUME ~c.raced PROVE found = list
    <3>1. PICK n, m, P : n = Len(list) /\ m = Len(found) /\ P = PageSize
      OBVIOUS
    <3>2. n \in Nat /\ m \in Nat /\ m <= n /\ n <= MaxPages * P /\ P \in Nat
      BY <1>2, <1>5, <2>1, <3>1, LengthBound, HostAssumption DEF BeginningOf
    <3>3. m = n \/ (m = c.page * P /\ Len(chunk) = P)
      BY <1>5, <2>1, <3>1
    <3>4. (Len(chunk) = P /\ P \in Nat) => c.page = MaxPages
      BY <1>8, <3>1 DEF LastPage
    <3>5. m = n
      BY <3>2, <3>3, <3>4
    <3>6. /\ found \in Seq(HookRec) /\ Len(found) = Len(list)
          /\ \A i \in 1..Len(found) : found[i] = list[i]
      BY <1>5, <2>1, <3>1, <3>5 DEF BeginningOf
    <3>. QED
      BY <1>2, <3>6, SeqEqual
  <2>2. CommandSound(Listed(c, found), list, next)
    BY <1>2, <2>1, ListedSound
  <2>. QED
    BY <1>1, <1>8, <2>2, CommandChange DEF ListPage
<1>9. CASE /\ ~LastPage(chunk, c.page)
           /\ cmd' = [cmd EXCEPT ![o] = [c EXCEPT !.found = found, !.page = c.page + 1]]
  <2> DEFINE k == [c EXCEPT !.found = found, !.page = c.page + 1]
  <2>1. /\ DOMAIN k = CommandFields /\ k.pc = "listing" /\ k.found = found
        /\ k.page = c.page + 1 /\ k.name = c.name /\ k.raced = c.raced
        /\ k.ours = c.ours /\ k.began = c.began
    BY <1>2 DEF CommandSound, CommandFields
  <2> HIDE DEF k
  <2>2. c.page # MaxPages /\ ~(Len(chunk) < PageSize)
    BY <1>9 DEF LastPage
  <2>3. k.page \in 1..MaxPages /\ k.page - 1 = c.page
    BY <1>4, <2>1, <2>2
  <2>4. ~c.raced => Reading(k, list)
    BY <1>2, <1>5, <2>1, <2>2, <2>3 DEF Reading, CommandSound
  <2>5. CommandSound(k, list, next)
    BY <1>2, <2>1, <2>3, <2>4 DEF CommandSound
  <2>. QED
    BY <1>1, <1>9, <2>5, CommandChange DEF ListPage, k
<1>. QED
  BY <1>6, <1>7, <1>8, <1>9

LEMMA StartSound ==
    ASSUME HooksSound, NEW o \in Operators,
           UnregisterById(o) \/ \E name \in {"list", "match"} : StartListing(o, name)
    PROVE  HooksSound'
<1>1. PICK list, next : list = hooks /\ next = nextHook /\ Ordered(list, next)
  BY DEF HooksSound
<1>2. CASE UnregisterById(o)
  <2>1. PICK id : cmd' = [cmd EXCEPT ![o] = [NoCommand EXCEPT !.name = "id",
                             !.pc = "deleting", !.todo = <<id>>]]
    BY <1>2 DEF UnregisterById
  <2> DEFINE k == [NoCommand EXCEPT !.name = "id", !.pc = "deleting", !.todo = <<id>>]
  <2>2. DOMAIN k = CommandFields /\ k.name = "id" /\ k.pc = "deleting" /\ k.ours = {}
    BY DEF NoCommand, CommandFields
  <2> HIDE DEF k
  <2>3. CommandSound(k, list, next)
    BY <2>2 DEF CommandSound
  <2>. QED
    BY <1>1, <1>2, <2>1, <2>3, CommandChange DEF UnregisterById, k
<1>3. ASSUME NEW name \in {"list", "match"}, StartListing(o, name) PROVE HooksSound'
  <2>1. cmd' = [cmd EXCEPT ![o] = [NoCommand EXCEPT !.name = name, !.pc = "listing",
                  !.began = IdsOf(list), !.ours = Ours(list)]]
    BY <1>1, <1>3 DEF StartListing
  <2> DEFINE k == [NoCommand EXCEPT !.name = name, !.pc = "listing",
                     !.began = IdsOf(list), !.ours = Ours(list)]
  <2>2. /\ DOMAIN k = CommandFields /\ k.name = name /\ k.pc = "listing"
        /\ k.began = IdsOf(list) /\ k.ours = Ours(list) /\ k.found = << >> /\ k.page = 1
    BY DEF NoCommand, CommandFields
  <2> HIDE DEF k
  <2>3. 1 \in 1..MaxPages /\ (1 - 1) * PageSize = 0
    BY HostAssumption
  <2>4. BeginningOf(k.found, list) /\ Len(k.found) = 0
    <3>1. Len(list) \in Nat
      BY <1>1 DEF Ordered
    <3>. QED
      BY <2>2, <3>1 DEF BeginningOf
  <2>5. Reading(k, list)
    BY <2>2, <2>3, <2>4 DEF Reading
  <2>6. \A x \in k.ours : x \in Nat /\ x < next
    BY <1>1, <2>2, OrderedIds DEF Ours
  <2>7. CommandSound(k, list, next)
    BY <2>2, <2>3, <2>5, <2>6 DEF CommandSound
  <2>. QED
    BY <1>1, <1>3, <2>1, <2>7, CommandChange DEF StartListing, k
<1>. QED
  BY <1>2, <1>3

(* A webhook more changes nothing for the commands under way. *)
LEMMA AddSound ==
    ASSUME HooksSound, MaxHooks <= MaxPages * PageSize, nextHook <= MaxHooks,
           NEW h \in HookRec, h.id = nextHook,
           hooks' = Append(hooks, h), nextHook' = nextHook + 1, DOMAIN cmd' = Operators,
           \A o \in Operators : CommandSound(cmd'[o], hooks, nextHook)
    PROVE  HooksSound'
<1>1. PICK list, next, new : list = hooks /\ next = nextHook /\ new = Append(list, h)
  OBVIOUS
<1>2. Ordered(list, next) /\ Room(next) /\ h.id = next
  <2>1. next \in Nat /\ MaxHooks \in Nat /\ MaxPages * PageSize \in Nat
    BY <1>1, HostAssumption, OperatorAssumption DEF HooksSound, Ordered
  <2>. QED
    BY <1>1, <2>1 DEF HooksSound, Room
<1>3. /\ Ordered(new, next + 1)
      /\ Len(new) = Len(list) + 1 /\ \A i \in 1..Len(list) : new[i] = list[i]
      /\ IdsOf(new) = IdsOf(list) \cup {next} /\ Ours(list) \subseteq Ours(new)
  <2>1. Grown(list, next, h, new)
    BY <1>1, <1>2 DEF Grown
  <2>. QED
    BY <2>1, AppendOrdered
<1>4. new \in Seq(HookRec)
  BY <1>3 DEF Ordered
<1>5. ASSUME NEW c, CommandSound(c, list, next) PROVE CommandSound(c, new, next + 1)
  BY <1>2, <1>3, <1>4, <1>5, AppendCommand
<1>. QED
  BY <1>1, <1>3, <1>5 DEF HooksSound

LEMMA HookMade ==
    ASSUME NEW n \in Nat, NEW b \in BOOLEAN
    PROVE  \E h \in HookRec : h.id = n /\ h = [id |-> n, ours |-> b]
BY DEF HookRec

LEMMA RegisterSound ==
    ASSUME HooksSound, MaxHooks <= MaxPages * PageSize, NEW o \in Operators,
           RegisterWebhook(o)
    PROVE  HooksSound'
<1>1. PICK c : c = cmd[o] /\ CommandSound(c, hooks, nextHook) /\ c.name = "none"
  BY DEF HooksSound, RegisterWebhook, CommandSound
<1>2. PICK code : cmd' = [cmd EXCEPT ![o] = Ended(c, code)]
  BY <1>1 DEF RegisterWebhook, Exit
<1>3. CommandSound(Ended(c, code), hooks, nextHook)
  BY <1>1, EndedSound
<1>4. CASE UNCHANGED <<hooks, nextHook>>
  BY <1>2, <1>3, <1>4, CommandChange
<1>5. CASE /\ nextHook <= MaxHooks /\ nextHook' = nextHook + 1
           /\ hooks' = Append(hooks, [id |-> nextHook, ours |-> TRUE])
  <2>1. PICK h \in HookRec : h.id = nextHook /\ h = [id |-> nextHook, ours |-> TRUE]
    BY HookMade DEF HooksSound, Ordered
  <2>2. DOMAIN cmd' = Operators /\ \A q \in Operators : CommandSound(cmd'[q], hooks, nextHook)
    BY <1>2, <1>3 DEF HooksSound
  <2>. QED
    BY <1>5, <2>1, <2>2, AddSound
<1>. QED
  BY <1>4, <1>5 DEF RegisterWebhook

(* A webhook less. *)
LEMMA DropSound ==
    ASSUME HooksSound, NEW id, Dropped(id), UNCHANGED nextHook,
           NEW after, DOMAIN after = Operators, cmd' = Raced(after),
           \A o \in Operators :
              /\ after[o].pc = "listing" <=> cmd[o].pc = "listing"
              /\ \/ CommandSound(after[o], hooks, nextHook)
                 \/ after[o].pc # "listing" /\ CommandSound(after[o], hooks', nextHook)
    PROVE  HooksSound'
<1>1. PICK list, next : list = hooks /\ next = nextHook /\ Ordered(list, next)
  BY DEF HooksSound
<1>2. PICK i \in 1..Len(list) : hooks' = RemoveAt(list, i)
  BY <1>1 DEF Dropped
<1>3. PICK rest : rest = RemoveAt(list, i)
  OBVIOUS
<1>4. Ordered(rest, next) /\ IdsOf(rest) \subseteq IdsOf(list)
  BY <1>1, <1>2, <1>3, DropOrdered
<1>5. ASSUME NEW o \in Operators PROVE CommandSound(cmd'[o], rest, next)
  <2>1. PICK c, k : c = after[o] /\ k = cmd'[o]
    OBVIOUS
  <2>2. k = IF c.pc = "listing" THEN [c EXCEPT !.raced = TRUE] ELSE c
    BY <2>1 DEF Raced, Listing
  <2>3. CASE CommandSound(c, list, next)
    <3>1. CommandSound(k, rest, next)
      BY <1>4, <2>2, <2>3, DropCommand
    <3>. QED
      BY <2>1, <3>1
  <2>4. CASE c.pc # "listing" /\ CommandSound(c, rest, next)
    BY <2>1, <2>2, <2>4
  <2>. QED
    BY <1>1, <1>2, <1>3, <2>1, <2>3, <2>4
<1>6. DOMAIN cmd' = Operators
  BY DEF Raced
<1>. QED
  BY <1>1, <1>2, <1>3, <1>4, <1>5, <1>6 DEF HooksSound

LEMMA DeleteSound ==
    ASSUME HooksSound, NEW o \in Operators, DeleteWebhook(o)
    PROVE  HooksSound'
<1>1. PICK c, list, next, id :
        c = cmd[o] /\ list = hooks /\ next = nextHook /\ id = Head(c.todo)
  OBVIOUS
<1>2. /\ Ordered(list, next) /\ CommandSound(c, list, next) /\ c.pc = "deleting"
      /\ c.todo # << >> /\ UNCHANGED nextHook
  BY <1>1 DEF HooksSound, DeleteWebhook
<1>3. CommandSound(Ended(c, "error"), list, next)
  BY <1>2, EndedSound
<1>4. CASE Exit(o, "error") /\ UNCHANGED hooks
  BY <1>1, <1>2, <1>3, <1>4, CommandChange DEF Exit
<1>5. CASE /\ Dropped(id)
           /\ cmd' = Raced([cmd EXCEPT ![o] = Ended(c, "error")])
  <2>1. Ended(c, "error").pc = "ended"
    BY EndedIs
  <2> DEFINE after == [cmd EXCEPT ![o] = Ended(c, "error")]
  <2>2. /\ DOMAIN after = Operators
        /\ \A q \in Operators :
              /\ after[q].pc = "listing" <=> cmd[q].pc = "listing"
              /\ CommandSound(after[q], hooks, nextHook)
    BY <1>1, <1>2, <1>3, <2>1 DEF HooksSound
  <2>3. cmd' = Raced(after)
    BY <1>5
  <2> HIDE DEF after
  <2>. QED
    BY <1>2, <1>5, <2>2, <2>3, DropSound
<1>6. CASE /\ Dropped(id)
           /\ cmd' = Raced([cmd EXCEPT ![o].todo = Tail(@)])
  <2> DEFINE k == [c EXCEPT !.todo = Tail(c.todo)]
             after == [cmd EXCEPT ![o] = k]
  <2>1. /\ DOMAIN k = CommandFields /\ k.pc = "deleting" /\ k.todo = Tail(c.todo)
        /\ k.name = c.name /\ k.raced = c.raced /\ k.ours = c.ours
    BY <1>2 DEF CommandSound, CommandFields
  <2>2. cmd' = Raced(after)
    BY <1>1, <1>6
  <2> HIDE DEF k
  <2>3. PICK i \in 1..Len(list) : list[i].id = id /\ hooks' = RemoveAt(list, i)
    BY <1>1, <1>6 DEF Dropped
  <2>4. PICK rest : rest = RemoveAt(list, i)
    OBVIOUS
  <2>5. IdsOf(rest) \subseteq IdsOf(list) \ {id}
    BY <1>2, <2>3, <2>4, DropOrdered
  <2>6. ASSUME c.todo \in Seq(Nat)
        PROVE  /\ Tail(c.todo) \in Seq(Nat)
               /\ Range(c.todo) \subseteq Range(Tail(c.todo)) \cup {id}
    <3>1. PICK t, n : t = c.todo /\ n = Len(t) /\ n \in Nat /\ t \in Seq(Nat) /\ t # << >>
      BY <1>2, <2>6
    <3>2. /\ Tail(t) \in Seq(Nat) /\ Len(Tail(t)) = n - 1 /\ Head(t) = t[1]
          /\ \A j \in 1..(n - 1) : Tail(t)[j] = t[j + 1]
          /\ DOMAIN Tail(t) = 1..(n - 1) /\ DOMAIN t = 1..n
      BY <3>1, HeadTailProperties
    <3>3. \A j \in 1..n : j = 1 \/ (j - 1 \in 1..(n - 1) /\ (j - 1) + 1 = j)
      BY <3>1
    <3>4. ASSUME NEW j \in 1..n PROVE t[j] \in Range(Tail(t)) \cup {id}
      <4>1. CASE j = 1
        BY <1>1, <3>1, <3>2, <4>1
      <4>2. CASE j # 1
        <5>1. j - 1 \in DOMAIN Tail(t) /\ Tail(t)[j - 1] = t[j]
          BY <3>2, <3>3, <4>2
        <5>. QED
          BY <5>1 DEF Range
      <4>. QED
        BY <4>1, <4>2
    <3>. QED
      BY SMTT(60), <3>1, <3>2, <3>4 DEF Range
  <2>7. CommandSound(k, rest, next)
    BY <1>2, <2>1, <2>5, <2>6 DEF CommandSound
  <2>8. /\ DOMAIN after = Operators
        /\ \A q \in Operators :
              /\ after[q].pc = "listing" <=> cmd[q].pc = "listing"
              /\ \/ CommandSound(after[q], hooks, nextHook)
                 \/ after[q].pc # "listing" /\ CommandSound(after[q], hooks', nextHook)
    BY <1>1, <1>2, <2>1, <2>3, <2>4, <2>7 DEF HooksSound
  <2> HIDE DEF after
  <2>. QED
    BY <1>2, <1>6, <2>2, <2>8, DropSound
<1>. QED
  BY <1>1, <1>4, <1>5, <1>6 DEF DeleteWebhook

LEMMA FinishSound ==
    ASSUME HooksSound, NEW o \in Operators, FinishDeleting(o)
    PROVE  HooksSound'
<1>1. PICK c : c = cmd[o] /\ CommandSound(c, hooks, nextHook) /\ c.pc = "deleting"
                /\ c.todo = << >>
  BY DEF HooksSound, FinishDeleting
<1>2. Range(<< >>) = {}
  BY DEF Range
<1>3. CommandSound(Ended(c, "ok"), hooks, nextHook)
  <2>1. c.name = "id" \/ (c.name = "match" /\ (~c.raced => c.ours \cap IdsOf(hooks) = {}))
    BY <1>1, <1>2 DEF CommandSound
  <2>. QED
    BY <1>1, <2>1, EndedSound
<1>. QED
  BY <1>1, <1>3, CommandChange DEF FinishDeleting, Exit

(* A listing that no deletion came between shows everything that was there *)
(* from start to end, once, and an unregister that succeeds has left none  *)
(* of what it set out to remove: for lists that fit into the pages the     *)
(* client reads, beyond which it stops silently.                           *)
THEOREM HooksListed ==
    ASSUME MaxHooks <= MaxPages * PageSize, Len(FirstHooks) <= MaxPages * PageSize
    PROVE  Spec => []HooksAccounted
<1>1. Init => HooksSound
  <2> SUFFICES ASSUME Init PROVE HooksSound
    OBVIOUS
  <2>1. PICK n, L : n = Len(FirstHooks) /\ L = MaxPages * PageSize
    OBVIOUS
  <2>2. n \in Nat /\ L \in Nat /\ n <= L /\ FirstHooks \in Seq(HookRec)
    BY <2>1, HostAssumption, OperatorAssumption DEF HookRec
  <2>3. /\ hooks = FirstHooks /\ nextHook = n + 1 /\ cmd = [o \in Operators |-> NoCommand]
    BY <2>1 DEF Init, HookInit
  <2>4. Ordered(FirstHooks, n + 1)
    <3>1. n + 1 \in Nat /\ 1 <= n + 1 /\ n + 1 <= L + 1 /\ \A i \in 1..n : i <= i /\ i < n + 1
      BY <2>2
    <3>2. \A i \in 1..n : FirstHooks[i].id = i
      BY <2>1, OperatorAssumption
    <3>. QED
      BY <2>1, <2>2, <3>1, <3>2 DEF Ordered
  <2>5. CommandSound(NoCommand, FirstHooks, n + 1)
    <3> DEFINE k == NoCommand
    <3>1. DOMAIN k = CommandFields /\ k.pc = "idle" /\ k.name = "none" /\ k.ours = {}
      BY DEF NoCommand, CommandFields
    <3> HIDE DEF k
    <3>2. CommandSound(k, FirstHooks, n + 1)
      BY <3>1 DEF CommandSound
    <3>. QED
      BY <3>2 DEF k
  <2>. QED
    BY <2>3, <2>4, <2>5 DEF HooksSound
<1>2. HooksSound /\ [Next]_vars => HooksSound'
  <2> SUFFICES ASSUME HooksSound, [Next]_vars PROVE HooksSound'
    OBVIOUS
  <2>1. CASE UNCHANGED hookVars
    BY <2>1 DEF hookVars, HooksSound
  <2>2. CASE OthersDelete
    <3>1. PICK id : Dropped(id)
      BY <2>2 DEF OthersDelete
    <3>. QED
      BY <2>2, <3>1, DropSound DEF OthersDelete, HooksSound
  <2>3. CASE OthersAdd
    <3>2. PICK h \in HookRec : h.id = nextHook /\ h = [id |-> nextHook, ours |-> FALSE]
      BY HookMade DEF HooksSound, Ordered
    <3>3. DOMAIN cmd' = Operators /\ \A q \in Operators : CommandSound(cmd'[q], hooks, nextHook)
      BY <2>3 DEF OthersAdd, HooksSound
    <3>. QED
      BY <2>3, <3>2, <3>3, AddSound DEF OthersAdd
  <2>4. CASE HooksNext
    BY <2>2, <2>3, <2>4, RegisterSound, StartSound, ListPageSound, DeleteSound, FinishSound
       DEF HooksNext, HookStep
  <2>. QED
    BY <2>1, <2>4
       DEF Next, GithubNext, BenchNext, CostNext, CheckoutNext, SetupNext, vars
<1>3. HooksSound => HooksAccounted
  BY DEF HooksSound, CommandSound, Accounted, HooksAccounted
<1>. QED
  BY <1>1, <1>2, <1>3, PTL DEF Spec
-----------------------------------------------------------------------------
(* The tools of the verifier.                                              *)

LEMMA MaxOfTwo ==
    ASSUME NEW a \in Nat, NEW b \in Nat
    PROVE  Max({a, b}) = IF a <= b THEN b ELSE a
<1>1. \E x \in {a, b} : \A y \in {a, b} : x >= y
  OBVIOUS
<1>2. Max({a, b}) \in {a, b} /\ \A y \in {a, b} : Max({a, b}) >= y
  BY <1>1 DEF Max
<1>. QED
  BY <1>2

LEMMA TreeEnds ==
    ASSUME NEW S \in SUBSET Nodes, S # {}
    PROVE  \E n \in S : Node[n].parent \notin S
BY CheckoutAssumption

(* What is computed at every node of the tree from its parent's result, on *)
(* the nodes `done` of it that are closed under parents.                   *)
UpTo(done, V, base, step, stops, f) ==
    /\ done \in SUBSET Nodes /\ f \in [done -> V]
    /\ \A m \in done :
          IF m \in stops THEN f[m] = base[m]
          ELSE Node[m].parent \in done /\ f[m] = step[m][f[Node[m].parent]]

(* Such a function exists on the whole tree: a largest part that has one   *)
(* leaves no node out, since the tree ends upwards.                        *)
LEMMA TreeRecursion ==
    ASSUME NEW V, NEW base \in [Nodes -> V], NEW step \in [Nodes -> [V -> V]], NEW stops,
           \A m \in Nodes \ stops : Node[m].parent \in Nodes
    PROVE  \E f : UpTo(Nodes, V, base, step, stops, f)
<1> DEFINE Parts == {done \in SUBSET Nodes : \E f : UpTo(done, V, base, step, stops, f)}
           Rest == {Cardinality(Nodes \ done) : done \in Parts}
<1>1. IsFiniteSet(Nodes)
  BY CheckoutAssumption
<1>2. \A done \in SUBSET Nodes : IsFiniteSet(Nodes \ done) /\ Cardinality(Nodes \ done) \in Nat
  <2>1. \A done \in SUBSET Nodes : Nodes \ done \in SUBSET Nodes
    OBVIOUS
  <2>. QED
    BY <1>1, <2>1, FS_Subset, FS_CardinalityType
<1>3. {} \in Parts
  <2>1. UpTo({}, V, base, step, stops, [m \in {} |-> 0])
    BY DEF UpTo
  <2>. QED
    BY <2>1
<1>4. Rest \in SUBSET Nat /\ Rest # {}
  BY <1>2, <1>3
<1>5. PICK done \in Parts : \A other \in Parts :
         Cardinality(Nodes \ done) <= Cardinality(Nodes \ other)
  <2>1. PICK k \in Rest : \A d \in Rest : k <= d
    BY <1>4, LeastOf
  <2>. QED
    BY <2>1
<1>6. PICK f : UpTo(done, V, base, step, stops, f)
  BY <1>5
<1>7. CASE done # Nodes
  <2>1. PICK n \in Nodes \ done : Node[n].parent \notin Nodes \ done
    <3>1. Nodes \ done \in SUBSET Nodes /\ Nodes \ done # {}
      BY <1>5, <1>7
    <3>. QED
      BY <3>1, TreeEnds
  <2> DEFINE more == done \cup {n}
             top == IF n \in stops THEN base[n] ELSE step[n][f[Node[n].parent]]
             g == [m \in more |-> IF m = n THEN top ELSE f[m]]
  <2>2. done \in SUBSET Nodes /\ more \in SUBSET Nodes /\ f \in [done -> V]
    BY <1>6 DEF UpTo
  <2>3. n \notin stops => Node[n].parent \in done
    BY <2>1
  <2>4. top \in V
    BY <2>1, <2>2, <2>3
  <2> HIDE DEF top
  <2>5. g \in [more -> V]
    BY <2>2, <2>4
  <2>6. ASSUME NEW m \in more
        PROVE  IF m \in stops THEN g[m] = base[m]
               ELSE Node[m].parent \in more /\ g[m] = step[m][g[Node[m].parent]]
    <3>1. CASE m = n
      <4>1. n \notin stops => g[Node[n].parent] = f[Node[n].parent]
        BY <2>1, <2>3
      <4>. QED
        BY <2>3, <3>1, <4>1 DEF top
    <3>2. CASE m # n
      <4>1. m \in done /\ g[m] = f[m]
        BY <3>2
      <4>2. IF m \in stops THEN f[m] = base[m]
            ELSE Node[m].parent \in done /\ f[m] = step[m][f[Node[m].parent]]
        BY <1>6, <4>1 DEF UpTo
      <4>3. m \notin stops => g[Node[m].parent] = f[Node[m].parent]
        BY <2>1, <4>2
      <4>. QED
        BY <4>1, <4>2, <4>3
    <3>. QED
      BY <3>1, <3>2
  <2> HIDE DEF g, more
  <2>7. UpTo(more, V, base, step, stops, g)
    BY <2>2, <2>5, <2>6 DEF UpTo
  <2>8. more \in Parts
    BY <2>2, <2>7
  <2>9. Cardinality(Nodes \ more) = Cardinality(Nodes \ done) - 1
    <3>1. Nodes \ more = (Nodes \ done) \ {n}
      BY DEF more
    <3>2. PICK left : left = Nodes \ done /\ IsFiniteSet(left) /\ n \in left
      BY <1>2, <2>1, <2>2
    <3>3. Cardinality(left \ {n}) = Cardinality(left) - 1
      BY <3>2, FS_RemoveElement
    <3>. QED
      BY <3>1, <3>2, <3>3
  <2>10. PICK a, b : a = Cardinality(Nodes \ done) /\ b = Cardinality(Nodes \ more)
    OBVIOUS
  <2>11. a <= b
    BY <1>5, <2>8, <2>10
  <2>12. a \in Nat /\ b = a - 1
    BY <1>2, <2>2, <2>9, <2>10
  <2>. QED
    BY <2>11, <2>12
<1>. QED
  BY <1>6, <1>7

(* The nodes on the way up from each node. *)
WaysUp(above) ==
    above = [m \in Nodes |->
        IF Node[m].parent = "none" THEN {m} ELSE {m} \cup above[Node[m].parent]]

LEMMA InsideIs ==
    \E above : WaysUp(above) /\ \A n : InsideWorkspace(n) <=> "ws" \in above[n]
<1> DEFINE V == SUBSET Nodes
           base == [m \in Nodes |-> {m}]
           step == [m \in Nodes |-> [x \in V |-> {m} \cup x]]
           stops == {m \in Nodes : Node[m].parent = "none"}
<1>1. base \in [Nodes -> V] /\ step \in [Nodes -> [V -> V]]
  OBVIOUS
<1>2. \A m \in Nodes \ stops : Node[m].parent \in Nodes
  BY CheckoutAssumption
<1>3. \A m \in Nodes, x \in V : base[m] = {m} /\ step[m][x] = {m} \cup x
  OBVIOUS
<1>4. \A m \in Nodes : m \in stops <=> Node[m].parent = "none"
  OBVIOUS
<1> HIDE DEF base, step, stops
<1>5. PICK f : UpTo(Nodes, V, base, step, stops, f)
  BY <1>1, <1>2, TreeRecursion
<1>6. ASSUME NEW m \in Nodes
      PROVE  f[m] = IF Node[m].parent = "none" THEN {m} ELSE {m} \cup f[Node[m].parent]
  BY <1>3, <1>4, <1>5 DEF UpTo
<1>7. WaysUp(f)
  BY <1>5, <1>6 DEF UpTo, WaysUp
<1> DEFINE above[m \in Nodes] ==
        IF Node[m].parent = "none" THEN {m} ELSE {m} \cup above[Node[m].parent]
<1>8. above = [m \in Nodes |->
        IF Node[m].parent = "none" THEN {m} ELSE {m} \cup above[Node[m].parent]]
  <2>1. f = [m \in Nodes |->
          IF Node[m].parent = "none" THEN {m} ELSE {m} \cup f[Node[m].parent]]
    BY <1>7 DEF WaysUp
  <2>. QED
    BY <2>1 DEF above
<1>9. \A n : InsideWorkspace(n) <=> "ws" \in above[n]
  BY DEF InsideWorkspace
<1> HIDE DEF above
<1>10. WaysUp(above)
  BY <1>8 DEF WaysUp
<1>. QED
  BY <1>9, <1>10

(* The steps from a node up to where a search starts. *)
StepsUp(start, up) ==
    up = [m \in Nodes |->
        IF m = start THEN 0
        ELSE IF Node[m].parent = "none" \/ Node[m].kind = "link"
                \/ Node[m].name \in SkippedNames
        THEN MaxDepth + 1
        ELSE 1 + up[Node[m].parent]]

LEMMA FoundAtIs ==
    ASSUME NEW start
    PROVE  \E up \in [Nodes -> Nat] : StepsUp(start, up) /\ \A n : FoundAt(start, n) = up[n]
<1> DEFINE stopped(m) == Node[m].parent = "none" \/ Node[m].kind = "link"
                           \/ Node[m].name \in SkippedNames
           base == [m \in Nodes |-> IF m = start THEN 0 ELSE MaxDepth + 1]
           step == [m \in Nodes |-> [x \in Nat |-> 1 + x]]
           stops == {m \in Nodes : m = start \/ stopped(m)}
<1>1. base \in [Nodes -> Nat] /\ step \in [Nodes -> [Nat -> Nat]]
  BY CheckoutAssumption
<1>2. \A m \in Nodes \ stops : Node[m].parent \in Nodes
  BY CheckoutAssumption
<1>3. \A m \in Nodes, x \in Nat :
         base[m] = (IF m = start THEN 0 ELSE MaxDepth + 1) /\ step[m][x] = 1 + x
  OBVIOUS
<1>4. \A m \in Nodes : m \in stops <=> m = start \/ stopped(m)
  OBVIOUS
<1> HIDE DEF base, step, stops, stopped
<1>5. PICK f : UpTo(Nodes, Nat, base, step, stops, f)
  BY <1>1, <1>2, TreeRecursion
<1>6. ASSUME NEW m \in Nodes
      PROVE  f[m] = IF m = start THEN 0
                    ELSE IF stopped(m) THEN MaxDepth + 1 ELSE 1 + f[Node[m].parent]
  BY <1>3, <1>4, <1>5 DEF UpTo
<1>7. f \in [Nodes -> Nat]
  BY <1>5 DEF UpTo
<1>8. StepsUp(start, f)
  BY <1>6, <1>7 DEF StepsUp, stopped
<1> DEFINE up[m \in Nodes] ==
        IF m = start THEN 0
        ELSE IF Node[m].parent = "none" \/ Node[m].kind = "link"
                \/ Node[m].name \in SkippedNames
        THEN MaxDepth + 1
        ELSE 1 + up[Node[m].parent]
<1>9. up = [m \in Nodes |->
        IF m = start THEN 0
        ELSE IF Node[m].parent = "none" \/ Node[m].kind = "link"
                \/ Node[m].name \in SkippedNames
        THEN MaxDepth + 1
        ELSE 1 + up[Node[m].parent]]
  <2>1. f = [m \in Nodes |->
          IF m = start THEN 0
          ELSE IF Node[m].parent = "none" \/ Node[m].kind = "link"
                  \/ Node[m].name \in SkippedNames
          THEN MaxDepth + 1
          ELSE 1 + f[Node[m].parent]]
    BY <1>8 DEF StepsUp
  <2>. QED
    BY <2>1 DEF up
<1>10. \A n : FoundAt(start, n) = up[n]
  BY DEF FoundAt
<1> HIDE DEF up
<1>11. StepsUp(start, up)
  BY <1>9 DEF StepsUp
<1>12. up \in [Nodes -> Nat]
  <2> DEFINE Bad == {m \in Nodes : up[m] \notin Nat}
  <2>1. CASE Bad # {}
    <3>1. PICK m \in Bad : Node[m].parent \notin Bad
      BY <2>1, TreeEnds
    <3>2. Node[m].parent = "none" \/ up[Node[m].parent] \in Nat
      BY <3>1, CheckoutAssumption
    <3>3. up[m] \in Nat
      <4>1. 0 \in Nat /\ MaxDepth + 1 \in Nat
        BY CheckoutAssumption
      <4>2. \/ up[m] \in {0, MaxDepth + 1}
            \/ Node[m].parent # "none" /\ up[m] = 1 + up[Node[m].parent]
        BY <1>9, <3>1
      <4>. QED
        BY <3>2, <4>1, <4>2
    <3>. QED
      BY <3>3
  <2>2. CASE Bad = {}
    <3>1. \A m \in Nodes : up[m] \in Nat
      BY <2>2
    <3>. QED
      BY <1>9, <3>1
  <2>. QED
    BY <2>1, <2>2
<1>. QED
  BY <1>10, <1>11, <1>12

(* What a search finds below a place inside the workspace is inside. *)
LEMMA FoundInside ==
    ASSUME NEW start \in Nodes, InsideWorkspace(start),
           NEW n \in Nodes, FoundAt(start, n) <= MaxDepth
    PROVE  InsideWorkspace(n)
<1>1. PICK above : WaysUp(above) /\ \A m : InsideWorkspace(m) <=> "ws" \in above[m]
  BY InsideIs
<1>2. PICK up \in [Nodes -> Nat] : StepsUp(start, up) /\ \A m : FoundAt(start, m) = up[m]
  BY FoundAtIs
<1>3. MaxDepth \in Nat
  BY CheckoutAssumption
<1> DEFINE Bad == {m \in Nodes : up[m] <= MaxDepth /\ "ws" \notin above[m]}
<1>4. ASSUME NEW m \in Bad, Node[m].parent \notin Bad PROVE FALSE
  <2>1. m # start
    BY <1>1
  <2>2. /\ Node[m].parent # "none" /\ Node[m].kind # "link"
        /\ Node[m].name \notin SkippedNames
    BY <1>2, <1>3, <2>1 DEF StepsUp
  <2>3. Node[m].parent \in Nodes
    BY <2>2, CheckoutAssumption
  <2>4. up[m] = 1 + up[Node[m].parent]
    BY <1>2, <2>1, <2>2 DEF StepsUp
  <2>5. up[Node[m].parent] <= MaxDepth
    BY <1>2, <1>3, <2>3, <2>4
  <2>6. "ws" \in above[Node[m].parent]
    BY <1>4, <2>3, <2>5
  <2>7. above[m] = {m} \cup above[Node[m].parent]
    BY <1>1, <2>2 DEF WaysUp
  <2>. QED
    BY <2>6, <2>7
<1>5. Bad = {}
  BY <1>4, TreeEnds
<1>. QED
  BY <1>1, <1>2, <1>5

-----------------------------------------------------------------------------
(* A path leads to a node or nowhere. *)
Places == Nodes \cup {Outside}

LEMMA DescendPlace ==
    ASSUME NEW n \in Places, NEW name PROVE Descend(n, name) \in Places
<1>1. Child(n, name) \in Places
  BY DEF Child, Places
<1>2. CASE n = Outside \/ Node[n].kind # "dir"
  BY <1>2 DEF Descend, Places
<1>3. CASE ~(n = Outside \/ Node[n].kind # "dir")
  <2>1. PICK m : m = Child(n, name) /\ m \in Places
    BY <1>1
  <2>2. Descend(n, name) = IF m # Outside /\ Node[m].kind = "link" THEN Node[m].target ELSE m
    BY <1>3, <2>1 DEF Descend
  <2>3. m # Outside => Node[m].target \in Places
    BY <2>1, CheckoutAssumption DEF Places, Outside
  <2>. QED
    BY <2>1, <2>2, <2>3
<1>. QED
  BY <1>2, <1>3

LEMMA CanonicalPlace ==
    ASSUME NEW parts, Len(parts) \in Nat
    PROVE  Canonicalize(parts) \in Places
<1>1. PICK n : n = Len(parts) /\ n \in Nat
  OBVIOUS
<1>2. PICK g : GoneThrough(<<"path">>, parts, n, g)
  BY <1>1, PrefixesExist
<1> DEFINE at[i \in 0..Len(parts)] ==
        IF i = 0 THEN "ws" ELSE Descend(at[i - 1], parts[i])
<1>3. at = [i \in 0..Len(parts) |->
        IF i = 0 THEN "ws" ELSE Descend(at[i - 1], parts[i])]
  <2>1. g = [i \in 0..Len(parts) |->
          IF i = 0 THEN "ws" ELSE Descend(g[i - 1], parts[i])]
    BY <1>1, <1>2 DEF GoneThrough, Base, Along
  <2>. QED
    BY <2>1 DEF at
<1>4. Canonicalize(parts) = at[n]
  BY <1>1 DEF Canonicalize
<1> HIDE DEF at
<1>5. \A i \in 0..n : at[i] = IF i = 0 THEN "ws" ELSE Descend(at[i - 1], parts[i])
  BY <1>1, <1>3
<1> DEFINE Bad == {i \in 0..n : at[i] \notin Places}
<1>6. Bad = {}
  <2> SUFFICES ASSUME Bad # {} PROVE FALSE
    OBVIOUS
  <2>1. PICK m \in Bad : \A d \in Bad : m <= d
    <3>1. Bad \in SUBSET Nat
      BY <1>1
    <3>. QED
      BY <3>1, LeastOf
  <2>2. m # 0
    <3>1. 0 \in 0..n
      BY <1>1
    <3>. QED
      BY <1>5, <2>1, <3>1, CheckoutAssumption DEF Places
  <2>3. m - 1 \in 0..n /\ ~(m <= m - 1)
    BY <1>1, <2>1, <2>2
  <2>4. at[m - 1] \in Places
    BY <2>1, <2>3
  <2>5. at[m] = Descend(at[m - 1], parts[m])
    BY <1>5, <2>1, <2>2
  <2>. QED
    BY <2>1, <2>4, <2>5, DescendPlace
<1>. QED
  BY <1>1, <1>4, <1>6

LEMMA ResolvedInside ==
    ASSUME NEW request \in Requests, NEW n, n = ResolveInside(request),
           n \notin {"escape", Outside}
    PROVE  n \in Nodes /\ InsideWorkspace(n)
<1>1. Len(request.parts) \in Nat
  BY CheckoutAssumption
<1>2. Canonicalize(request.parts) \in Places
  BY <1>1, CanonicalPlace
<1>. QED
  BY <1>2 DEF ResolveInside, Places

(* What the property says of an answer. *)
True(a) ==
    /\ \A h \in a.hits : /\ Node[h[1]].kind = "file" /\ InsideWorkspace(h[1])
                         /\ Len(Node[h[1]].lines) <= FileCap
    /\ a.tool = "read" =>
          /\ Cardinality(a.hits) <= ReadCap
          /\ (~a.cut /\ 1 <= a.from /\ a.from <= a.to) =>
                \A i \in 1..Len(Node[a.node].lines) :
                    <<a.node, i>> \in a.hits <=> a.from <= i /\ i <= a.to
    /\ a.tool = "search" =>
          /\ Cardinality(a.hits) <= MaxHits
          /\ \A h \in a.hits : Node[h[1]].lines[h[2]]
          /\ ~a.cut => \A n \in Searched(a.node) : Matches(n) \subseteq a.hits

LEMMA NoAnswerTrue == True(NoAnswer)
BY DEF True, NoAnswer

LEMMA IntervalSize ==
    ASSUME NEW a \in Nat, NEW b \in Nat
    PROVE  IsFiniteSet(a..b) /\ Cardinality(a..b) = IF a > b THEN 0 ELSE b - a + 1
<1>1. a \in Int /\ b \in Int
  OBVIOUS
<1>. QED
  BY <1>1, FS_Interval

(* Lines of one file, as many as the cap. *)
LEMMA CapHolds ==
    ASSUME NEW n, NEW first \in Nat, NEW hits,
           hits \subseteq {n} \X (first..(first + ReadCap - 1)), 1 <= first
    PROVE  Cardinality(hits) <= ReadCap
<1>1. PICK last : last = first + ReadCap - 1 /\ last \in Nat /\ ReadCap \in Nat
  BY CheckoutAssumption
<1>2. IsFiniteSet(first..last) /\ Cardinality(first..last) = ReadCap
  <2>1. IsFiniteSet(first..last) /\ Cardinality(first..last) = IF first > last THEN 0 ELSE last - first + 1
    BY <1>1, IntervalSize
  <2>. QED
    BY <1>1, <2>1
<1>3. IsFiniteSet({n}) /\ Cardinality({n}) = 1
  BY FS_Singleton
<1>4. PICK S, T, k : S = {n} /\ T = first..last /\ k = Cardinality(T)
  OBVIOUS
<1>5. IsFiniteSet(S \X T) /\ Cardinality(S \X T) = ReadCap
  <2>1. IsFiniteSet(S \X T) /\ Cardinality(S \X T) = Cardinality(S) * Cardinality(T)
    BY <1>2, <1>3, <1>4, FS_Product
  <2>2. Cardinality(S) = 1 /\ Cardinality(T) = ReadCap
    BY <1>2, <1>3, <1>4
  <2>. QED
    BY <1>1, <2>1, <2>2
<1>6. hits \in SUBSET (S \X T)
  BY <1>1, <1>4
<1>. QED
  BY <1>5, <1>6, FS_Subset

LEMMA ReadTrue ==
    ASSUME NEW request \in Requests, NEW start \in Nat, NEW end \in Nat
    PROVE  True(ReadFile(request, start, end))
<1>1. PICK n : n = ResolveInside(request)
  OBVIOUS
<1>2. CASE \/ n \in {"escape", Outside}
           \/ Node[n].kind # "file" \/ Len(Node[n].lines) > FileCap
  <2>1. ReadFile(request, start, end) = NoAnswer
    BY <1>1, <1>2 DEF ReadFile
  <2>. QED
    BY <2>1, NoAnswerTrue
<1>3. CASE /\ n \notin {"escape", Outside}
           /\ Node[n].kind = "file" /\ ~(Len(Node[n].lines) > FileCap)
  <2>1. n \in Nodes /\ InsideWorkspace(n)
    BY <1>1, <1>3, ResolvedInside
  <2>2. PICK len : len = Len(Node[n].lines) /\ len \in Nat /\ len <= FileCap
    <3>1. Len(Node[n].lines) \in Nat /\ FileCap \in Nat
      BY <2>1, CheckoutAssumption
    <3>. QED
      BY <1>3, <3>1
  <2> DEFINE total == Max({Len(Node[n].lines), 1})
             first == IF start >= 1 /\ end >= start THEN start ELSE 1
             last == IF start >= 1 /\ end >= start THEN Min({end, total}) ELSE total
             shown == {i \in first..last : i <= Len(Node[n].lines)}
             a == ReadFile(request, start, end)
  <2>3. a = [tool |-> "read", node |-> n, from |-> start, to |-> end,
             cut |-> Cardinality(shown) > ReadCap,
             hits |-> {<<n, i>> : i \in {k \in shown : k < first + ReadCap}}]
    BY <1>1, <1>3 DEF ReadFile
  <2> HIDE DEF a
  <2>4. /\ a.tool = "read" /\ a.node = n /\ a.from = start /\ a.to = end
        /\ a.cut = (Cardinality(shown) > ReadCap)
        /\ a.hits = {<<n, i>> : i \in {k \in shown : k < first + ReadCap}}
    BY <2>3
  <2>5. total \in Nat /\ total = IF len <= 1 THEN 1 ELSE len
    BY <2>2, MaxOfTwo
  <2> HIDE DEF total
  <2>6. first \in Nat /\ 1 <= first /\ last \in Nat
    BY <2>5, MinOfTwo
  <2>7. (1 <= start /\ start <= end) => first = start /\ last = IF end <= total THEN end ELSE total
    BY <2>5, MinOfTwo
  <2> HIDE DEF first, last
  <2>8. ReadCap \in Nat
    BY CheckoutAssumption
  <2>9. a.hits \subseteq {n} \X (first..(first + ReadCap - 1))
    BY <2>2, <2>4, <2>6, <2>8
  <2>10. Cardinality(a.hits) <= ReadCap
    BY <2>6, <2>9, CapHolds
  <2>11. \A h \in a.hits : h[1] = n
    BY <2>4
  <2>12. ASSUME ~a.cut, 1 <= start, start <= end, NEW i \in 1..len
         PROVE  <<n, i>> \in a.hits <=> start <= i /\ i <= end
    <3>1. first = start /\ last = IF end <= total THEN end ELSE total
      BY <2>7, <2>12
    <3>2. PICK upper : upper = (IF last <= len THEN last ELSE len) /\ upper \in Nat
      BY <2>2, <2>6
    <3>3. shown = first..upper
      BY <2>2, <2>6, <3>2
    <3>4. ~(Cardinality(first..upper) > ReadCap)
      BY <2>4, <2>12, <3>3
    <3>5. Cardinality(first..upper) = IF first > upper THEN 0 ELSE upper - first + 1
      BY <2>6, <3>2, IntervalSize
    <3>6. \A k \in first..upper : k < first + ReadCap
      BY <2>6, <2>8, <3>2, <3>4, <3>5
    <3>7. <<n, i>> \in a.hits <=> i \in first..upper
      BY <2>4, <3>3, <3>6
    <3>8. i \in first..upper <=> start <= i /\ i <= end
      BY <2>2, <2>5, <2>6, <3>1, <3>2
    <3>. QED
      BY <3>7, <3>8
  <2> HIDE DEF shown
  <2>13. True(a)
    BY <1>3, <2>1, <2>2, <2>4, <2>10, <2>11, <2>12 DEF True
  <2>. QED
    BY <2>13 DEF a
<1>. QED
  BY <1>2, <1>3

LEMMA SearchTrue ==
    ASSUME NEW request \in Requests, NEW a \in Searches(request)
    PROVE  True(a)
<1>1. PICK n, all : n = ResolveInside(request) /\ all = UNION {Matches(m) : m \in Searched(n)}
  OBVIOUS
<1>2. CASE n \in {"escape", Outside}
  <2>1. a = NoAnswer
    BY <1>1, <1>2 DEF Searches
  <2>. QED
    BY <2>1, NoAnswerTrue
<1>3. CASE n \notin {"escape", Outside}
  <2>1. n \in Nodes /\ InsideWorkspace(n)
    BY <1>1, <1>3, ResolvedInside
  <2>2. MaxHits \in Nat /\ FileCap \in Nat
    BY CheckoutAssumption
  <2>3. ASSUME NEW h \in all
        PROVE  /\ Node[h[1]].kind = "file" /\ InsideWorkspace(h[1])
               /\ Len(Node[h[1]].lines) <= FileCap /\ Node[h[1]].lines[h[2]]
               /\ h \in Nodes \X (1..FileCap)
    <3>1. PICK m \in Searched(n) : h \in Matches(m)
      BY <1>1, <2>3
    <3>2. m \in Nodes /\ Node[m].kind = "file" /\ FoundAt(n, m) <= MaxDepth
      BY <3>1 DEF Searched
    <3>3. InsideWorkspace(m)
      BY <2>1, <3>2, FoundInside
    <3>4. PICK len : len = Len(Node[m].lines) /\ len \in Nat
      <4>1. Node[m].lines \in Seq(BOOLEAN)
        BY <3>2, CheckoutAssumption
      <4>. QED
        BY <4>1
    <3>5. ~(len > FileCap)
      BY <3>1, <3>4 DEF Matches
    <3>6. PICK k \in 1..len : h = <<m, k>> /\ Node[m].lines[k]
      BY <3>1, <3>4, <3>5 DEF Matches
    <3>7. h[1] = m /\ h[2] = k /\ k \in 1..FileCap
      BY <2>2, <3>4, <3>5, <3>6
    <3>8. h \in Nodes \X (1..FileCap)
      BY <3>2, <3>6, <3>7
    <3>. QED
      BY <2>2, <3>2, <3>3, <3>4, <3>5, <3>6, <3>7, <3>8
  <2>4. IsFiniteSet(all) /\ Cardinality(all) \in Nat
    <3>1. PICK T : T = 1..FileCap /\ IsFiniteSet(T)
      BY <2>2, IntervalSize
    <3>2. IsFiniteSet(Nodes \X T)
      BY <3>1, FS_Product, CheckoutAssumption
    <3>3. all \in SUBSET (Nodes \X T)
      BY <2>3, <3>1
    <3>. QED
      BY <3>2, <3>3, FS_Subset, FS_CardinalityType
  <2>5. PICK kept : kept = Min({MaxHits, Cardinality(all)})
    OBVIOUS
  <2>6. kept = IF MaxHits <= Cardinality(all) THEN MaxHits ELSE Cardinality(all)
    BY <2>2, <2>4, <2>5, MinOfTwo
  <2>7. PICK hits \in SUBSET all :
          /\ Cardinality(hits) = kept
          /\ a = [NoAnswer EXCEPT !.tool = "search", !.node = n, !.hits = hits,
                                  !.cut = kept = MaxHits]
    <3> DEFINE N == ResolveInside(request)
               A == UNION {Matches(m) : m \in Searched(N)}
               K == Min({MaxHits, Cardinality(A)})
    <3>1. N = n /\ A = all /\ K = kept
      BY <1>1, <2>5
    <3>2. PICK hits \in {s \in SUBSET A : Cardinality(s) = K} :
            a = [NoAnswer EXCEPT !.tool = "search", !.node = N, !.hits = hits,
                                 !.cut = K = MaxHits]
      BY <1>1, <1>3 DEF Searches
    <3> HIDE DEF N, A, K
    <3>. QED
      BY <3>1, <3>2
  <2>8. /\ a.tool = "search" /\ a.node = n /\ a.hits = hits /\ a.cut = (kept = MaxHits)
    BY <2>7 DEF NoAnswer
  <2>9. Cardinality(a.hits) <= MaxHits
    BY <2>2, <2>4, <2>6, <2>7, <2>8
  <2>10. ~a.cut => hits = all
    BY <2>4, <2>6, <2>7, <2>8, FS_Subset
  <2>11. ~a.cut => \A m \in Searched(n) : Matches(m) \subseteq a.hits
    BY <1>1, <2>8, <2>10
  <2>12. \A h \in a.hits : h \in all
    BY <2>7, <2>8
  <2>. QED
    BY <2>3, <2>8, <2>9, <2>11, <2>12 DEF True
<1>. QED
  BY <1>2, <1>3

AnswerSound ==
    DOMAIN co = {"pc", "at", "config", "chat", "valid", "answer"} /\ True(co.answer)

(* Whatever path and range the model asks for, read_file and search show   *)
(* lines of regular files inside the workspace, within the caps, and all   *)
(* that was asked for unless a cap was reached: for every tree, with links *)
(* wherever they lead, every request and every cap.                        *)
THEOREM ToolsTrue == Spec => []ToolsTellTheTruth
<1>1. Init => AnswerSound
  <2> SUFFICES ASSUME Init PROVE AnswerSound
    OBVIOUS
  <2>1. /\ DOMAIN co = {"pc", "at", "config", "chat", "valid", "answer"}
        /\ co.answer = NoAnswer
    BY DEF Init, CheckoutInit
  <2>. QED
    BY <2>1, NoAnswerTrue DEF AnswerSound
<1>2. AnswerSound /\ [Next]_vars => AnswerSound'
  <2> SUFFICES ASSUME AnswerSound, [Next]_vars PROVE AnswerSound'
    OBVIOUS
  <2>1. CASE UNCHANGED co
    BY <2>1 DEF AnswerSound, True
  <2>2. ASSUME NEW a, True(a), co' = [co EXCEPT !.answer = a] PROVE AnswerSound'
    <3>1. co'.answer = a /\ DOMAIN co' = DOMAIN co
      BY <2>2 DEF AnswerSound
    <3>. QED
      BY <2>2, <3>1 DEF AnswerSound
  <2>3. CASE UseReadFile
    <3>1. PICK request \in Requests, start \in 0..FileCap + 1, end \in 0..FileCap + 1 :
            co' = [co EXCEPT !.answer = ReadFile(request, start, end)]
      BY <2>3 DEF UseReadFile
    <3>2. start \in Nat /\ end \in Nat
      BY <3>1, CheckoutAssumption
    <3>. QED
      BY <2>2, <3>1, <3>2, ReadTrue
  <2>4. CASE UseSearch
    <3>1. PICK request \in Requests : \E a \in Searches(request) :
            co' = [co EXCEPT !.answer = a]
      BY <2>4 DEF UseSearch
    <3>. QED
      BY <2>2, <3>1, SearchTrue
  <2>5. CASE PrepareStep \/ ConfigStep
    <3>1. co'.answer = co.answer /\ DOMAIN co' = DOMAIN co
      BY <2>5 DEF AnswerSound, PrepareStep, ConfigStep, CreateTempDir, GitClone, GitFetch,
                  GitCheckout, DropWorkspace, LoadConfig, LoadConfigForChat,
                  RunValidateConfig, Co
    <3>. QED
      BY <3>1 DEF AnswerSound
  <2>. QED
    BY <2>1, <2>3, <2>4, <2>5
       DEF Next, HooksNext, GithubNext, BenchNext, CostNext, CheckoutNext, SetupNext,
           ToolStep, checkoutVars, vars
<1>3. AnswerSound => ToolsTellTheTruth
  BY DEF AnswerSound, True, ToolsTellTheTruth
<1>. QED
  BY <1>1, <1>2, <1>3, PTL DEF Spec

-----------------------------------------------------------------------------
(* The cost of a review.                                                   *)

Files == {"unreadable", "overrides"}
UseRec == [in : Nat, out : Nat]
EntryRec == [tier : Provided, in : Nat, out : Nat, read : BOOLEAN]
BillRec == [price : Nat, used : [Tiers -> UseRec]]

LEMMA Aggregates ==
    ASSUME NEW tier, NEW log, Len(log) \in Nat
    PROVE  \E g : /\ GoneThrough(<<"sum", tier>>, log, Len(log), g)
                  /\ Aggregated(log, tier) = g[Len(log)]
<1>1. PICK g : GoneThrough(<<"sum", tier>>, log, Len(log), g)
  BY PrefixesExist
<1> DEFINE sum[i \in 0..Len(log)] ==
        IF i = 0 THEN Nothing
        ELSE IF log[i].tier = tier THEN Added(sum[i - 1], log[i]) ELSE sum[i - 1]
<1>2. sum = [i \in 0..Len(log) |->
        IF i = 0 THEN Nothing
        ELSE IF log[i].tier = tier THEN Added(sum[i - 1], log[i]) ELSE sum[i - 1]]
  <2>1. g = [i \in 0..Len(log) |->
          IF i = 0 THEN Nothing
          ELSE IF log[i].tier = tier THEN Added(g[i - 1], log[i]) ELSE g[i - 1]]
    BY <1>1 DEF GoneThrough, Base, Along
  <2>. QED
    BY <2>1 DEF sum
<1>3. Aggregated(log, tier) = sum[Len(log)]
  BY DEF Aggregated
<1> HIDE DEF sum
<1>4. GoneThrough(<<"sum", tier>>, log, Len(log), sum)
  BY <1>2 DEF GoneThrough, Base, Along
<1>. QED
  BY <1>3, <1>4

LEMMA BillIs ==
    ASSUME NEW file, NEW entries, Len(entries) \in Nat
    PROVE  \E g : /\ GoneThrough(<<"bill", file>>, entries, Len(entries), g)
                  /\ Bill(entries, file) = g[Len(entries)]
<1>1. PICK g : GoneThrough(<<"bill", file>>, entries, Len(entries), g)
  BY PrefixesExist
<1> DEFINE bill[i \in 0..Len(entries)] ==
        IF i = 0 THEN NoBill ELSE Billed(bill[i - 1], entries[i], file)
<1>2. bill = [i \in 0..Len(entries) |->
        IF i = 0 THEN NoBill ELSE Billed(bill[i - 1], entries[i], file)]
  <2>1. g = [i \in 0..Len(entries) |->
          IF i = 0 THEN NoBill ELSE Billed(g[i - 1], entries[i], file)]
    BY <1>1 DEF GoneThrough, Base, Along
  <2>. QED
    BY <2>1 DEF bill
<1>3. Bill(entries, file) = bill[Len(entries)]
  BY DEF Bill
<1> HIDE DEF bill
<1>4. GoneThrough(<<"bill", file>>, entries, Len(entries), bill)
  BY <1>2 DEF GoneThrough, Base, Along
<1>. QED
  BY <1>3, <1>4

LEMMA StartAtZero ==
    ASSUME NEW what, NEW g, GoneThrough(what, << >>, 0, g)
    PROVE  g[0] = Base(what)
BY DEF GoneThrough

LEMMA NothingYet ==
    /\ \A t : Aggregated(<< >>, t) = Nothing
    /\ \A file : Bill(<< >>, file) = NoBill
<1>1. Len(<< >>) = 0 /\ 0 \in Nat
  OBVIOUS
<1>2. ASSUME NEW t PROVE Aggregated(<< >>, t) = Nothing
  <2>1. PICK g : /\ GoneThrough(<<"sum", t>>, << >>, 0, g)
                 /\ Aggregated(<< >>, t) = g[0]
    BY <1>1, Aggregates
  <2>. QED
    BY <2>1, StartAtZero DEF Base
<1>3. ASSUME NEW file PROVE Bill(<< >>, file) = NoBill
  <2>1. PICK g : /\ GoneThrough(<<"bill", file>>, << >>, 0, g)
                 /\ Bill(<< >>, file) = g[0]
    BY <1>1, BillIs
  <2>. QED
    BY <2>1, StartAtZero DEF Base
<1>. QED
  BY <1>2, <1>3

LEMMA Appended ==
    ASSUME NEW S, NEW list \in Seq(S), NEW e \in S
    PROVE  /\ Append(list, e) \in Seq(S) /\ Len(Append(list, e)) = Len(list) + 1
           /\ Append(list, e)[Len(list) + 1] = e
           /\ \A i \in 1..Len(list) : Append(list, e)[i] = list[i]
OBVIOUS

LEMMA OneMoreAnswer ==
    ASSUME NEW list \in Seq(EntryRec), NEW e \in EntryRec
    PROVE  /\ \A t : Aggregated(Append(list, e), t) =
                        IF e.tier = t THEN Added(Aggregated(list, t), e) ELSE Aggregated(list, t)
           /\ \A file : Bill(Append(list, e), file) = Billed(Bill(list, file), e, file)
<1>1. PICK n : n = Len(list) /\ n \in Nat
  OBVIOUS
<1>2. PICK m : m = n + 1 /\ m \in Nat
  BY <1>1
<1> DEFINE longer == Append(list, e)
<1>3. /\ longer \in Seq(EntryRec) /\ Len(longer) = m /\ longer[m] = e
      /\ \A i \in 1..n : longer[i] = list[i]
  BY <1>1, <1>2, Appended
<1>6. StartsAs(longer, list, n, m)
  BY <1>2, <1>3 DEF StartsAs
<1> HIDE DEF longer
<1>4. ASSUME NEW t
      PROVE  Aggregated(longer, t) =
                IF e.tier = t THEN Added(Aggregated(list, t), e) ELSE Aggregated(list, t)
  <2>1. PICK g : GoneThrough(<<"sum", t>>, list, n, g) /\ Aggregated(list, t) = g[n]
    BY <1>1, Aggregates
  <2>2. PICK h : GoneThrough(<<"sum", t>>, longer, m, h) /\ Aggregated(longer, t) = h[m]
    BY <1>3, <1>2, Aggregates
  <2>3. h[m] = Along(<<"sum", t>>, g[n], longer[m])
    BY <1>1, <1>6, <2>1, <2>2, OneMoreStep
  <2>. QED
    BY <1>3, <2>1, <2>2, <2>3 DEF Along
<1>5. ASSUME NEW file PROVE Bill(longer, file) = Billed(Bill(list, file), e, file)
  <2>1. PICK g : GoneThrough(<<"bill", file>>, list, n, g) /\ Bill(list, file) = g[n]
    BY <1>1, BillIs
  <2>2. PICK h : GoneThrough(<<"bill", file>>, longer, m, h) /\ Bill(longer, file) = h[m]
    BY <1>3, <1>2, BillIs
  <2>3. h[m] = Along(<<"bill", file>>, g[n], longer[m])
    BY <1>1, <1>6, <2>1, <2>2, OneMoreStep
  <2>. QED
    BY <1>3, <2>1, <2>2, <2>3 DEF Along
<1>. QED
  BY <1>4, <1>5 DEF longer

(* A price is so much for each token. *)
LEMMA Rates ==
    ASSUME NEW t, NEW file
    PROVE  \E i, o \in Nat : \A u : u.in \in Nat /\ u.out \in Nat =>
              EstimateUsageUsd(PriceTable(file), t, u) = u.in * i + u.out * o
<1>1. PICK prices : prices = PriceTable(file)
  OBVIOUS
<1>2. \A key \in DOMAIN prices : prices[key].input \in Nat /\ prices[key].output \in Nat
  BY <1>1, CostAssumption DEF PriceTable
<1> DEFINE own == ModelOf[t]
           bare == [own EXCEPT !.url = "none"]
           key == IF own \in DOMAIN prices THEN own ELSE bare
<1>3. \A u : EstimateUsageUsd(prices, t, u) =
         IF key \notin DOMAIN prices THEN 0
         ELSE u.in * prices[key].input + u.out * prices[key].output
  BY DEF EstimateUsageUsd
<1> HIDE DEF key
<1>4. CASE key \in DOMAIN prices
  BY <1>1, <1>2, <1>3, <1>4
<1>5. CASE key \notin DOMAIN prices
  <2>1. \A a, b \in Nat : 0 = a * 0 + b * 0
    OBVIOUS
  <2>2. \A u : u.in \in Nat /\ u.out \in Nat =>
           EstimateUsageUsd(PriceTable(file), t, u) = u.in * 0 + u.out * 0
    BY <1>1, <1>3, <1>5, <2>1
  <2>. QED
    BY <2>2
<1>. QED
  BY <1>4, <1>5

LEMMA PriceIsNat ==
    ASSUME NEW t, NEW file, NEW u, u.in \in Nat, u.out \in Nat
    PROVE  EstimateUsageUsd(PriceTable(file), t, u) \in Nat
<1>1. PICK i, o \in Nat : \A x : x.in \in Nat /\ x.out \in Nat =>
         EstimateUsageUsd(PriceTable(file), t, x) = x.in * i + x.out * o
  BY Rates
<1>. QED
  BY <1>1

LEMMA PriceAdds ==
    ASSUME NEW t, NEW file, NEW u \in UseRec, NEW e, e.in \in Nat, e.out \in Nat,
           NEW v, v = [in |-> u.in + e.in, out |-> u.out + e.out]
    PROVE  EstimateUsageUsd(PriceTable(file), t, v) =
              EstimateUsageUsd(PriceTable(file), t, u) + EstimateUsageUsd(PriceTable(file), t, e)
<1>1. PICK i, o \in Nat : \A x : x.in \in Nat /\ x.out \in Nat =>
         EstimateUsageUsd(PriceTable(file), t, x) = x.in * i + x.out * o
  BY Rates
<1>2. u.in \in Nat /\ u.out \in Nat /\ v.in = u.in + e.in /\ v.out = u.out + e.out
  BY DEF UseRec
<1>3. v.in \in Nat /\ v.out \in Nat
  BY <1>2
<1>4. \A a, b, c, d \in Nat : (a + b) * i + (c + d) * o = (a * i + c * o) + (b * i + d * o)
  OBVIOUS
<1>. QED
  BY <1>1, <1>2, <1>3, <1>4

LEMMA PriceGrows ==
    ASSUME NEW t, NEW file, NEW u, NEW v, u.in \in Nat, u.out \in Nat, v.in \in Nat,
           v.out \in Nat, u.in <= v.in, u.out <= v.out
    PROVE  EstimateUsageUsd(PriceTable(file), t, u) <= EstimateUsageUsd(PriceTable(file), t, v)
<1>1. PICK i, o \in Nat : \A x : x.in \in Nat /\ x.out \in Nat =>
         EstimateUsageUsd(PriceTable(file), t, x) = x.in * i + x.out * o
  BY Rates
<1>2. \A a, b, p \in Nat : a <= b => a * p <= b * p
  OBVIOUS
<1>3. u.in * i <= v.in * i /\ u.out * o <= v.out * o
  BY <1>2
<1>4. u.in * i \in Nat /\ v.in * i \in Nat /\ u.out * o \in Nat /\ v.out * o \in Nat
  OBVIOUS
<1>. QED
  BY <1>1, <1>3, <1>4

(* A bill is the price of what was used. *)
CostOf(t, u, file) == IF t \in Provided THEN EstimateUsageUsd(PriceTable(file), t, u) ELSE 0
Whole(used, file) ==
    CostOf("reasoning", used["reasoning"], file) + CostOf("cheap", used["cheap"], file)
        + CostOf("embedding", used["embedding"], file)
BillSound(bill, file) == bill \in BillRec /\ bill.price = Whole(bill.used, file)

LEMMA CostIsNat ==
    ASSUME NEW t, NEW file, NEW u, u.in \in Nat, u.out \in Nat
    PROVE  CostOf(t, u, file) \in Nat
BY PriceIsNat DEF CostOf

LEMMA NothingOwed == ASSUME NEW file PROVE BillSound(NoBill, file)
<1>1. \A t : CostOf(t, Nothing, file) = 0
  <2> SUFFICES ASSUME NEW t PROVE CostOf(t, Nothing, file) = 0
    OBVIOUS
  <2>1. PICK i, o \in Nat : \A x : x.in \in Nat /\ x.out \in Nat =>
           EstimateUsageUsd(PriceTable(file), t, x) = x.in * i + x.out * o
    BY Rates
  <2>2. Nothing.in = 0 /\ Nothing.out = 0
    BY DEF Nothing
  <2>3. 0 * i + 0 * o = 0
    BY <2>1
  <2>. QED
    BY <2>1, <2>2, <2>3 DEF CostOf
<1>2. Nothing \in UseRec
  BY DEF Nothing, UseRec
<1> DEFINE used == [t \in Tiers |-> Nothing]
<1>3. used \in [Tiers -> UseRec] /\ \A t \in Tiers : used[t] = Nothing
  BY <1>2
<1>4. Whole(used, file) = 0
  BY <1>1, <1>3 DEF Whole, Tiers
<1> HIDE DEF used
<1>5. NoBill = [price |-> 0, used |-> used]
  BY DEF NoBill, used
<1>. QED
  BY <1>3, <1>4, <1>5 DEF BillSound, BillRec

LEMMA BillGoesOn ==
    ASSUME NEW file, NEW bill, BillSound(bill, file), NEW e \in EntryRec
    PROVE  BillSound(Billed(bill, e, file), file)
<1>1. CASE ~e.read \/ e.tier = "embedding"
  BY <1>1 DEF Billed
<1>2. CASE e.read /\ e.tier # "embedding"
  <2>1. /\ bill.price \in Nat /\ bill.used \in [Tiers -> UseRec]
        /\ bill.price = Whole(bill.used, file)
    BY DEF BillSound, BillRec
  <2>2. e.tier \in Provided /\ e.tier \in Tiers /\ e.in \in Nat /\ e.out \in Nat
    BY CostAssumption DEF EntryRec
  <2>3. PICK t, own, more, used, new :
          /\ t = e.tier /\ used = bill.used /\ own = used[t]
          /\ more = [in |-> own.in + e.in, out |-> own.out + e.out]
          /\ new = [used EXCEPT ![t] = more]
    OBVIOUS
  <2>4. own \in UseRec /\ own.in \in Nat /\ own.out \in Nat
    BY <2>1, <2>2, <2>3 DEF UseRec
  <2>5. more \in UseRec /\ more.in \in Nat /\ more.out \in Nat
    BY <2>2, <2>3, <2>4 DEF UseRec
  <2>6. /\ new \in [Tiers -> UseRec] /\ new[t] = more
        /\ \A q \in Tiers : q # t => new[q] = used[q]
    BY <2>1, <2>2, <2>3, <2>5
  <2>7. PICK p : p = EstimateUsageUsd(PriceTable(file), t, e) /\ p \in Nat
    BY <2>2, PriceIsNat
  <2>8. CostOf(t, more, file) = CostOf(t, own, file) + p
    <3>1. EstimateUsageUsd(PriceTable(file), t, more) =
            EstimateUsageUsd(PriceTable(file), t, own) + EstimateUsageUsd(PriceTable(file), t, e)
      BY <2>2, <2>3, <2>4, PriceAdds
    <3>. QED
      BY <2>2, <2>3, <2>7, <3>1 DEF CostOf
  <2>9. PICK next : next = Billed(bill, e, file)
    OBVIOUS
  <2>10. next = [price |-> bill.price + p, used |-> new]
    BY <1>2, <2>3, <2>7, <2>9 DEF Billed
  <2>11. \A q \in Tiers : CostOf(q, used[q], file) \in Nat
    <3>1. \A q \in Tiers : used[q].in \in Nat /\ used[q].out \in Nat
      BY <2>1, <2>3 DEF UseRec
    <3>. QED
      BY <3>1, CostIsNat
  <2>12. Whole(new, file) = Whole(used, file) + p
    <3>1. PICK a, b, c : /\ a = CostOf("reasoning", used["reasoning"], file)
                         /\ b = CostOf("cheap", used["cheap"], file)
                         /\ c = CostOf("embedding", used["embedding"], file)
      OBVIOUS
    <3>2. a \in Nat /\ b \in Nat /\ c \in Nat
      BY <2>11, <3>1 DEF Tiers
    <3>3. CASE t = "reasoning"
      <4>1. Whole(new, file) = (a + p) + b + c /\ Whole(used, file) = a + b + c
        BY <2>3, <2>6, <2>8, <3>1, <3>3 DEF Whole, Tiers
      <4>. QED
        BY <2>7, <3>2, <4>1
    <3>4. CASE t = "cheap"
      <4>1. Whole(new, file) = a + (b + p) + c /\ Whole(used, file) = a + b + c
        BY <2>3, <2>6, <2>8, <3>1, <3>4 DEF Whole, Tiers
      <4>. QED
        BY <2>7, <3>2, <4>1
    <3>. QED
      BY <1>2, <2>2, <2>3, <3>3, <3>4 DEF Tiers
  <2>13. next.price = bill.price + p /\ next.used = new /\ next \in BillRec
    BY <2>1, <2>6, <2>7, <2>10 DEF BillRec
  <2>. QED
    BY <2>1, <2>3, <2>9, <2>12, <2>13 DEF BillSound
<1>. QED
  BY <1>1, <1>2

(* The log has the sums of the bill, but for the limit of a u32. *)
Limited(n) == IF n > U32Max THEN U32Max ELSE n
Kept(u) == [in |-> Limited(u.in), out |-> Limited(u.out)]
Follows(log, entries) ==
    \A t \in Tiers, file \in Files : Aggregated(log, t) = Kept(Bill(entries, file).used[t])

LEMMA LimitLater ==
    ASSUME NEW a \in Nat, NEW b \in Nat
    PROVE  SaturatingAdd(Limited(a), b) = Limited(a + b)
<1>1. U32Max \in Nat
  BY CostAssumption
<1>. QED
  BY <1>1 DEF SaturatingAdd, Limited

LEMMA KeptAdds ==
    ASSUME NEW u \in UseRec, NEW e \in EntryRec
    PROVE  Added(Kept(u), e) = Kept([in |-> u.in + e.in, out |-> u.out + e.out])
<1>1. u.in \in Nat /\ u.out \in Nat /\ e.in \in Nat /\ e.out \in Nat
  BY DEF UseRec, EntryRec
<1>2. /\ SaturatingAdd(Limited(u.in), e.in) = Limited(u.in + e.in)
      /\ SaturatingAdd(Limited(u.out), e.out) = Limited(u.out + e.out)
  BY <1>1, LimitLater
<1>. QED
  BY <1>2 DEF Added, Kept

LEMMA FollowsOn ==
    ASSUME NEW log \in Seq(EntryRec), NEW entries \in Seq(EntryRec), Follows(log, entries),
           \A file \in Files : BillSound(Bill(entries, file), file),
           NEW e \in EntryRec, NEW after,
           after = IF ~e.read \/ e.tier = "embedding" THEN log ELSE Append(log, e)
    PROVE  Follows(after, Append(entries, e)) /\ after \in Seq(EntryRec)
<1>1. after \in Seq(EntryRec)
  OBVIOUS
<1>2. ASSUME NEW t \in Tiers, NEW file \in Files
      PROVE  Aggregated(after, t) = Kept(Bill(Append(entries, e), file).used[t])
  <2>1. PICK bill, next : bill = Bill(entries, file) /\ next = Bill(Append(entries, e), file)
    OBVIOUS
  <2>2. next = Billed(bill, e, file)
    BY <2>1, OneMoreAnswer
  <2>3. Aggregated(log, t) = Kept(bill.used[t])
    BY <1>2, <2>1 DEF Follows
  <2>4. bill.used \in [Tiers -> UseRec]
    BY <2>1 DEF BillSound, BillRec
  <2>5. CASE ~e.read \/ e.tier = "embedding"
    BY <2>1, <2>2, <2>3, <2>5 DEF Billed
  <2>6. CASE ~(~e.read \/ e.tier = "embedding")
    <3>1. PICK own, more : own = bill.used[e.tier]
                            /\ more = [in |-> own.in + e.in, out |-> own.out + e.out]
      OBVIOUS
    <3>2. next.used = [bill.used EXCEPT ![e.tier] = more]
      BY <2>2, <2>6, <3>1 DEF Billed
    <3>3. Aggregated(after, t) =
            IF e.tier = t THEN Added(Aggregated(log, t), e) ELSE Aggregated(log, t)
      BY <2>6, OneMoreAnswer
    <3>4. CASE e.tier = t
      <4>1. next.used[t] = more /\ own \in UseRec
        BY <2>4, <3>1, <3>2, <3>4
      <4>2. Added(Kept(own), e) = Kept(more)
        BY <3>1, <4>1, KeptAdds
      <4>. QED
        BY <2>1, <2>3, <3>1, <3>3, <3>4, <4>1, <4>2
    <3>5. CASE e.tier # t
      <4>1. next.used[t] = bill.used[t]
        BY <2>4, <3>2, <3>5
      <4>. QED
        BY <2>1, <2>3, <3>3, <3>5, <4>1
    <3>. QED
      BY <3>4, <3>5
  <2>. QED
    BY <2>5, <2>6
<1>. QED
  BY <1>1, <1>2 DEF Follows

(* What holds of a review and of what the providers answered to it. *)
SpendFields == {"pc", "tier", "calls", "log", "total", "table"}
TotalRight(total, bill) == total <= bill.price /\ (Full(bill) \/ total = bill.price)

SpendSound(s, entries) ==
    /\ DOMAIN s = SpendFields
    /\ s.log \in Seq(EntryRec) /\ entries \in Seq(EntryRec)
    /\ \A file \in Files : BillSound(Bill(entries, file), file)
    /\ s.pc = "asking" => s.tier \in Provided
    /\ s.pc = "idle" => s.log = << >>
    /\ s.pc \in {"idle", "running", "asking"} => Follows(s.log, entries)
    /\ s.pc \in {"record", "done"} => TotalRight(s.total, Bill(entries, s.table))

RowSound(row, r, s) ==
    row.by = r => s.pc = "done" /\ (backend # "memory" => row.cost = s.total)

CostSound ==
    /\ DOMAIN spend = Reviews /\ DOMAIN invoice = Reviews
    /\ DOMAIN rows = {PrOf[r] : r \in Reviews}
    /\ \A r \in Reviews : SpendSound(spend[r], invoice[r]) /\ RowSound(rows[PrOf[r]], r, spend[r])

(* A review goes on, and the history stays. *)
LEMMA SpendChange ==
    ASSUME CostSound, NEW r \in Reviews, spend[r].pc # "done", NEW s, NEW entries,
           SpendSound(s, entries), spend' = [spend EXCEPT ![r] = s],
           invoice' = [invoice EXCEPT ![r] = entries], UNCHANGED <<rows, backend>>
    PROVE  CostSound'
BY DEF CostSound, RowSound

LEMMA SpendOnly ==
    ASSUME CostSound, NEW r \in Reviews, spend[r].pc # "done", NEW s,
           SpendSound(s, invoice[r]), spend' = [spend EXCEPT ![r] = s],
           UNCHANGED <<invoice, rows, backend>>
    PROVE  CostSound'
BY DEF CostSound, RowSound

(* Up to the post, a review may be anywhere or fail. *)
LEMMA MovesOn ==
    ASSUME NEW s, NEW entries, SpendSound(s, entries), s.pc \in {"idle", "running", "asking"},
           NEW k, DOMAIN k = SpendFields, k.log = s.log,
           k.pc \in {"running", "asking", "failed"}, k.pc = "asking" => k.tier \in Provided
    PROVE  SpendSound(k, entries)
BY DEF SpendSound

LEMMA SurviveSound ==
    ASSUME NEW s, NEW entries, SpendSound(s, entries), s.pc \in {"idle", "running", "asking"},
           NEW pc \in {"running", "failed"}
    PROVE  SpendSound([s EXCEPT !.pc = pc, !.tier = "none"], entries)
<1> DEFINE k == [s EXCEPT !.pc = pc, !.tier = "none"]
<1>1. DOMAIN k = SpendFields /\ k.log = s.log /\ k.pc = pc
  BY DEF SpendSound, SpendFields
<1> HIDE DEF k
<1>2. SpendSound(k, entries)
  BY <1>1, MovesOn
<1>. QED
  BY <1>2 DEF k

LEMMA EntryIs ==
    ASSUME CostSound, NEW r \in Reviews, spend[r].pc = "asking",
           NEW amount \in Amounts, NEW read \in BOOLEAN, NEW e, e = Entry(r, amount, read)
    PROVE  e \in EntryRec /\ e.read = read
<1>1. amount[1] \in Nat /\ amount[2] \in Nat
  BY CostAssumption
<1>2. spend[r].tier \in Provided
  BY DEF CostSound, SpendSound
<1>. QED
  BY <1>1, <1>2 DEF Entry, EntryRec

LEMMA BillsGoOn ==
    ASSUME NEW entries \in Seq(EntryRec), NEW e \in EntryRec,
           \A file \in Files : BillSound(Bill(entries, file), file)
    PROVE  \A file \in Files : BillSound(Bill(Append(entries, e), file), file)
<1> SUFFICES ASSUME NEW file \in Files PROVE BillSound(Bill(Append(entries, e), file), file)
  OBVIOUS
<1>1. PICK bill : bill = Bill(entries, file) /\ BillSound(bill, file)
  OBVIOUS
<1>2. Bill(Append(entries, e), file) = Billed(bill, e, file)
  BY <1>1, OneMoreAnswer
<1>. QED
  BY <1>1, <1>2, BillGoesOn

LEMMA ReadSound ==
    ASSUME CostSound, NEW r \in Reviews, ProviderAnswers(r)
    PROVE  CostSound'
<1>1. PICK amount \in Amounts : /\ Answered(r, Entry(r, amount, TRUE))
                                /\ spend' = Collect(r, Entry(r, amount, TRUE))
  BY DEF ProviderAnswers
<1>2. PICK e : e = Entry(r, amount, TRUE)
  OBVIOUS
<1>3. e \in EntryRec /\ e.read
  BY <1>1, <1>2, EntryIs DEF ProviderAnswers
<1>4. PICK s, log, entries : s = spend[r] /\ log = s.log /\ entries = invoice[r]
  OBVIOUS
<1>5. SpendSound(s, entries) /\ s.pc = "asking"
  BY <1>4 DEF CostSound, ProviderAnswers
<1>6. /\ log \in Seq(EntryRec) /\ entries \in Seq(EntryRec) /\ Follows(log, entries)
      /\ \A file \in Files : BillSound(Bill(entries, file), file)
      /\ DOMAIN s = SpendFields
  BY <1>4, <1>5 DEF SpendSound
<1> DEFINE more == IF e.tier = "embedding" THEN log ELSE Append(log, e)
           k == [s EXCEPT !.pc = "running", !.tier = "none", !.log = more]
           all == Append(entries, e)
<1>7. spend' = [spend EXCEPT ![r] = k] /\ invoice' = [invoice EXCEPT ![r] = all]
  BY <1>1, <1>2, <1>4 DEF Collect, Answered, CostSound
<1>8. Follows(more, all) /\ more \in Seq(EntryRec)
  <2>1. more = IF ~e.read \/ e.tier = "embedding" THEN log ELSE Append(log, e)
    BY <1>3
  <2> HIDE DEF more
  <2>. QED
    BY <1>3, <1>6, <2>1, FollowsOn
<1>9. all \in Seq(EntryRec) /\ \A file \in Files : BillSound(Bill(all, file), file)
  BY <1>3, <1>6, BillsGoOn
<1> HIDE DEF more, all
<1>10. DOMAIN k = SpendFields /\ k.pc = "running" /\ k.log = more
  BY <1>6 DEF SpendFields
<1> HIDE DEF k
<1>11. SpendSound(k, all)
  BY <1>8, <1>9, <1>10 DEF SpendSound
<1>. QED
  BY <1>4, <1>5, <1>7, <1>11, SpendChange DEF ProviderAnswers

LEMMA UnreadSound ==
    ASSUME CostSound, NEW r \in Reviews, ProviderUnreadable(r)
    PROVE  CostSound'
<1>1. PICK amount \in Amounts, pc \in {"running", "failed"} :
        /\ Answered(r, Entry(r, amount, FALSE))
        /\ Spend(r, [spend[r] EXCEPT !.pc = pc, !.tier = "none"])
  BY DEF ProviderUnreadable, Survive
<1>2. PICK e : e = Entry(r, amount, FALSE)
  OBVIOUS
<1>3. e \in EntryRec /\ ~e.read
  BY <1>1, <1>2, EntryIs DEF ProviderUnreadable
<1>4. PICK s, log, entries : s = spend[r] /\ log = s.log /\ entries = invoice[r]
  OBVIOUS
<1>5. SpendSound(s, entries) /\ s.pc = "asking"
  BY <1>4 DEF CostSound, ProviderUnreadable
<1>6. /\ log \in Seq(EntryRec) /\ entries \in Seq(EntryRec) /\ Follows(log, entries)
      /\ \A file \in Files : BillSound(Bill(entries, file), file)
      /\ DOMAIN s = SpendFields
  BY <1>4, <1>5 DEF SpendSound
<1> DEFINE k == [s EXCEPT !.pc = pc, !.tier = "none"]
           all == Append(entries, e)
<1>7. spend' = [spend EXCEPT ![r] = k] /\ invoice' = [invoice EXCEPT ![r] = all]
  BY <1>1, <1>2, <1>4 DEF Spend, Answered, CostSound
<1>8. Follows(log, all)
  BY <1>3, <1>6, FollowsOn
<1>9. all \in Seq(EntryRec) /\ \A file \in Files : BillSound(Bill(all, file), file)
  BY <1>3, <1>6, BillsGoOn
<1> HIDE DEF all
<1>10. DOMAIN k = SpendFields /\ k.pc = pc /\ k.log = log
  BY <1>4, <1>6 DEF SpendFields
<1> HIDE DEF k
<1>11. SpendSound(k, all)
  BY <1>6, <1>8, <1>9, <1>10 DEF SpendSound
<1>. QED
  BY <1>4, <1>5, <1>7, <1>11, SpendChange DEF ProviderUnreadable

(* The total made up from the log is right by the bill. *)
LEMMA TotalSound ==
    ASSUME NEW log, NEW entries, Follows(log, entries), NEW file \in Files,
           BillSound(Bill(entries, file), file)
    PROVE  TotalRight(TotalCost(log, file), Bill(entries, file))
<1>1. PICK bill, used : bill = Bill(entries, file) /\ used = bill.used
  OBVIOUS
<1>2. used \in [Tiers -> UseRec] /\ bill.price = Whole(used, file)
  BY <1>1 DEF BillSound, BillRec
<1>3. U32Max \in Nat
  BY CostAssumption
<1>4. \A t \in Tiers : used[t] \in UseRec /\ used[t].in \in Nat /\ used[t].out \in Nat
  BY <1>2 DEF UseRec
<1>5. \A t \in Tiers : /\ Kept(used[t]).in \in Nat /\ Kept(used[t]).out \in Nat
                       /\ Kept(used[t]).in <= used[t].in /\ Kept(used[t]).out <= used[t].out
  BY <1>3, <1>4 DEF Kept, Limited
<1>6. \A t \in Tiers : Aggregated(log, t) = Kept(used[t])
  BY <1>1 DEF Follows
<1>7. ASSUME NEW t \in Tiers
      PROVE  /\ CostOf(t, Kept(used[t]), file) \in Nat /\ CostOf(t, used[t], file) \in Nat
             /\ CostOf(t, Kept(used[t]), file) <= CostOf(t, used[t], file)
  <2>1. CostOf(t, Kept(used[t]), file) \in Nat /\ CostOf(t, used[t], file) \in Nat
    BY <1>4, <1>5, CostIsNat
  <2>2. EstimateUsageUsd(PriceTable(file), t, Kept(used[t]))
           <= EstimateUsageUsd(PriceTable(file), t, used[t])
    BY <1>4, <1>5, PriceGrows
  <2>. QED
    BY <2>1, <2>2 DEF CostOf
<1>8. TotalCost(log, file) = CostOf("reasoning", Kept(used["reasoning"]), file)
                             + CostOf("cheap", Kept(used["cheap"]), file)
                             + CostOf("embedding", Kept(used["embedding"]), file)
  BY <1>6 DEF TotalCost, CostOf, Tiers
<1>9. TotalCost(log, file) <= bill.price
  BY <1>2, <1>7, <1>8 DEF Whole, Tiers
<1>10. ASSUME ~Full(bill) PROVE TotalCost(log, file) = bill.price
  <2>1. ASSUME NEW t \in Tiers PROVE Kept(used[t]) = used[t]
    <3>1. ~(used[t].in > U32Max) /\ ~(used[t].out > U32Max)
      BY <1>1, <1>10 DEF Full
    <3>2. Kept(used[t]) = [in |-> used[t].in, out |-> used[t].out]
      BY <3>1 DEF Kept, Limited
    <3>. QED
      BY <1>4, <3>2 DEF UseRec
  <2>. QED
    BY <1>2, <1>8, <2>1 DEF Whole, Tiers
<1>. QED
  BY <1>1, <1>9, <1>10 DEF TotalRight

LEMMA PostSound ==
    ASSUME CostSound, NEW r \in Reviews, PostWithFooter(r)
    PROVE  CostSound'
<1>1. PICK s, entries : s = spend[r] /\ entries = invoice[r]
  OBVIOUS
<1>2. SpendSound(s, entries) /\ s.pc = "running" /\ UNCHANGED <<invoice, rows, backend>>
  BY <1>1 DEF CostSound, PostWithFooter
<1>3. DOMAIN s = SpendFields
  BY <1>2 DEF SpendSound
<1>4. ASSUME NEW file \in Files,
             Spend(r, [s EXCEPT !.pc = "record", !.table = file, !.log = <<>>,
                                !.total = TotalCost(s.log, file)])
      PROVE  CostSound'
  <2> DEFINE k == [s EXCEPT !.pc = "record", !.table = file, !.log = <<>>,
                            !.total = TotalCost(s.log, file)]
  <2>1. /\ DOMAIN k = SpendFields /\ k.pc = "record" /\ k.table = file
        /\ k.log = << >> /\ k.total = TotalCost(s.log, file)
    BY <1>3 DEF SpendFields
  <2>2. spend' = [spend EXCEPT ![r] = k]
    BY <1>4 DEF Spend
  <2> HIDE DEF k
  <2>3. TotalRight(TotalCost(s.log, file), Bill(entries, file))
    BY <1>2, TotalSound DEF SpendSound
  <2>4. SpendSound(k, entries)
    BY <1>2, <2>1, <2>3 DEF SpendSound
  <2>. QED
    BY <1>1, <1>2, <2>2, <2>4, SpendOnly
<1>5. CASE Spend(r, [s EXCEPT !.pc = "failed", !.log = <<>>])
  <2> DEFINE k == [s EXCEPT !.pc = "failed", !.log = <<>>]
  <2>1. DOMAIN k = SpendFields /\ k.pc = "failed" /\ k.log = << >>
    BY <1>3 DEF SpendFields
  <2>2. spend' = [spend EXCEPT ![r] = k]
    BY <1>5 DEF Spend
  <2> HIDE DEF k
  <2>3. SpendSound(k, entries)
    BY <1>2, <2>1 DEF SpendSound
  <2>. QED
    BY <1>1, <1>2, <2>2, <2>3, SpendOnly
<1>. QED
  BY <1>1, <1>4, <1>5 DEF PostWithFooter, Files

LEMMA RecordSound ==
    ASSUME CostSound, NEW r \in Reviews, RecordWithCost(r)
    PROVE  CostSound'
<1>1. PICK s : s = spend[r] /\ s.pc = "record" /\ SpendSound(s, invoice[r])
  BY DEF RecordWithCost, CostSound
<1> DEFINE k == [s EXCEPT !.pc = "done"]
<1>2. /\ DOMAIN k = SpendFields /\ k.pc = "done" /\ k.log = s.log
      /\ k.total = s.total /\ k.table = s.table
  BY <1>1 DEF SpendSound, SpendFields
<1>3. spend' = [spend EXCEPT ![r] = k] /\ UNCHANGED <<invoice, backend>>
  BY <1>1 DEF RecordWithCost, Spend
<1> HIDE DEF k
<1>4. SpendSound(k, invoice[r])
  BY <1>1, <1>2 DEF SpendSound
<1>5. CASE UNCHANGED rows
  BY <1>1, <1>3, <1>4, <1>5, SpendOnly
<1>6. CASE rows' = [rows EXCEPT ![PrOf[r]] =
              [by |-> r, cost |-> IF backend = "memory" THEN 0 ELSE spend[r].total]]
  <2> DEFINE row == [by |-> r, cost |-> IF backend = "memory" THEN 0 ELSE spend[r].total]
  <2>1. row.by = r /\ (backend # "memory" => row.cost = k.total)
    BY <1>1, <1>2
  <2> HIDE DEF row
  <2>2. rows' = [rows EXCEPT ![PrOf[r]] = row]
    BY <1>6 DEF row
  <2>3. ASSUME NEW q \in Reviews PROVE RowSound(rows[PrOf[q]], q, spend[q])'
    <3>1. CASE PrOf[q] = PrOf[r]
      <4>1. rows'[PrOf[q]] = row
        BY <2>2, <3>1 DEF CostSound
      <4>2. q = r => spend'[q] = k
        BY <1>3 DEF CostSound
      <4>. QED
        BY <1>2, <1>3, <2>1, <4>1, <4>2 DEF RowSound
    <3>2. CASE PrOf[q] # PrOf[r]
      <4>1. rows'[PrOf[q]] = rows[PrOf[q]] /\ spend'[q] = spend[q]
        BY <1>3, <2>2, <3>2 DEF CostSound
      <4>. QED
        BY <1>3, <4>1 DEF RowSound, CostSound
    <3>. QED
      BY <3>1, <3>2
  <2>. QED
    BY <1>3, <1>4, <2>2, <2>3 DEF CostSound
<1>. QED
  BY <1>5, <1>6 DEF RecordWithCost

LEMMA RowAway ==
    ASSUME CostSound, NEW p \in DOMAIN rows, ClearRow(p)
    PROVE  CostSound'
<1>1. NoRow.by = "none" /\ "none" \notin Reviews
  BY CostAssumption DEF NoRow
<1>2. rows' = [rows EXCEPT ![p] = NoRow] /\ UNCHANGED <<spend, invoice, backend>>
  BY DEF ClearRow
<1>3. ASSUME NEW q \in Reviews PROVE RowSound(rows[PrOf[q]], q, spend[q])'
  <2>1. rows'[PrOf[q]] = NoRow \/ rows'[PrOf[q]] = rows[PrOf[q]]
    BY <1>2 DEF CostSound
  <2>. QED
    BY <1>1, <1>2, <2>1 DEF RowSound, CostSound
<1>. QED
  BY <1>2, <1>3 DEF CostSound

(* The cost a review reports, and its row keeps, is the price of the       *)
(* completions it read itself, less only when a u32 is full: for any       *)
(* number of reviews that share the router, any calls, answers and prices, *)
(* and each of the histories.                                              *)
THEOREM CostsOwn == Spec => []CostIsOwn
<1>1. Init => CostSound
  <2> SUFFICES ASSUME Init PROVE CostSound
    OBVIOUS
  <2>1. /\ spend = [r \in Reviews |-> NoSpend] /\ invoice = [r \in Reviews |-> <<>>]
        /\ rows \in [{PrOf[r] : r \in Reviews} -> {NoRow, OldRow}]
    BY DEF Init, CostInit
  <2>2. SpendSound(NoSpend, <<>>)
    <3> DEFINE k == NoSpend
    <3>1. DOMAIN k = SpendFields /\ k.pc = "idle" /\ k.log = << >>
      BY DEF NoSpend, SpendFields
    <3> HIDE DEF k
    <3>2. \A file \in Files : BillSound(Bill(<< >>, file), file)
      BY NothingYet, NothingOwed
    <3>3. Follows(<< >>, << >>)
      <4>1. Kept(Nothing) = Nothing
        BY CostAssumption DEF Kept, Nothing, Limited
      <4>2. \A t \in Tiers : NoBill.used[t] = Nothing
        BY DEF NoBill
      <4>. QED
        BY <4>1, <4>2, NothingYet DEF Follows
    <3>4. SpendSound(k, <<>>)
      BY <3>1, <3>2, <3>3 DEF SpendSound
    <3>. QED
      BY <3>4 DEF k
  <2>3. NoRow.by \notin Reviews /\ OldRow.by \notin Reviews
    BY CostAssumption DEF NoRow, OldRow
  <2>. QED
    BY <2>1, <2>2, <2>3 DEF CostSound, RowSound
<1>2. CostSound /\ [Next]_vars => CostSound'
  <2> SUFFICES ASSUME CostSound, [Next]_vars PROVE CostSound'
    OBVIOUS
  <2>1. CASE UNCHANGED costVars
    BY <2>1 DEF costVars, CostSound, RowSound
  <2>2. ASSUME NEW r \in Reviews, StartReview(r) PROVE CostSound'
    <3> DEFINE k == [NoSpend EXCEPT !.pc = "running"]
    <3>1. DOMAIN k = SpendFields /\ k.pc = "running" /\ k.log = << >>
      BY DEF NoSpend, SpendFields
    <3>2. spend' = [spend EXCEPT ![r] = k]
      BY <2>2 DEF StartReview, Spend
    <3> HIDE DEF k
    <3>3. PICK s, entries : s = spend[r] /\ entries = invoice[r] /\ s.pc = "idle"
                            /\ SpendSound(s, entries)
      BY <2>2 DEF StartReview, CostSound
    <3>4. SpendSound(k, entries)
      BY <3>1, <3>3 DEF SpendSound
    <3>. QED
      BY <2>2, <3>2, <3>3, <3>4, SpendOnly DEF StartReview
  <2>3. ASSUME NEW r \in Reviews, RouterComplete(r) PROVE CostSound'
    <3>1. PICK s, entries : s = spend[r] /\ entries = invoice[r]
      OBVIOUS
    <3>2. SpendSound(s, entries) /\ s.pc = "running"
      BY <2>3, <3>1 DEF RouterComplete, CostSound
    <3>3. ASSUME Survive(r) PROVE CostSound'
      BY <2>3, <3>1, <3>2, <3>3, SurviveSound, SpendOnly DEF RouterComplete, Survive, Spend
    <3>4. ASSUME NEW t \in Provided,
                 Spend(r, [s EXCEPT !.pc = "asking", !.tier = t, !.calls = @ + 1])
          PROVE  CostSound'
      <4> DEFINE k == [s EXCEPT !.pc = "asking", !.tier = t, !.calls = @ + 1]
      <4>1. DOMAIN k = SpendFields /\ k.pc = "asking" /\ k.tier = t /\ k.log = s.log
        BY <3>2 DEF SpendSound, SpendFields
      <4>2. spend' = [spend EXCEPT ![r] = k]
        BY <3>4 DEF Spend
      <4> HIDE DEF k
      <4>3. SpendSound(k, entries)
        BY <3>2, <4>1, MovesOn
      <4>. QED
        BY <2>3, <3>1, <3>2, <4>2, <4>3, SpendOnly DEF RouterComplete
    <3>. QED
      BY <2>3, <3>1, <3>3, <3>4 DEF RouterComplete
  <2>4. ASSUME NEW r \in Reviews, ProviderFails(r) PROVE CostSound'
    <3>1. SpendSound(spend[r], invoice[r]) /\ spend[r].pc = "asking"
      BY <2>4 DEF ProviderFails, CostSound
    <3>2. PICK pc \in {"running", "failed"} :
            spend' = [spend EXCEPT ![r] = [spend[r] EXCEPT !.pc = pc, !.tier = "none"]]
      BY <2>4 DEF ProviderFails, Survive, Spend
    <3>3. SpendSound([spend[r] EXCEPT !.pc = pc, !.tier = "none"], invoice[r])
      BY <3>1, SurviveSound
    <3>. QED
      BY <2>4, <3>1, <3>2, <3>3, SpendOnly DEF ProviderFails
  <2>5. CASE CostStep
    BY <2>2, <2>3, <2>4, <2>5, ReadSound, UnreadSound, PostSound, RecordSound, RowAway
       DEF CostStep
  <2>. QED
    BY <2>1, <2>5
       DEF Next, HooksNext, GithubNext, BenchNext, CostNext, CheckoutNext, SetupNext, vars
<1>3. CostSound => CostIsOwn
  BY DEF CostSound, SpendSound, TotalRight, RowSound, CostIsOwn
<1>. QED
  BY <1>1, <1>2, <1>3, PTL DEF Spec

-----------------------------------------------------------------------------
(* The benchmark.                                                          *)

Lesser(a, b) == IF a <= b THEN a ELSE b

(* A sequence given by its elements. *)
LEMMA ListIs ==
    ASSUME NEW n \in Nat, NEW S, NEW f, f \in [1..n -> S]
    PROVE  f \in Seq(S) /\ Len(f) = n
<1>1. f \in Seq(S)
  BY SeqDef
<1>2. DOMAIN f = 1..n /\ DOMAIN f = 1..Len(f) /\ Len(f) \in Nat
  BY <1>1, LenProperties
<1>3. PICK k : k = Len(f) /\ k \in Nat /\ 1..k = 1..n
  BY <1>2
<1>4. k = n
  <2>1. k >= 1 => k \in 1..n
    BY <1>3
  <2>2. n >= 1 => n \in 1..k
    BY <1>3
  <2>. QED
    BY <1>3, <2>1, <2>2
<1>. QED
  BY <1>1, <1>3, <1>4

LEMMA SumIs ==
    ASSUME NEW list, Len(list) \in Nat
    PROVE  \E g : /\ GoneThrough(<<"total">>, list, Len(list), g)
                  /\ SumOf(list) = g[Len(list)]
<1>1. PICK g : GoneThrough(<<"total">>, list, Len(list), g)
  BY PrefixesExist
<1> DEFINE sum[n \in 0..Len(list)] == IF n = 0 THEN 0 ELSE sum[n - 1] + list[n]
<1>2. sum = [n \in 0..Len(list) |-> IF n = 0 THEN 0 ELSE sum[n - 1] + list[n]]
  <2>1. g = [n \in 0..Len(list) |-> IF n = 0 THEN 0 ELSE g[n - 1] + list[n]]
    BY <1>1 DEF GoneThrough, Base, Along
  <2>. QED
    BY <2>1 DEF sum
<1>3. SumOf(list) = sum[Len(list)]
  BY DEF SumOf
<1> HIDE DEF sum
<1>4. GoneThrough(<<"total">>, list, Len(list), sum)
  BY <1>2 DEF GoneThrough, Base, Along
<1>. QED
  BY <1>3, <1>4

(* What is added up element by element is added up as a whole. *)
AddsTo(n, a, b, c) ==
    /\ \A i \in 1..n : a[i] \in Nat /\ b[i] \in Nat /\ c[i] = a[i] + b[i]
    /\ Len(a) = n /\ Len(b) = n /\ Len(c) = n

LEMMA SumsAdd ==
    ASSUME NEW n \in Nat, NEW a, NEW b, NEW c, AddsTo(n, a, b, c)
    PROVE  SumOf(a) + SumOf(b) = SumOf(c)
<1>1. PICK f : GoneThrough(<<"total">>, a, n, f) /\ SumOf(a) = f[n]
  BY SumIs DEF AddsTo
<1>2. PICK g : GoneThrough(<<"total">>, b, n, g) /\ SumOf(b) = g[n]
  BY SumIs DEF AddsTo
<1>3. PICK h : GoneThrough(<<"total">>, c, n, h) /\ SumOf(c) = h[n]
  BY SumIs DEF AddsTo
<1>4. \A i \in 0..n : /\ f[i] = IF i = 0 THEN 0 ELSE f[i - 1] + a[i]
                      /\ g[i] = IF i = 0 THEN 0 ELSE g[i - 1] + b[i]
                      /\ h[i] = IF i = 0 THEN 0 ELSE h[i - 1] + c[i]
  BY <1>1, <1>2, <1>3 DEF GoneThrough, Base, Along
<1> DEFINE Bad == {i \in 0..n : ~(f[i] \in Nat /\ g[i] \in Nat /\ f[i] + g[i] = h[i])}
<1>5. Bad = {}
  <2> SUFFICES ASSUME Bad # {} PROVE FALSE
    OBVIOUS
  <2>1. PICK k \in Bad : \A d \in Bad : k <= d
    <3>1. Bad \in SUBSET Nat
      OBVIOUS
    <3>. QED
      BY <3>1, LeastOf
  <2>2. k # 0
    BY <1>4, <2>1
  <2>3. k \in 1..n /\ k - 1 \in 0..n /\ ~(k <= k - 1)
    BY <2>1, <2>2
  <2>4. f[k - 1] \in Nat /\ g[k - 1] \in Nat /\ f[k - 1] + g[k - 1] = h[k - 1]
    BY <2>1, <2>3
  <2>5. f[k] = f[k - 1] + a[k] /\ g[k] = g[k - 1] + b[k] /\ h[k] = h[k - 1] + c[k]
    BY <1>4, <2>2, <2>3
  <2>6. a[k] \in Nat /\ b[k] \in Nat /\ c[k] = a[k] + b[k]
    BY <2>3 DEF AddsTo
  <2>7. f[k] \in Nat /\ g[k] \in Nat /\ f[k] + g[k] = h[k]
    BY <2>4, <2>5, <2>6
  <2>. QED
    BY <2>1, <2>7
<1>6. n \in 0..n
  OBVIOUS
<1>. QED
  BY <1>1, <1>2, <1>3, <1>5, <1>6

(* Labels and findings: what the first n findings have claimed.            *)
Among(output, n, x) == {j \in 1..n : output[j] = x}
LabelsAt(expected, x) == {i \in 1..Len(expected) : expected[i] = x}
ClaimedAt(c, expected, x) == {i \in c : expected[i] = x}
PairsIn(expected, output, n) ==
    {p \in Spots \X (1..Len(expected)) :
        /\ p[2] <= Cardinality(LabelsAt(expected, p[1]))
        /\ p[2] <= Cardinality(Among(output, n, p[1]))}

(* At each spot as many labels are claimed as can be paired. *)
Claims(expected, output, n, c) ==
    /\ c \in SUBSET (1..Len(expected))
    /\ \A x \in Spots : Cardinality(ClaimedAt(c, expected, x)) =
          Lesser(Cardinality(LabelsAt(expected, x)), Cardinality(Among(output, n, x)))
    /\ IsFiniteSet(PairsIn(expected, output, n))
    /\ Cardinality(c) = Cardinality(PairsIn(expected, output, n))
    /\ Cardinality(c) <= n

LEMMA Counted ==
    ASSUME NEW n \in Nat, NEW T \in SUBSET (1..n)
    PROVE  IsFiniteSet(T) /\ Cardinality(T) \in Nat /\ Cardinality(T) <= n
<1>1. IsFiniteSet(1..n) /\ Cardinality(1..n) = n
  BY IntervalSize
<1>2. IsFiniteSet(T) /\ Cardinality(T) <= Cardinality(1..n)
  BY <1>1, FS_Subset
<1>. QED
  BY <1>1, <1>2, FS_CardinalityType

(* One more finding is counted at its spot. *)
LEMMA OneMoreAt ==
    ASSUME NEW output, NEW n \in Nat, n # 0, NEW x
    PROVE  Cardinality(Among(output, n, x)) =
              IF output[n] = x THEN Cardinality(Among(output, n - 1, x)) + 1
              ELSE Cardinality(Among(output, n - 1, x))
<1>1. n - 1 \in Nat /\ ~(n <= n - 1)
  OBVIOUS
<1>2. PICK T : T = Among(output, n - 1, x) /\ IsFiniteSet(T) /\ n \notin T
  <2>1. Among(output, n - 1, x) \in SUBSET (1..(n - 1))
    BY DEF Among
  <2>2. n \notin 1..(n - 1)
    BY <1>1
  <2>. QED
    BY <1>1, <2>1, <2>2, Counted
<1>3. Among(output, n, x) = IF output[n] = x THEN T \cup {n} ELSE T
  <2>1. 1..n = (1..(n - 1)) \cup {n}
    BY <1>1
  <2>. QED
    BY <1>2, <2>1 DEF Among
<1>. QED
  BY <1>2, <1>3, FS_AddElement

LEMMA LeastIn ==
    ASSUME NEW T \in SUBSET Nat, T # {}
    PROVE  Min(T) \in T
<1>1. \E x \in T : \A y \in T : x =< y
  BY LeastOf
<1>. QED
  BY <1>1 DEF Min

LEMMA ClaimStep ==
    ASSUME NEW expected \in Seq(Spots), NEW output \in Seq(Spots),
           NEW n \in 1..Len(output), NEW c, Claims(expected, output, n - 1, c)
    PROVE  Claims(expected, output, n, Claiming(c, output[n], expected))
<1>1. PICK z, e : z = output[n] /\ e = Len(expected) /\ z \in Spots /\ e \in Nat
  BY ElementOfSeq, LenProperties
<1>2. n \in Nat /\ n # 0 /\ n - 1 \in Nat /\ n - 1 < n
  OBVIOUS
<1>3. c \in SUBSET (1..e) /\ IsFiniteSet(c) /\ Cardinality(c) \in Nat /\ Cardinality(c) <= n - 1
  BY <1>1, Counted DEF Claims
<1>4. PICK L, A : L = LabelsAt(expected, z) /\ A = ClaimedAt(c, expected, z)
  OBVIOUS
<1>5. L \in SUBSET (1..e) /\ A \in SUBSET L
  BY <1>1, <1>3, <1>4 DEF LabelsAt, ClaimedAt
<1>6. /\ IsFiniteSet(L) /\ Cardinality(L) \in Nat /\ Cardinality(L) <= e
      /\ IsFiniteSet(A) /\ Cardinality(A) \in Nat
  BY <1>1, <1>5, Counted, FS_Subset, FS_CardinalityType
<1>7. PICK l, t : l = Cardinality(L) /\ t = Cardinality(Among(output, n - 1, z)) /\ t \in Nat
  <2>1. Among(output, n - 1, z) \in SUBSET (1..(n - 1))
    BY DEF Among
  <2>. QED
    BY <1>2, <2>1, Counted
<1>8. Cardinality(A) = Lesser(l, t) /\ l \in Nat /\ l <= e
  BY <1>1, <1>4, <1>6, <1>7 DEF Claims
<1>9. /\ Cardinality(Among(output, n, z)) = t + 1
      /\ \A x \in Spots : x # z =>
            Cardinality(Among(output, n, x)) = Cardinality(Among(output, n - 1, x))
  BY <1>1, <1>2, <1>7, OneMoreAt
<1>10. PICK open : open = {i \in 1..e : i \notin c /\ expected[i] = z}
  OBVIOUS
<1>11. open = L \ A
  BY <1>1, <1>4, <1>10 DEF LabelsAt, ClaimedAt
<1>12. Claiming(c, output[n], expected) = c \cup (IF open = {} THEN {} ELSE {Min(open)})
  BY <1>1, <1>10 DEF Claiming
<1>13. PICK P : P = PairsIn(expected, output, n - 1) /\ IsFiniteSet(P)
                /\ Cardinality(P) = Cardinality(c)
  BY DEF Claims
<1>14. CASE open = {}
  <2>1. A = L
    BY <1>5, <1>11, <1>14
  <2>2. l <= t
    BY <1>7, <1>8, <2>1 DEF Lesser
  <2>3. Lesser(l, t + 1) = l /\ Lesser(l, t) = l
    BY <1>7, <1>8, <2>2 DEF Lesser
  <2>4. PairsIn(expected, output, n) = P
    <3>1. ASSUME NEW p \in Spots \X (1..e),
                 p[2] <= Cardinality(LabelsAt(expected, p[1]))
          PROVE  p[2] <= Cardinality(Among(output, n, p[1]))
                   <=> p[2] <= Cardinality(Among(output, n - 1, p[1]))
      <4>1. p[1] \in Spots /\ p[2] \in Nat
        OBVIOUS
      <4>2. CASE p[1] = z
        BY <1>4, <1>7, <1>8, <1>9, <2>2, <3>1, <4>1, <4>2
      <4>3. CASE p[1] # z
        BY <1>9, <4>1, <4>3
      <4>. QED
        BY <4>2, <4>3
    <3>. QED
      BY <1>1, <1>13, <3>1 DEF PairsIn
  <2>5. \A x \in Spots : Cardinality(ClaimedAt(c, expected, x)) =
           Lesser(Cardinality(LabelsAt(expected, x)), Cardinality(Among(output, n, x)))
    BY <1>4, <1>7, <1>8, <1>9, <2>3 DEF Claims
  <2>6. Claiming(c, output[n], expected) = c
    BY <1>12, <1>14
  <2>. QED
    BY <1>1, <1>2, <1>3, <1>13, <2>4, <2>5, <2>6 DEF Claims
<1>15. CASE open # {}
  <2>1. PICK m : m = Min(open) /\ m \in open /\ m \in 1..e /\ m \notin c /\ expected[m] = z
    <3>1. open \in SUBSET Nat
      BY <1>10
    <3>. QED
      BY <1>10, <1>15, <3>1, LeastIn
  <2>2. Cardinality(A) # l /\ Cardinality(A) <= l
    BY <1>5, <1>6, <1>7, <1>11, <1>15, FS_Subset
  <2>3. t < l /\ Cardinality(A) = t /\ Lesser(l, t + 1) = t + 1
    BY <1>7, <1>8, <2>2 DEF Lesser
  <2>4. PICK d : d = c \cup {m}
    OBVIOUS
  <2>5. /\ Claiming(c, output[n], expected) = d
        /\ Cardinality(d) = Cardinality(c) + 1 /\ d \in SUBSET (1..e)
    BY <1>3, <1>12, <1>15, <2>1, <2>4, FS_AddElement
  <2>6. ASSUME NEW x \in Spots
        PROVE  Cardinality(ClaimedAt(d, expected, x)) =
                 Lesser(Cardinality(LabelsAt(expected, x)), Cardinality(Among(output, n, x)))
    <3>1. CASE x = z
      <4>1. ClaimedAt(d, expected, z) = A \cup {m} /\ m \notin A
        BY <1>4, <2>1, <2>4 DEF ClaimedAt
      <4>2. Cardinality(A \cup {m}) = t + 1
        BY <1>6, <2>3, <4>1, FS_AddElement
      <4>. QED
        BY <1>4, <1>7, <1>9, <2>3, <3>1, <4>1, <4>2
    <3>2. CASE x # z
      <4>1. ClaimedAt(d, expected, x) = ClaimedAt(c, expected, x)
        BY <2>1, <2>4, <3>2 DEF ClaimedAt
      <4>. QED
        BY <1>9, <3>2, <4>1 DEF Claims
    <3>. QED
      BY <3>1, <3>2
  <2>7. PICK q : q = <<z, t + 1>> /\ q \in Spots \X (1..e) /\ q[1] = z /\ q[2] = t + 1
    <3>1. PICK u : u = t + 1 /\ u \in 1..e
      BY <1>1, <1>7, <1>8, <2>3
    <3> DEFINE pair == <<z, u>>
    <3>2. pair \in Spots \X (1..e) /\ pair[1] = z /\ pair[2] = u
      BY <1>1, <3>1
    <3>3. pair = <<z, t + 1>>
      BY <3>1
    <3> HIDE DEF pair
    <3>. QED
      BY <3>1, <3>2, <3>3
  <2>8. PairsIn(expected, output, n) = P \cup {q} /\ q \notin P
    <3>1. ASSUME NEW p \in Spots \X (1..e)
          PROVE  p \in PairsIn(expected, output, n) <=> p \in P \/ p = q
      <4>1. p[1] \in Spots /\ p[2] \in Nat /\ p = <<p[1], p[2]>>
        OBVIOUS
      <4>2. CASE p[1] = z
        <5>1. p \in PairsIn(expected, output, n) <=> p[2] <= l /\ p[2] <= t + 1
          BY <1>1, <1>4, <1>7, <1>9, <4>2 DEF PairsIn
        <5>2. p \in P <=> p[2] <= l /\ p[2] <= t
          BY <1>1, <1>4, <1>7, <1>13, <4>2 DEF PairsIn
        <5>3. p = q <=> p[2] = t + 1
          BY <2>7, <4>1, <4>2
        <5>. QED
          BY <1>7, <1>8, <2>3, <4>1, <5>1, <5>2, <5>3
      <4>3. CASE p[1] # z
        <5>1. p # q
          BY <2>7, <4>3
        <5>2. p \in PairsIn(expected, output, n) <=> p \in P
          BY <1>1, <1>9, <1>13, <4>1, <4>3 DEF PairsIn
        <5>. QED
          BY <5>1, <5>2
      <4>. QED
        BY <4>2, <4>3
    <3>2. q \notin P
      <4>1. ~(t + 1 <= t)
        BY <1>7
      <4>. QED
        BY <1>7, <1>13, <2>7, <4>1 DEF PairsIn
    <3>3. /\ PairsIn(expected, output, n) \in SUBSET (Spots \X (1..e))
          /\ P \in SUBSET (Spots \X (1..e))
      BY <1>1, <1>13 DEF PairsIn
    <3>. QED
      BY <2>7, <3>1, <3>2, <3>3
  <2>9. IsFiniteSet(P \cup {q}) /\ Cardinality(P \cup {q}) = Cardinality(c) + 1
    BY <1>13, <2>8, FS_AddElement
  <2>10. Cardinality(d) <= n
    BY <1>2, <1>3, <2>5
  <2>. QED
    BY <1>1, <2>5, <2>6, <2>8, <2>9, <2>10 DEF Claims
<1>. QED
  BY <1>14, <1>15

LEMMA ClaimsAre ==
    ASSUME NEW expected, NEW output, Len(output) \in Nat
    PROVE  \E g : /\ GoneThrough(<<"claims", expected>>, output, Len(output), g)
                  /\ ScoreAgainstLabels(output, expected) =
                        [matched |-> Cardinality(g[Len(output)]),
                         spurious |-> Len(output) - Cardinality(g[Len(output)]),
                         missed |-> Len(expected) - Cardinality(g[Len(output)])]
<1>1. PICK g : GoneThrough(<<"claims", expected>>, output, Len(output), g)
  BY PrefixesExist
<1> DEFINE claimed[n \in 0..Len(output)] ==
        IF n = 0 THEN {} ELSE Claiming(claimed[n - 1], output[n], expected)
<1>2. claimed = [n \in 0..Len(output) |->
        IF n = 0 THEN {} ELSE Claiming(claimed[n - 1], output[n], expected)]
  <2>1. g = [n \in 0..Len(output) |->
          IF n = 0 THEN {} ELSE Claiming(g[n - 1], output[n], expected)]
    BY <1>1 DEF GoneThrough, Base, Along
  <2>. QED
    BY <2>1 DEF claimed
<1>3. ScoreAgainstLabels(output, expected) =
        [matched |-> Cardinality(claimed[Len(output)]),
         spurious |-> Len(output) - Cardinality(claimed[Len(output)]),
         missed |-> Len(expected) - Cardinality(claimed[Len(output)])]
  BY DEF ScoreAgainstLabels
<1> HIDE DEF claimed
<1>4. GoneThrough(<<"claims", expected>>, output, Len(output), claimed)
  BY <1>2 DEF GoneThrough, Base, Along
<1>. QED
  BY <1>3, <1>4

(* The greedy matching pairs as many labels and findings as can be paired. *)
LEMMA GreedyIsBest ==
    ASSUME NEW expected \in Seq(Spots), NEW output \in Seq(Spots)
    PROVE  \E m \in Nat :
              /\ m = Pairs(expected, output) /\ m <= Len(expected) /\ m <= Len(output)
              /\ ScoreAgainstLabels(output, expected) =
                    [matched |-> m, spurious |-> Len(output) - m, missed |-> Len(expected) - m]
<1>1. PICK n : n = Len(output) /\ n \in Nat /\ Len(expected) \in Nat
  OBVIOUS
<1>2. PICK g : /\ GoneThrough(<<"claims", expected>>, output, n, g)
               /\ ScoreAgainstLabels(output, expected) =
                     [matched |-> Cardinality(g[n]), spurious |-> n - Cardinality(g[n]),
                      missed |-> Len(expected) - Cardinality(g[n])]
  BY <1>1, ClaimsAre
<1>3. \A i \in 0..n : g[i] = IF i = 0 THEN {} ELSE Claiming(g[i - 1], output[i], expected)
  BY <1>2 DEF GoneThrough, Base, Along
<1> DEFINE Bad == {i \in 0..n : ~Claims(expected, output, i, g[i])}
<1>4. Bad = {}
  <2> SUFFICES ASSUME Bad # {} PROVE FALSE
    OBVIOUS
  <2>1. PICK k \in Bad : \A d \in Bad : k <= d
    <3>1. Bad \in SUBSET Nat
      BY <1>1
    <3>. QED
      BY <3>1, LeastOf
  <2>2. k # 0
    <3>1. \A x : Among(output, 0, x) = {} /\ ClaimedAt({}, expected, x) = {}
      BY DEF Among, ClaimedAt
    <3>2. Cardinality({}) = 0 /\ IsFiniteSet({})
      BY FS_EmptySet
    <3>c. \A x : /\ Cardinality(Among(output, 0, x)) = 0
                 /\ Cardinality(ClaimedAt({}, expected, x)) = 0
      BY <3>1, <3>2
    <3>3. PairsIn(expected, output, 0) = {}
      <4>1. ASSUME NEW p \in Spots \X (1..Len(expected)) PROVE ~(p[2] <= 0)
        <5>1. p[2] \in 1..Len(expected)
          OBVIOUS
        <5>. QED
          BY <1>1, <5>1
      <4>. QED
        BY <3>c, <4>1 DEF PairsIn
    <3>4. \A x \in Spots : Lesser(Cardinality(LabelsAt(expected, x)), 0) = 0
      <4>1. \A x : LabelsAt(expected, x) \in SUBSET (1..Len(expected))
        BY DEF LabelsAt
      <4>2. \A x : Cardinality(LabelsAt(expected, x)) \in Nat
        BY <1>1, <4>1, Counted
      <4>. QED
        BY <4>2 DEF Lesser
    <3>5. Claims(expected, output, 0, {})
      <4>1. \A x \in Spots : Cardinality(ClaimedAt({}, expected, x)) =
               Lesser(Cardinality(LabelsAt(expected, x)), Cardinality(Among(output, 0, x)))
        BY <3>4, <3>c
      <4>2. {} \in SUBSET (1..Len(expected)) /\ 0 <= 0
        OBVIOUS
      <4>. QED
        BY <3>2, <3>3, <4>1, <4>2 DEF Claims
    <3>6. g[0] = {}
      BY <1>1, <1>3
    <3>. QED
      BY <2>1, <3>5, <3>6
  <2>3. k \in 1..n /\ k - 1 \in 0..n /\ ~(k <= k - 1)
    BY <1>1, <2>1, <2>2
  <2>4. Claims(expected, output, k - 1, g[k - 1])
    BY <2>1, <2>3
  <2>5. Claims(expected, output, k, Claiming(g[k - 1], output[k], expected))
    BY <1>1, <2>3, <2>4, ClaimStep
  <2>. QED
    BY <1>3, <2>1, <2>2, <2>5
<1>5. Claims(expected, output, n, g[n])
  <2>1. n \in 0..n
    BY <1>1
  <2>. QED
    BY <1>4, <2>1
<1>6. Cardinality(g[n]) \in Nat /\ Cardinality(g[n]) <= Len(expected) /\ Cardinality(g[n]) <= n
  BY <1>1, <1>5, Counted DEF Claims
<1>7. Cardinality(g[n]) = Pairs(expected, output)
  <2>1. \A x : Times(expected, x) = Cardinality(LabelsAt(expected, x))
               /\ Times(output, x) = Cardinality(Among(output, n, x))
    BY <1>1 DEF Times, LabelsAt, Among
  <2>2. Pairs(expected, output) = Cardinality(PairsIn(expected, output, n))
    BY <2>1 DEF Pairs, PairsIn
  <2>. QED
    BY <1>5, <2>2 DEF Claims
<1>. QED
  BY <1>1, <1>2, <1>6, <1>7

(* A set of positions that has all positions before each of its own. *)
LEMMA Prefix ==
    ASSUME NEW n \in Nat, NEW T \in SUBSET (1..n),
           \A i \in 1..n, j \in T : i <= j => i \in T
    PROVE  T = 1..Cardinality(T)
<1>1. PICK q : q = Cardinality(T) /\ q \in Nat /\ q <= n /\ IsFiniteSet(T)
  BY Counted
<1>2. ASSUME NEW i \in T PROVE i <= q
  <2>1. i \in 1..n /\ i \in Nat /\ 1..i \in SUBSET T
    OBVIOUS
  <2>2. Cardinality(1..i) = i
    BY <2>1, IntervalSize
  <2>3. Cardinality(1..i) <= Cardinality(T)
    BY <1>1, <2>1, FS_Subset
  <2>. QED
    BY <1>1, <2>2, <2>3
<1>3. ASSUME NEW i \in 1..n, i \notin T PROVE q < i
  <2>1. \A j \in T : j \in 1..(i - 1)
    BY <1>3
  <2>2. T \in SUBSET (1..(i - 1)) /\ i - 1 \in Nat
    BY <2>1
  <2>3. Cardinality(T) <= i - 1
    BY <2>2, Counted
  <2>. QED
    BY <1>1, <2>3
<1>4. \A i \in 1..q : i \in 1..n /\ ~(q < i)
  BY <1>1
<1>5. T \subseteq 1..q
  <2>1. \A i \in T : i \in Nat /\ 1 <= i
    OBVIOUS
  <2>. QED
    BY <1>1, <1>2, <2>1
<1>6. 1..q \subseteq T
  BY <1>3, <1>4
<1>. QED
  BY <1>1, <1>5, <1>6

(* Sorting: the list is in order, and as many of its elements as of the    *)
(* first n results lie below any bound.                                    *)
InOrder(list) == \A i, j \in 1..Len(list) : i <= j => list[i] <= list[j]
Below(list, v) == {i \in 1..Len(list) : list[i] <= v}
TimedUpTo(results, n, v) == {i \in 1..n : results[i].ok /\ results[i].seconds <= v}
Successes(results, n) == {i \in 1..n : results[i].ok}

LEMMA BelowIs ==
    ASSUME NEW list \in Seq(Nat), InOrder(list), NEW v \in Nat
    PROVE  /\ Cardinality(Below(list, v)) \in 0..Len(list)
           /\ \A i \in 1..Len(list) : list[i] <= v <=> i <= Cardinality(Below(list, v))
<1>1. PICK n : n = Len(list) /\ n \in Nat /\ \A i \in 1..n : list[i] \in Nat
  BY ElementOfSeq
<1>2. Below(list, v) \in SUBSET (1..n)
  BY <1>1 DEF Below
<1>3. \A i \in 1..n, j \in Below(list, v) : i <= j => i \in Below(list, v)
  <2> SUFFICES ASSUME NEW i \in 1..n, NEW j \in Below(list, v), i <= j
               PROVE  list[i] <= v
    BY <1>1 DEF Below
  <2>1. j \in 1..n /\ list[j] <= v /\ list[i] <= list[j]
    BY <1>1 DEF Below, InOrder
  <2>. QED
    BY <1>1, <2>1
<1>4. PICK q : q = Cardinality(Below(list, v)) /\ q \in Nat /\ q <= n
  BY <1>1, <1>2, Counted
<1>5. Below(list, v) = 1..q
  BY <1>1, <1>2, <1>3, <1>4, Prefix
<1>6. \A i \in 1..n : list[i] <= v <=> i \in 1..q
  BY <1>1, <1>5 DEF Below
<1>. QED
  BY <1>1, <1>4, <1>6

LEMMA InsertedIs ==
    ASSUME NEW list \in Seq(Nat), NEW v \in Nat, NEW k \in 0..Len(list),
           k = Cardinality(Below(list, v))
    PROVE  /\ Inserted(list, v) \in Seq(Nat) /\ Len(Inserted(list, v)) = Len(list) + 1
           /\ \A i \in 1..(Len(list) + 1) : Inserted(list, v)[i] =
                 IF i <= k THEN list[i] ELSE IF i = k + 1 THEN v ELSE list[i - 1]
<1>1. PICK n : n = Len(list) /\ n \in Nat /\ k \in Nat /\ k <= n
  OBVIOUS
<1>2. PICK a, b : a = SubSeq(list, 1, k) /\ b = SubSeq(list, k + 1, n)
  OBVIOUS
<1>3. Inserted(list, v) = a \o <<v>> \o b
  <2>1. (k + 1) - 1 = k
    BY <1>1
  <2>. QED
    BY <1>1, <1>2, <2>1 DEF Inserted, InsertAt, Below
<1>4. /\ a \in Seq(Nat) /\ Len(a) = k /\ \A i \in 1..k : a[i] = list[i]
  BY <1>1, <1>2, SubSeqProperties
<1>5. /\ b \in Seq(Nat) /\ Len(b) = n - k /\ \A i \in 1..(n - k) : b[i] = list[i + k]
  <2>1. k + 1 \in Int /\ n \in Int /\ \A i \in (k + 1)..n : list[i] \in Nat
    BY <1>1, ElementOfSeq
  <2>2. /\ b \in Seq(Nat)
        /\ Len(b) = (IF k + 1 <= n THEN n - (k + 1) + 1 ELSE 0)
        /\ \A i \in 1..(n - (k + 1) + 1) : b[i] = list[(k + 1) + i - 1]
    BY <1>2, <2>1, SubSeqProperties
  <2>3. /\ (IF k + 1 <= n THEN n - (k + 1) + 1 ELSE 0) = n - k
        /\ n - (k + 1) + 1 = n - k
        /\ \A i \in 1..(n - k) : (k + 1) + i - 1 = i + k
    BY <1>1
  <2>. QED
    BY <2>2, <2>3
<1>6. PICK c : c = a \o <<v>>
  OBVIOUS
<1>7. /\ c \in Seq(Nat) /\ Len(c) = k + 1
      /\ \A i \in 1..(k + 1) : c[i] = IF i <= k THEN list[i] ELSE v
  <2>1. <<v>> \in Seq(Nat) /\ Len(<<v>>) = 1 /\ <<v>>[1] = v
    OBVIOUS
  <2>2. /\ c \in Seq(Nat) /\ Len(c) = k + 1
        /\ \A i \in 1..(k + 1) : c[i] = IF i <= k THEN a[i] ELSE <<v>>[i - k]
    BY <1>4, <1>6, <2>1, ConcatProperties
  <2>3. \A i \in 1..(k + 1) : (i <= k => i \in 1..k) /\ (~(i <= k) => i - k = 1)
    BY <1>1
  <2>. QED
    BY <1>4, <2>1, <2>2, <2>3
<1>8. /\ c \o b \in Seq(Nat) /\ Len(c \o b) = (k + 1) + (n - k)
      /\ \A i \in 1..((k + 1) + (n - k)) :
            (c \o b)[i] = IF i <= k + 1 THEN c[i] ELSE b[i - (k + 1)]
  <2>1. b \in Seq(Nat) /\ c \in Seq(Nat)
    BY <1>5, <1>7
  <2>2. /\ c \o b \in Seq(Nat) /\ Len(c \o b) = Len(c) + Len(b)
        /\ \A i \in 1..(Len(c) + Len(b)) :
              (c \o b)[i] = IF i <= Len(c) THEN c[i] ELSE b[i - Len(c)]
    BY ONLY <2>1, ConcatProperties
  <2>. QED
    BY <1>5, <1>7, <2>2
<1>9. /\ (k + 1) + (n - k) = n + 1
      /\ \A i \in 1..(n + 1) :
            /\ i <= k + 1 => i \in 1..(k + 1)
            /\ ~(i <= k + 1) => i - (k + 1) \in 1..(n - k) /\ (i - (k + 1)) + k = i - 1
                                /\ ~(i <= k) /\ i # k + 1
            /\ i <= k + 1 /\ ~(i <= k) => i = k + 1
            /\ i <= k => i <= k + 1
            /\ i = k + 1 => i <= k + 1
  <2>1. (k + 1) + (n - k) = n + 1
    BY <1>1
  <2>2. ASSUME NEW i \in 1..(n + 1), ~(i <= k + 1)
        PROVE  /\ i - (k + 1) \in 1..(n - k) /\ (i - (k + 1)) + k = i - 1
               /\ ~(i <= k) /\ i # k + 1
    <3>1. i \in Int /\ k \in Int /\ n \in Int /\ i <= n + 1 /\ i >= k + 2
      BY <1>1, <2>2
    <3>2. i - (k + 1) \in Int /\ i - (k + 1) >= 1 /\ i - (k + 1) <= n - k
      BY ONLY <3>1
    <3>3. (i - (k + 1)) + k = i - 1 /\ ~(i <= k) /\ i # k + 1
      BY ONLY <3>1
    <3>. QED
      BY <3>2, <3>3
  <2>3. ASSUME NEW i \in 1..(n + 1)
        PROVE  /\ i <= k + 1 => i \in 1..(k + 1)
               /\ i <= k + 1 /\ ~(i <= k) => i = k + 1
               /\ i <= k => i <= k + 1
               /\ i = k + 1 => i <= k + 1
    BY <1>1
  <2>. QED
    BY <2>1, <2>2, <2>3
<1>10. PICK s : s = c \o b
  OBVIOUS
<1>11. ASSUME NEW i \in 1..(n + 1)
       PROVE  s[i] = IF i <= k THEN list[i] ELSE IF i = k + 1 THEN v ELSE list[i - 1]
  <2>1. CASE i <= k + 1
    BY <1>7, <1>8, <1>9, <1>10, <2>1
  <2>2. CASE ~(i <= k + 1)
    BY <1>5, <1>8, <1>9, <1>10, <2>2
  <2>. QED
    BY <2>1, <2>2
<1>. QED
  <2>1. Inserted(list, v) = s
    BY <1>3, <1>6, <1>10
  <2>2. s \in Seq(Nat) /\ Len(s) = n + 1
    BY <1>8, <1>9, <1>10
  <2>. QED
    BY <1>1, <1>11, <2>1, <2>2

LEMMA InsertedSound ==
    ASSUME NEW list \in Seq(Nat), InOrder(list), NEW v \in Nat
    PROVE  /\ Inserted(list, v) \in Seq(Nat) /\ InOrder(Inserted(list, v))
           /\ Len(Inserted(list, v)) = Len(list) + 1
           /\ \A w \in Nat : Cardinality(Below(Inserted(list, v), w)) =
                 Cardinality(Below(list, w)) + (IF v <= w THEN 1 ELSE 0)
<1>1. PICK n, k, s : /\ n = Len(list) /\ n \in Nat /\ k = Cardinality(Below(list, v))
                     /\ s = Inserted(list, v)
  OBVIOUS
<1>2. k \in Nat /\ k <= n /\ \A i \in 1..n : list[i] <= v <=> i <= k
  <2>1. k \in 0..Len(list) /\ \A i \in 1..Len(list) : list[i] <= v <=> i <= k
    BY <1>1, BelowIs
  <2>. QED
    BY <1>1, <2>1
<1>3. /\ s \in Seq(Nat) /\ Len(s) = n + 1
      /\ \A i \in 1..(n + 1) :
            s[i] = IF i <= k THEN list[i] ELSE IF i = k + 1 THEN v ELSE list[i - 1]
  <2>1. k \in 0..Len(list)
    BY <1>1, <1>2
  <2>2. /\ s \in Seq(Nat) /\ Len(s) = Len(list) + 1
        /\ \A i \in 1..(Len(list) + 1) :
              s[i] = IF i <= k THEN list[i] ELSE IF i = k + 1 THEN v ELSE list[i - 1]
    <3>1. k = Cardinality(Below(list, v)) /\ s = Inserted(list, v)
      BY <1>1
    <3>2. /\ Inserted(list, v) \in Seq(Nat) /\ Len(Inserted(list, v)) = Len(list) + 1
          /\ \A i \in 1..(Len(list) + 1) : Inserted(list, v)[i] =
                IF i <= k THEN list[i] ELSE IF i = k + 1 THEN v ELSE list[i - 1]
      BY ONLY <2>1, <3>1, list \in Seq(Nat), v \in Nat, InsertedIs
    <3>. QED
      BY ONLY <3>1, <3>2, Zenon
  <2>. QED
    BY <1>1, <2>2
<1>4. \A i \in 1..n : list[i] \in Nat
  BY <1>1, ElementOfSeq
<1>5. \A i, j \in 1..n : i <= j => list[i] <= list[j]
  BY <1>1 DEF InOrder
<1>6. ASSUME NEW i \in 1..(n + 1), NEW j \in 1..(n + 1), i <= j PROVE s[i] <= s[j]
  <2>1. CASE j <= k
    <3>1. i <= k /\ i \in 1..n /\ j \in 1..n
      BY <1>1, <1>2, <1>6, <2>1
    <3>. QED
      BY <1>3, <1>5, <1>6, <2>1, <3>1
  <2>2. CASE j = k + 1
    <3>1. CASE i = j
      BY <1>2, <1>3, <2>2, <3>1
    <3>2. CASE i # j
      <4>1. i <= k /\ i \in 1..n /\ ~(j <= k)
        BY <1>1, <1>2, <1>6, <2>2, <3>2
      <4>. QED
        BY <1>2, <1>3, <2>2, <4>1
    <3>. QED
      BY <3>1, <3>2
  <2>3. CASE ~(j <= k) /\ j # k + 1
    <3>1. j - 1 \in 1..n /\ ~(j - 1 <= k)
      BY <1>1, <1>2, <2>3
    <3>2. s[j] = list[j - 1] /\ ~(list[j - 1] <= v) /\ list[j - 1] \in Nat
      BY <1>2, <1>3, <1>4, <2>3, <3>1
    <3>3. CASE i <= k
      <4>1. i \in 1..n /\ i <= j - 1
        BY <1>1, <1>2, <3>1, <3>3
      <4>. QED
        BY <1>3, <1>5, <3>1, <3>2, <3>3, <4>1
    <3>4. CASE i = k + 1
      <4>1. s[i] = v
        BY <1>2, <1>3, <3>4
      <4>. QED
        BY <3>2, <4>1
    <3>5. CASE ~(i <= k) /\ i # k + 1
      <4>1. i - 1 \in 1..n /\ i - 1 <= j - 1 /\ s[i] = list[i - 1]
        BY <1>1, <1>2, <1>3, <1>6, <3>5
      <4>. QED
        BY <1>5, <3>1, <3>2, <4>1
    <3>. QED
      BY <3>3, <3>4, <3>5
  <2>. QED
    BY <2>1, <2>2, <2>3
<1>7. InOrder(s)
  BY <1>3, <1>6 DEF InOrder
<1>8. ASSUME NEW w \in Nat
      PROVE  Cardinality(Below(s, w)) = Cardinality(Below(list, w)) + (IF v <= w THEN 1 ELSE 0)
  <2>1. PICK q, r : q = Cardinality(Below(list, w)) /\ r = Cardinality(Below(s, w))
    OBVIOUS
  <2>2. q \in Nat /\ q <= n /\ \A i \in 1..n : list[i] <= w <=> i <= q
    <3>1. q \in 0..Len(list) /\ \A i \in 1..Len(list) : list[i] <= w <=> i <= q
      BY <2>1, BelowIs
    <3>. QED
      BY <1>1, <3>1
  <2>3. r \in Nat /\ r <= n + 1 /\ \A i \in 1..(n + 1) : s[i] <= w <=> i <= r
    <3>1. r \in 0..Len(s) /\ \A i \in 1..Len(s) : s[i] <= w <=> i <= r
      BY <1>3, <1>7, <2>1, BelowIs
    <3>. QED
      BY <1>1, <1>3, <3>1
  <2>4. \A i \in 1..n : i <= k => s[i] = list[i]
    BY <1>1, <1>3
  <2>5. \A i \in 1..n : ~(i <= k) => s[i + 1] = list[i]
    <3> SUFFICES ASSUME NEW i \in 1..n, ~(i <= k) PROVE s[i + 1] = list[i]
      OBVIOUS
    <3>1. i + 1 \in 1..(n + 1) /\ ~(i + 1 <= k) /\ i + 1 # k + 1 /\ (i + 1) - 1 = i
      BY <1>1, <1>2
    <3>. QED
      BY <1>3, <3>1
  <2>6. s[k + 1] = v /\ k + 1 \in 1..(n + 1)
    BY <1>1, <1>2, <1>3
  <2>7. CASE v <= w
    <3>1. k <= q
      <4>1. k = 0 \/ (k \in 1..n /\ list[k] <= v /\ list[k] \in Nat)
        BY <1>1, <1>2, <1>4
      <4>. QED
        BY <1>2, <2>2, <2>7, <4>1
    <3>2. q + 1 <= r
      <4>1. CASE q = k
        BY <2>2, <2>3, <2>6, <2>7, <4>1
      <4>2. CASE q # k
        <5>1. q \in 1..n /\ ~(q <= k) /\ q + 1 \in 1..(n + 1)
          BY <1>1, <1>2, <2>2, <3>1, <4>2
        <5>. QED
          BY <2>2, <2>3, <2>5, <5>1
      <4>. QED
        BY <4>1, <4>2
    <3>3. r <= q + 1
      <4>1. SUFFICES ASSUME q + 1 < r PROVE FALSE
        BY <2>2, <2>3
      <4>2. r - 1 \in 1..n /\ ~(r - 1 <= k) /\ (r - 1) + 1 = r /\ r \in 1..(n + 1) /\ ~(r - 1 <= q)
        BY <1>1, <1>2, <2>2, <2>3, <3>1, <4>1
      <4>3. s[r] = list[r - 1] /\ s[r] <= w
        BY <2>3, <2>5, <4>2
      <4>. QED
        BY <2>2, <4>2, <4>3
    <3>. QED
      BY <2>1, <2>2, <2>3, <2>7, <3>2, <3>3
  <2>8. CASE ~(v <= w)
    <3>1. q <= k
      <4>1. q = 0 \/ (q \in 1..n /\ list[q] <= w /\ list[q] \in Nat)
        BY <1>1, <1>4, <2>2
      <4>. QED
        BY <1>2, <2>2, <2>8, <4>1
    <3>2. r <= k
      <4>1. ~(k + 1 <= r)
        BY <2>3, <2>6, <2>8
      <4>. QED
        BY <1>2, <2>3, <4>1
    <3>3. r <= q
      <4>1. r = 0 \/ (r \in 1..n /\ s[r] <= w /\ s[r] = list[r])
        BY <1>1, <1>2, <2>3, <2>4, <3>2
      <4>. QED
        BY <2>2, <4>1
    <3>4. q <= r
      <4>1. q = 0 \/ (q \in 1..n /\ q \in 1..(n + 1) /\ list[q] <= w /\ s[q] = list[q])
        BY <1>1, <2>2, <2>4, <3>1
      <4>. QED
        BY <2>3, <4>1
    <3>. QED
      BY <2>1, <2>2, <2>3, <2>8, <3>3, <3>4
  <2>. QED
    BY <2>7, <2>8
<1>. QED
  BY <1>1, <1>3, <1>7, <1>8

LEMMA SortedIs ==
    ASSUME NEW results, Len(results) \in Nat
    PROVE  \E g : /\ GoneThrough(<<"sorted">>, results, Len(results), g)
                  /\ SortedLatencies(results) = g[Len(results)]
<1>1. PICK g : GoneThrough(<<"sorted">>, results, Len(results), g)
  BY PrefixesExist
<1> DEFINE sorted[n \in 0..Len(results)] ==
        IF n = 0 THEN <<>>
        ELSE IF results[n].ok THEN Inserted(sorted[n - 1], results[n].seconds)
        ELSE sorted[n - 1]
<1>2. sorted = [n \in 0..Len(results) |->
        IF n = 0 THEN <<>>
        ELSE IF results[n].ok THEN Inserted(sorted[n - 1], results[n].seconds)
        ELSE sorted[n - 1]]
  <2>1. g = [n \in 0..Len(results) |->
          IF n = 0 THEN <<>>
          ELSE IF results[n].ok THEN Inserted(g[n - 1], results[n].seconds)
          ELSE g[n - 1]]
    BY <1>1 DEF GoneThrough, Base, Along
  <2>. QED
    BY <2>1 DEF sorted
<1>3. SortedLatencies(results) = sorted[Len(results)]
  BY DEF SortedLatencies
<1> HIDE DEF sorted
<1>4. GoneThrough(<<"sorted">>, results, Len(results), sorted)
  BY <1>2 DEF GoneThrough, Base, Along
<1>. QED
  BY <1>3, <1>4

ResultRec == [ok : BOOLEAN, initial : Nat, kept : Nat, seconds : Nat, labelled : BOOLEAN,
              matched : Nat, missed : Nat, spurious : Nat, shown : Outputs]

SortsFirst(list, results, n) ==
    /\ list \in Seq(Nat) /\ InOrder(list)
    /\ Len(list) = Cardinality(Successes(results, n))
    /\ \A v \in Nat : Cardinality(Below(list, v)) = Cardinality(TimedUpTo(results, n, v))

(* One more result is one more success or none. *)
LEMMA OneMoreResult ==
    ASSUME NEW results, NEW n \in Nat, n # 0, results[n].ok \in BOOLEAN, NEW v \in Nat
    PROVE  /\ Cardinality(Successes(results, n)) =
                 Cardinality(Successes(results, n - 1)) + (IF results[n].ok THEN 1 ELSE 0)
           /\ Cardinality(TimedUpTo(results, n, v)) =
                 Cardinality(TimedUpTo(results, n - 1, v))
                   + (IF results[n].ok /\ results[n].seconds <= v THEN 1 ELSE 0)
<1>1. n - 1 \in Nat /\ n \notin 1..(n - 1) /\ 1..n = (1..(n - 1)) \cup {n}
  OBVIOUS
<1>2. PICK A, B : /\ A = Successes(results, n - 1) /\ A \in SUBSET (1..(n - 1))
                  /\ B = TimedUpTo(results, n - 1, v) /\ B \in SUBSET (1..(n - 1))
  <2>1. Successes(results, n - 1) \in SUBSET (1..(n - 1))
    BY DEF Successes
  <2>2. TimedUpTo(results, n - 1, v) \in SUBSET (1..(n - 1))
    BY DEF TimedUpTo
  <2>. QED
    BY <2>1, <2>2
<1>3. /\ IsFiniteSet(A) /\ Cardinality(A) \in Nat /\ n \notin A
      /\ IsFiniteSet(B) /\ Cardinality(B) \in Nat /\ n \notin B
  BY <1>1, <1>2, Counted
<1>4. Successes(results, n) = IF results[n].ok THEN A \cup {n} ELSE A
  BY <1>1, <1>2 DEF Successes
<1>5. TimedUpTo(results, n, v) =
        IF results[n].ok /\ results[n].seconds <= v THEN B \cup {n} ELSE B
  BY <1>1, <1>2 DEF TimedUpTo
<1>6. Cardinality(A \cup {n}) = Cardinality(A) + 1 /\ Cardinality(B \cup {n}) = Cardinality(B) + 1
  BY <1>3, FS_AddElement
<1>. QED
  BY <1>2, <1>3, <1>4, <1>5, <1>6

LEMMA Sorts ==
    ASSUME NEW results \in Seq(ResultRec)
    PROVE  SortsFirst(SortedLatencies(results), results, Len(results))
<1>1. PICK n : n = Len(results) /\ n \in Nat
               /\ \A i \in 1..n : results[i].ok \in BOOLEAN /\ results[i].seconds \in Nat
  <2>1. Len(results) \in Nat /\ \A i \in 1..Len(results) : results[i] \in ResultRec
    BY ElementOfSeq
  <2>2. \A r \in ResultRec : r.ok \in BOOLEAN /\ r.seconds \in Nat
    BY DEF ResultRec
  <2>. QED
    BY <2>1, <2>2
<1>2. PICK g : GoneThrough(<<"sorted">>, results, n, g) /\ SortedLatencies(results) = g[n]
  BY <1>1, SortedIs
<1>3. \A i \in 0..n : g[i] =
        IF i = 0 THEN << >>
        ELSE IF results[i].ok THEN Inserted(g[i - 1], results[i].seconds) ELSE g[i - 1]
  BY <1>2 DEF GoneThrough, Base, Along
<1> DEFINE Bad == {i \in 0..n : ~SortsFirst(g[i], results, i)}
<1>4. Bad = {}
  <2> SUFFICES ASSUME Bad # {} PROVE FALSE
    OBVIOUS
  <2>1. PICK k \in Bad : \A d \in Bad : k <= d
    <3>1. Bad \in SUBSET Nat
      BY <1>1
    <3>. QED
      BY <3>1, LeastOf
  <2>2. k # 0
    <3>1. /\ Successes(results, 0) = {}
          /\ \A v : TimedUpTo(results, 0, v) = {} /\ Below(<< >>, v) = {}
      BY DEF Successes, TimedUpTo, Below
    <3>2. Cardinality({}) = 0
      BY FS_EmptySet
    <3>3. << >> \in Seq(Nat) /\ Len(<< >>) = 0 /\ InOrder(<< >>)
      BY DEF InOrder
    <3>4. SortsFirst(<< >>, results, 0)
      BY <3>1, <3>2, <3>3 DEF SortsFirst
    <3>5. g[0] = << >>
      BY <1>1, <1>3
    <3>. QED
      BY <2>1, <3>4, <3>5
  <2>3. k \in 1..n /\ k \in Nat /\ k - 1 \in 0..n /\ ~(k <= k - 1)
    BY <1>1, <2>1, <2>2
  <2>4. SortsFirst(g[k - 1], results, k - 1)
    BY <2>1, <2>3
  <2>5. PICK list, s : /\ list = g[k - 1] /\ s = results[k].seconds /\ s \in Nat
                       /\ results[k].ok \in BOOLEAN
    BY <1>1, <2>3
  <2>6. list \in Seq(Nat) /\ InOrder(list) /\ Len(list) \in Nat
    BY <2>4, <2>5 DEF SortsFirst
  <2>t. ASSUME NEW v \in Nat
        PROVE  Cardinality(TimedUpTo(results, k, v)) =
                 Cardinality(TimedUpTo(results, k - 1, v))
                   + (IF results[k].ok /\ results[k].seconds <= v THEN 1 ELSE 0)
    BY <2>2, <2>3, <2>5, OneMoreResult
  <2>u. Cardinality(Successes(results, k)) =
          Cardinality(Successes(results, k - 1)) + (IF results[k].ok THEN 1 ELSE 0)
    BY <2>2, <2>3, <2>5, OneMoreResult
  <2>7. SortsFirst(g[k], results, k)
    <3>1. CASE results[k].ok
      <4>1. PICK more : more = Inserted(list, s)
        OBVIOUS
      <4>2. /\ more \in Seq(Nat) /\ InOrder(more) /\ Len(more) = Len(list) + 1
            /\ \A v \in Nat : Cardinality(Below(more, v)) =
                  Cardinality(Below(list, v)) + (IF s <= v THEN 1 ELSE 0)
        BY <2>5, <2>6, <4>1, InsertedSound
      <4>3. Len(more) = Cardinality(Successes(results, k))
        BY <2>u, <2>4, <2>5, <3>1, <4>2 DEF SortsFirst
      <4>4. \A v \in Nat : Cardinality(Below(more, v)) = Cardinality(TimedUpTo(results, k, v))
        BY <2>t, <2>4, <2>5, <3>1, <4>2 DEF SortsFirst
      <4>5. g[k] = more
        BY <1>3, <2>2, <2>3, <2>5, <3>1, <4>1
      <4>. QED
        BY <4>2, <4>3, <4>4, <4>5 DEF SortsFirst
    <3>2. CASE ~results[k].ok
      <4>1. g[k] = list
        BY <1>3, <2>2, <2>3, <2>5, <3>2
      <4>2. /\ Cardinality(Successes(results, k - 1)) \in Nat
            /\ \A v \in Nat : Cardinality(TimedUpTo(results, k - 1, v)) \in Nat
        <5>1. /\ Successes(results, k - 1) \in SUBSET (1..(k - 1)) /\ k - 1 \in Nat
              /\ \A v : TimedUpTo(results, k - 1, v) \in SUBSET (1..(k - 1))
          BY <2>3 DEF Successes, TimedUpTo
        <5>. QED
          BY <5>1, Counted
      <4>3. /\ Cardinality(Successes(results, k)) = Cardinality(Successes(results, k - 1))
            /\ \A v \in Nat : Cardinality(TimedUpTo(results, k, v)) =
                                 Cardinality(TimedUpTo(results, k - 1, v))
        BY <2>t, <2>u, <3>2, <4>2
      <4>. QED
        BY <2>4, <2>5, <4>1, <4>3 DEF SortsFirst
    <3>. QED
      BY <2>5, <3>1, <3>2
  <2>. QED
    BY <2>1, <2>7
<1>5. n \in 0..n
  BY <1>1
<1>. QED
  BY <1>1, <1>2, <1>4, <1>5

(* percentile returns the nearest rank. *)
LEMMA Ranks ==
    ASSUME NEW list \in Seq(Nat), InOrder(list), list # << >>
    PROVE  \E v, w \in Nat :
              /\ v = Percentile(list, 50) /\ w = Percentile(list, 99)
              /\ 2 * Cardinality(Below(list, v)) >= Len(list)
              /\ v = 0 \/ 2 * Cardinality(Below(list, v - 1)) < Len(list)
              /\ Len(list) < 100 => Cardinality(Below(list, w)) = Len(list)
<1>1. PICK n : n = Len(list) /\ n \in Nat /\ n >= 1
  OBVIOUS
<1>2. \A i \in 1..n : list[i] \in Nat
  BY <1>1, ElementOfSeq
<1>3. PICK a, b : a = (50 * n + 99) \div 100 /\ b = (99 * n + 99) \div 100
  OBVIOUS
<1>4. /\ a \in Nat /\ 1 <= a /\ a <= n /\ 2 * a >= n /\ 2 * (a - 1) < n
      /\ b \in Nat /\ 1 <= b /\ b <= n /\ (n < 100 => b = n)
  BY <1>1, <1>3
<1>5. Percentile(list, 50) = list[a] /\ Percentile(list, 99) = list[b]
  <2>1. Max({1, a}) = a /\ Max({1, b}) = b
    BY <1>4, MaxOfTwo
  <2>. QED
    BY <1>1, <1>3, <2>1 DEF Percentile
<1>6. PICK v, w : v = list[a] /\ w = list[b] /\ v \in Nat /\ w \in Nat
                  /\ a \in 1..n /\ b \in 1..n
  BY <1>2, <1>4
<1>7. /\ Cardinality(Below(list, v)) \in Nat /\ a <= Cardinality(Below(list, v))
  <2>1. /\ Cardinality(Below(list, v)) \in 0..Len(list)
        /\ \A i \in 1..Len(list) : list[i] <= v <=> i <= Cardinality(Below(list, v))
    BY <1>6, BelowIs
  <2>. QED
    BY <1>1, <1>6, <2>1
<1>8. v # 0 => Cardinality(Below(list, v - 1)) \in Nat /\ Cardinality(Below(list, v - 1)) < a
  <2> SUFFICES ASSUME v # 0
               PROVE  Cardinality(Below(list, v - 1)) \in Nat
                      /\ Cardinality(Below(list, v - 1)) < a
    OBVIOUS
  <2>1. PICK u : u = v - 1 /\ u \in Nat /\ ~(v <= u)
    <3>1. v - 1 \in Nat /\ ~(v <= v - 1)
      BY <1>6
    <3>. QED
      BY <3>1
  <2>2. /\ Cardinality(Below(list, u)) \in 0..Len(list)
        /\ \A i \in 1..Len(list) : list[i] <= u <=> i <= Cardinality(Below(list, u))
    BY <2>1, BelowIs
  <2>3. ~(a <= Cardinality(Below(list, u)))
    BY <1>1, <1>6, <2>1, <2>2
  <2>. QED
    BY <1>4, <2>1, <2>2, <2>3
<1>9. n < 100 => Cardinality(Below(list, w)) = n
  <2> SUFFICES ASSUME n < 100 PROVE Cardinality(Below(list, w)) = n
    OBVIOUS
  <2>1. /\ Cardinality(Below(list, w)) \in 0..Len(list)
        /\ \A i \in 1..Len(list) : list[i] <= w <=> i <= Cardinality(Below(list, w))
    BY <1>6, BelowIs
  <2>2. b = n /\ n \in 1..Len(list) /\ list[n] <= w
    BY <1>1, <1>4, <1>6
  <2>. QED
    BY <1>1, <2>1, <2>2
<1>10. 2 * Cardinality(Below(list, v)) >= n
  BY <1>1, <1>4, <1>7
<1>11. v = 0 \/ 2 * Cardinality(Below(list, v - 1)) < n
  BY <1>1, <1>4, <1>8
<1>12. v \in Nat /\ w \in Nat /\ v = Percentile(list, 50) /\ w = Percentile(list, 99)
  BY <1>5, <1>6
<1>. QED
  BY <1>1, <1>9, <1>10, <1>11, <1>12

(* Among fewer than 20 fixtures one is more than 5 points. *)
LEMMA LostIsRegression ==
    ASSUME NEW was \in Baselines, NEW is, is.successes \in Nat, is.fixtures \in Nat,
           is.fixtures < 20, was.fixtures = is.fixtures, was.successes > is.successes,
           NEW regressed \in Regressions(was, is)
    PROVE  regressed
<1>1. PICK a, b, f : /\ a = was.successes /\ b = is.successes /\ f = is.fixtures
                     /\ a \in Nat /\ b \in Nat /\ f \in Nat /\ a > b /\ a <= f /\ f < 20
  BY BenchAssumption
<1>2. f > 0
  BY <1>1
<1>3. 20 * (a * f) > 20 * (b * f) + f * f
  <2>1. PICK d \in Nat : a = b + 1 + d
    <3>1. a - b - 1 \in Nat /\ a = b + 1 + (a - b - 1)
      BY <1>1
    <3>. QED
      BY <3>1
  <2>2. a * f = b * f + f + d * f /\ d * f \in Nat /\ b * f \in Nat
    BY <1>1, <2>1
  <2>3. f * f < 20 * f
    <3>1. PICK e \in Nat : f + e = 20 /\ e > 0
      <4>1. 20 - f \in Nat /\ f + (20 - f) = 20 /\ 20 - f > 0
        BY <1>1
      <4>. QED
        BY <4>1
    <3>2. f * f + f * e = 20 * f /\ f * e > 0
      BY <1>1, <1>2, <3>1
    <3>. QED
      BY <1>1, <3>2
  <2>. QED
    BY <1>1, <2>2, <2>3
<1>4. Fell(<<a, f>>, <<b, f>>) = {TRUE}
  <2>1. PICK p, q, r \in Nat : p = a * f /\ q = b * f /\ r = f * f
    BY <1>1
  <2>2. 20 * p > 20 * q + r /\ 20 * p # 20 * q + r
    BY <1>3, <2>1
  <2>3. <<a, f>>[1] = a /\ <<a, f>>[2] = f /\ <<b, f>>[1] = b /\ <<b, f>>[2] = f
    OBVIOUS
  <2>4. Fell(<<a, f>>, <<b, f>>) = IF 20 * p = 20 * q + r THEN {TRUE, FALSE}
                                   ELSE {20 * p > 20 * q + r}
    BY <2>1, <2>3 DEF Fell
  <2>. QED
    BY <2>2, <2>4
<1>5. was.fixtures > 0 /\ is.fixtures > 0
  BY <1>1, <1>2
<1>6. PICK x \in SuccessFell(was, is) : x => regressed
  <2>1. PICK x \in SuccessFell(was, is),
             p \in RateFell(was.labels, is.labels, "spurious"),
             r \in RateFell(was.labels, is.labels, "missed") :
          regressed = (x \/ p \/ r \/ is.p99 > was.p99 + 5)
    BY DEF Regressions
  <2>. QED
    BY <2>1
<1>7. x = TRUE
  BY <1>1, <1>4, <1>5, <1>6 DEF SuccessFell
<1>. QED
  BY <1>6, <1>7

-----------------------------------------------------------------------------
BenchFields == {"pc", "results", "aggregate", "was", "exit"}

(* Every result is of its own fixture and counts it only if it was         *)
(* reviewed; the aggregate is that of the results, all of them.            *)
ResultSound(r, expected) ==
    /\ r \in ResultRec
    /\ IF r.ok /\ expected # << >>
       THEN /\ r.matched = Pairs(expected, r.shown)
            /\ r.matched + r.missed = Len(expected)
            /\ r.matched + r.spurious = Len(r.shown)
       ELSE r.matched = 0 /\ r.missed = 0 /\ r.spurious = 0

Regressed(b) ==
    /\ b.aggregate.fixtures < 20 /\ b.was.fixtures = b.aggregate.fixtures
    /\ b.was.successes > b.aggregate.successes

BenchSound ==
    /\ DOMAIN bench = BenchFields
    /\ bench.pc \in {"running", "compare", "ended"}
    /\ bench.results \in Seq(ResultRec) /\ Len(bench.results) <= Len(Fixtures)
    /\ \A i \in 1..Len(bench.results) : ResultSound(bench.results[i], Fixtures[i])
    /\ bench.pc # "running" => /\ Len(bench.results) = Len(Fixtures)
                               /\ bench.aggregate = AggregateOf(bench.results)
    /\ bench.pc = "ended" /\ Regressed(bench) => bench.exit = "regression"

LEMMA OutputIs ==
    ASSUME NEW o \in Outputs
    PROVE  o \in Seq(Spots) /\ Len(o) \in Nat
<1>1. PICK n \in 0..MaxFindings : o \in [1..n -> Spots]
  BY DEF Outputs
<1>2. n \in Nat
  BY BenchAssumption
<1>. QED
  BY <1>1, <1>2, ListIs

LEMMA NoOutput == << >> \in Outputs
<1>1. << >> \in [1..0 -> Spots]
  OBVIOUS
<1>2. 0 \in 0..MaxFindings
  BY BenchAssumption
<1>. QED
  BY <1>1, <1>2 DEF Outputs

LEMMA FailedSound ==
    ASSUME NEW i \in Nat, NEW k \in Nat, NEW s \in Nat, NEW expected
    PROVE  ResultSound(Failed(i, k, s), expected)
<1> DEFINE r == Failed(i, k, s)
<1>1. r \in ResultRec
  BY NoOutput DEF Failed, ResultRec
<1>2. r.ok = FALSE /\ r.matched = 0 /\ r.missed = 0 /\ r.spurious = 0
  BY DEF Failed
<1> HIDE DEF r
<1>3. ResultSound(r, expected)
  BY <1>1, <1>2 DEF ResultSound
<1>. QED
  BY <1>3 DEF r

LEMMA ScoredSound ==
    ASSUME NEW output \in Outputs, NEW kept \in Outputs, NEW expected \in Seq(Spots),
           NEW s \in Nat
    PROVE  ResultSound(Scored(output, kept, expected, s), expected)
<1>1. Len(output) \in Nat /\ kept \in Seq(Spots) /\ Len(kept) \in Nat
  BY OutputIs
<1>2. PICK m \in Nat :
        /\ m = Pairs(expected, kept) /\ m <= Len(expected) /\ m <= Len(kept)
        /\ ScoreAgainstLabels(kept, expected) =
              [matched |-> m, spurious |-> Len(kept) - m, missed |-> Len(expected) - m]
  BY <1>1, GreedyIsBest
<1>3. PICK score, labelled : /\ score = ScoreAgainstLabels(kept, expected)
                             /\ labelled = (expected # << >>) /\ labelled \in BOOLEAN
  OBVIOUS
<1>4. PICK a, b \in Nat : /\ a = Len(expected) - m /\ b = Len(kept) - m
                          /\ m + a = Len(expected) /\ m + b = Len(kept)
  BY <1>1, <1>2
<1>5. score.matched = m /\ score.missed = a /\ score.spurious = b
  BY <1>2, <1>3, <1>4
<1> DEFINE r == [ok |-> TRUE, initial |-> Len(output), kept |-> Len(kept), seconds |-> s,
                 labelled |-> labelled, matched |-> IF labelled THEN score.matched ELSE 0,
                 missed |-> IF labelled THEN score.missed ELSE 0,
                 spurious |-> IF labelled THEN score.spurious ELSE 0, shown |-> kept]
<1>6. Scored(output, kept, expected, s) = r
  BY <1>3 DEF Scored
<1>7. /\ r.ok = TRUE /\ r.shown = kept
      /\ r.matched = (IF labelled THEN m ELSE 0) /\ r.missed = (IF labelled THEN a ELSE 0)
      /\ r.spurious = (IF labelled THEN b ELSE 0)
  BY <1>5
<1>8. r \in ResultRec
  BY <1>1, <1>3, <1>5 DEF ResultRec
<1> HIDE DEF r
<1>9. ResultSound(r, expected)
  BY <1>2, <1>3, <1>4, <1>7, <1>8 DEF ResultSound
<1>. QED
  BY <1>6, <1>9

LEMMA RunOneSound ==
    ASSUME BenchSound, RunOne
    PROVE  BenchSound'
<1>1. PICK n, f : /\ n = Len(bench.results) /\ n \in Nat /\ n < Len(Fixtures)
                  /\ Len(Fixtures) \in Nat /\ n + 1 \in 1..Len(Fixtures)
                  /\ f = Fixtures[n + 1] /\ f \in Seq(Spots)
  <2>1. Len(Fixtures) \in Nat /\ \A i \in 1..Len(Fixtures) : Fixtures[i] \in Seq(Spots)
    BY BenchAssumption, ElementOfSeq
  <2>2. Len(bench.results) \in Nat /\ Len(bench.results) < Len(Fixtures)
    BY DEF BenchSound, RunOne
  <2>3. Len(bench.results) + 1 \in 1..Len(Fixtures)
    BY <2>1, <2>2
  <2>. QED
    BY <2>1, <2>2, <2>3
<1>2. PICK output \in Outputs, s \in Latencies :
        \E kept \in (IF Verifier THEN Verified(output) ELSE {output}),
           fail \in {"no", "read", "review", "verify"} :
           LET result == CASE fail = "no" ->
                                Scored(output, kept, Fixtures[Len(bench.results) + 1], s)
                           [] fail = "read" -> Failed(0, 0, 0)
                           [] fail = "review" -> Failed(0, 0, s)
                           [] fail = "verify" -> Failed(Len(output), Len(output), s)
           IN  /\ fail = "verify" => Verifier
               /\ bench' = [bench EXCEPT !.results = Append(@, result)]
  BY DEF RunOne
<1>3. s \in Nat /\ Len(output) \in Nat
  BY <1>2, BenchAssumption, OutputIs
<1> DEFINE Result(kept, fail) ==
        CASE fail = "no" -> Scored(output, kept, Fixtures[Len(bench.results) + 1], s)
          [] fail = "read" -> Failed(0, 0, 0)
          [] fail = "review" -> Failed(0, 0, s)
          [] fail = "verify" -> Failed(Len(output), Len(output), s)
<1>4. PICK kept \in (IF Verifier THEN Verified(output) ELSE {output}),
           fail \in {"no", "read", "review", "verify"} :
        bench' = [bench EXCEPT !.results = Append(@, Result(kept, fail))]
  BY <1>2
<1>r. \/ Result(kept, fail) = Scored(output, kept, f, s) \/ Result(kept, fail) = Failed(0, 0, 0)
      \/ Result(kept, fail) = Failed(0, 0, s)
      \/ Result(kept, fail) = Failed(Len(output), Len(output), s)
  BY <1>1
<1> HIDE DEF Result
<1>5. kept \in Outputs
  BY <1>2, <1>4 DEF Verified
<1>6. PICK r : ResultSound(r, f) /\ bench' = [bench EXCEPT !.results = Append(@, r)]
  <2>1. ResultSound(Result(kept, fail), f)
    BY <1>1, <1>3, <1>5, <1>r, ScoredSound, FailedSound
  <2>. QED
    BY <1>4, <2>1
<1>7. r \in ResultRec
  BY <1>6 DEF ResultSound
<1>8. PICK list, more : list = bench.results /\ more = Append(list, r) /\ list \in Seq(ResultRec)
  BY DEF BenchSound
<1>9. /\ more \in Seq(ResultRec) /\ Len(more) = n + 1 /\ more[n + 1] = r
      /\ \A i \in 1..n : more[i] = list[i]
  BY <1>1, <1>7, <1>8, Appended
<1>10. /\ DOMAIN bench' = BenchFields /\ bench'.results = more /\ bench'.pc = "running"
  BY <1>6, <1>8 DEF BenchSound, BenchFields, RunOne
<1>11. ASSUME NEW i \in 1..(n + 1) PROVE ResultSound(more[i], Fixtures[i])
  <2>1. CASE i = n + 1
    BY <1>1, <1>6, <1>9, <2>1
  <2>2. CASE i # n + 1
    <3>1. i \in 1..n
      BY <1>1, <2>2
    <3>. QED
      BY <1>1, <1>8, <1>9, <3>1 DEF BenchSound
  <2>. QED
    BY <2>1, <2>2
<1>12. n + 1 <= Len(Fixtures)
  BY <1>1
<1>. QED
  BY <1>9, <1>10, <1>11, <1>12 DEF BenchSound

LEMMA BenchStepSound ==
    ASSUME BenchSound, BenchStep
    PROVE  BenchSound'
<1>1. CASE RunOne
  BY <1>1, RunOneSound
<1>2. CASE Aggregate
  <2> DEFINE k == [bench EXCEPT !.pc = "compare", !.aggregate = AggregateOf(bench.results)]
  <2>1. /\ DOMAIN k = BenchFields /\ k.pc = "compare" /\ k.results = bench.results
        /\ k.aggregate = AggregateOf(bench.results)
    BY DEF BenchSound, BenchFields
  <2>2. bench' = k /\ Len(bench.results) = Len(Fixtures)
    BY <1>2 DEF Aggregate
  <2> HIDE DEF k
  <2>. QED
    BY <2>1, <2>2 DEF BenchSound
<1>3. CASE Compare
  <2>b. PICK was \in Baselines : \E regressed \in Regressions(was, bench.aggregate) :
          bench' = [bench EXCEPT !.pc = "ended", !.was = was,
                       !.exit = IF regressed THEN "regression" ELSE "ok"]
    BY <1>3 DEF Compare
  <2>1. PICK regressed \in Regressions(was, bench.aggregate) :
          bench' = [bench EXCEPT !.pc = "ended", !.was = was,
                       !.exit = IF regressed THEN "regression" ELSE "ok"]
    BY <2>b
  <2>2. PICK exit : exit = (IF regressed THEN "regression" ELSE "ok")
    OBVIOUS
  <2> DEFINE k == [bench EXCEPT !.pc = "ended", !.was = was, !.exit = exit]
  <2>3. /\ DOMAIN k = BenchFields /\ k.pc = "ended" /\ k.results = bench.results
        /\ k.aggregate = bench.aggregate /\ k.was = was /\ k.exit = exit
    BY DEF BenchSound, BenchFields
  <2>4. bench' = k
    BY <2>1, <2>2
  <2> HIDE DEF k
  <2>5. /\ bench.pc = "compare" /\ bench.aggregate = AggregateOf(bench.results)
        /\ Len(bench.results) = Len(Fixtures) /\ Len(bench.results) \in Nat
    BY <1>3 DEF Compare, BenchSound
  <2>6. bench.aggregate.successes \in Nat /\ bench.aggregate.fixtures \in Nat
    <3>1. Successes(bench.results, Len(bench.results)) \in SUBSET (1..Len(bench.results))
      BY DEF Successes
    <3>2. Cardinality(Successes(bench.results, Len(bench.results))) \in Nat
      BY <2>5, <3>1, Counted
    <3>3. /\ bench.aggregate.successes = Cardinality(Successes(bench.results, Len(bench.results)))
          /\ bench.aggregate.fixtures = Len(bench.results)
      BY <2>5 DEF AggregateOf, Successes
    <3>. QED
      BY <2>5, <3>2, <3>3
  <2>7. Regressed(k) => exit = "regression"
    BY <2>1, <2>2, <2>3, <2>6, LostIsRegression DEF Regressed
  <2>. QED
    BY <2>3, <2>4, <2>5, <2>7 DEF BenchSound
<1>. QED
  BY <1>1, <1>2, <1>3 DEF BenchStep

(* What a finished run says follows from the results. *)
LEMMA AggregateAddsUp ==
    ASSUME BenchSound, bench.pc # "running"
    PROVE  BenchAddsUp
<1>1. PICK n, list, agg : /\ n = Len(Fixtures) /\ list = bench.results /\ agg = bench.aggregate
  OBVIOUS
<1>2. /\ list \in Seq(ResultRec) /\ Len(list) = n /\ n \in Nat /\ agg = AggregateOf(list)
      /\ \A i \in 1..n : ResultSound(list[i], Fixtures[i])
  BY <1>1 DEF BenchSound
<1>3. \A i \in 1..n : /\ list[i].ok \in BOOLEAN /\ list[i].matched \in Nat
                      /\ list[i].missed \in Nat /\ list[i].spurious \in Nat
  BY <1>2 DEF ResultSound, ResultRec
<1>4. /\ agg.labels.matched = SumOf(Column(list, "matched"))
      /\ agg.labels.missed = SumOf(Column(list, "missed"))
      /\ agg.labels.spurious = SumOf(Column(list, "spurious"))
      /\ agg.successes = Cardinality(Successes(list, n)) /\ agg.fixtures = n
      /\ agg.median = Percentile(SortedLatencies(list), 50)
      /\ agg.p99 = Percentile(SortedLatencies(list), 99)
  BY <1>2 DEF AggregateOf, LabelScore, Successes
<1> DEFINE best == [i \in 1..n |-> IF Seen(i) THEN Pairs(Fixtures[i], list[i].shown) ELSE 0]
           labels == [i \in 1..n |-> IF Seen(i) THEN Len(Fixtures[i]) ELSE 0]
           shown == [i \in 1..n |-> IF Seen(i) THEN Len(list[i].shown) ELSE 0]
<1>5. \A i \in 1..n : /\ list[i].matched = best[i]
                      /\ list[i].matched + list[i].missed = labels[i]
                      /\ list[i].matched + list[i].spurious = shown[i]
  BY <1>1, <1>2 DEF ResultSound, Seen
<1>6. /\ Column(list, "matched") = [i \in 1..n |-> list[i].matched]
      /\ Column(list, "missed") = [i \in 1..n |-> list[i].missed]
      /\ Column(list, "spurious") = [i \in 1..n |-> list[i].spurious]
  BY <1>2 DEF Column
<1>7. PICK a, b, c : a = Column(list, "matched") /\ b = Column(list, "missed")
                     /\ c = Column(list, "spurious")
  OBVIOUS
<1>8. a \in [1..n -> Nat] /\ b \in [1..n -> Nat] /\ c \in [1..n -> Nat]
  <2>1. a \in [1..n -> Nat]
    BY <1>3, <1>6, <1>7
  <2>2. b \in [1..n -> Nat]
    BY <1>3, <1>6, <1>7
  <2>3. c \in [1..n -> Nat]
    BY <1>3, <1>6, <1>7
  <2>. QED
    BY <2>1, <2>2, <2>3
<1>9. /\ a = best /\ \A i \in 1..n : a[i] + b[i] = labels[i] /\ a[i] + c[i] = shown[i]
  <2>1. \A i \in 1..n : /\ a[i] = list[i].matched /\ b[i] = list[i].missed
                        /\ c[i] = list[i].spurious
    BY <1>6, <1>7
  <2>2. \A i \in 1..n : /\ a[i] = best[i]
                        /\ a[i] + b[i] = labels[i] /\ a[i] + c[i] = shown[i]
    <3> HIDE DEF best, labels, shown
    <3>. QED
      BY ONLY <1>5, <2>1, Zenon
  <2>3. a = [i \in 1..n |-> a[i]]
    BY <1>8
  <2>4. best = [i \in 1..n |-> best[i]]
    OBVIOUS
  <2>5. a = best
    <3> HIDE DEF best
    <3>. QED
      BY ONLY <2>2, <2>3, <2>4, Zenon
  <2>. QED
    BY ONLY <2>2, <2>5, Zenon
<1>10. labels \in [1..n -> Nat] /\ shown \in [1..n -> Nat]
  <2>1. DOMAIN labels = 1..n /\ DOMAIN shown = 1..n
    OBVIOUS
  <2>2. \A i \in 1..n : a[i] + b[i] \in Nat /\ a[i] + c[i] \in Nat
    BY <1>8
  <2>. QED
    BY <1>9, <2>2
<1>11. /\ OfSeen([i \in 1..n |-> Pairs(Fixtures[i], list[i].shown)]) = SumOf(best)
       /\ OfSeen([i \in 1..n |-> Len(Fixtures[i])]) = SumOf(labels)
       /\ OfSeen([i \in 1..n |-> Len(list[i].shown)]) = SumOf(shown)
  <2>1. ASSUME NEW value
        PROVE  OfSeen(value) = SumOf([i \in 1..n |-> IF Seen(i) THEN value[i] ELSE 0])
    BY <1>1 DEF OfSeen
  <2>. QED
    BY <2>1
<1> HIDE DEF best, labels, shown
<1>12. AddsTo(n, a, b, labels) /\ AddsTo(n, a, c, shown)
  BY <1>2, <1>8, <1>9, <1>10, ListIs DEF AddsTo
<1>13. SumOf(a) + SumOf(b) = SumOf(labels) /\ SumOf(a) + SumOf(c) = SumOf(shown)
  BY <1>2, <1>12, SumsAdd
<1>14. PICK sorted : sorted = SortedLatencies(list) /\ SortsFirst(sorted, list, n)
  BY <1>2, Sorts
<1>15. \A v : Within(v) = Cardinality(TimedUpTo(list, n, v))
  BY <1>1 DEF Within, TimedUpTo
<1>16. ASSUME \E i \in 1..n : list[i].ok
       PROVE  /\ 2 * Within(agg.median) >= agg.successes
              /\ agg.median = 0 \/ 2 * Within(agg.median - 1) < agg.successes
              /\ agg.successes < 100 => Within(agg.p99) = agg.successes
  <2>1. /\ sorted \in Seq(Nat) /\ InOrder(sorted) /\ Len(sorted) = agg.successes
        /\ \A v \in Nat : Cardinality(Below(sorted, v)) = Within(v)
    BY <1>4, <1>14, <1>15 DEF SortsFirst
  <2>2. sorted # << >>
    <3>1. Successes(list, n) \in SUBSET (1..n) /\ Successes(list, n) # {}
      BY <1>16 DEF Successes
    <3>2. IsFiniteSet(Successes(list, n))
      BY <1>2, <3>1, Counted
    <3>3. agg.successes # 0
      BY <1>4, <3>1, <3>2, FS_EmptySet
    <3>4. Len(<< >>) = 0
      OBVIOUS
    <3>. QED
      BY <2>1, <3>3, <3>4
  <2>3. PICK v, w \in Nat :
          /\ v = agg.median /\ w = agg.p99
          /\ 2 * Cardinality(Below(sorted, v)) >= Len(sorted)
          /\ v = 0 \/ 2 * Cardinality(Below(sorted, v - 1)) < Len(sorted)
          /\ Len(sorted) < 100 => Cardinality(Below(sorted, w)) = Len(sorted)
    BY <1>4, <1>14, <2>1, <2>2, Ranks
  <2>4. v # 0 => v - 1 \in Nat
    BY <2>3
  <2>. QED
    BY <2>1, <2>3, <2>4
<1>17. bench.pc = "ended" /\ agg.fixtures < 20 /\ bench.was.fixtures = agg.fixtures
         /\ bench.was.successes > agg.successes
       => bench.exit = "regression"
  BY <1>1 DEF BenchSound, Regressed
<1>18. /\ agg.labels.matched = SumOf(best)
       /\ agg.labels.matched + agg.labels.missed = SumOf(labels)
       /\ agg.labels.matched + agg.labels.spurious = SumOf(shown)
  BY <1>4, <1>7, <1>9, <1>13
<1>. QED
  BY <1>1, <1>11, <1>16, <1>17, <1>18 DEF BenchAddsUp

(* The figures of a benchmark add up: the greedy matching is the best      *)
(* there is, matched, missed and spurious partition what was reviewed, the *)
(* percentiles are nearest ranks, and a lost fixture is a regression; for  *)
(* any fixtures, findings, latencies and baselines.                        *)
THEOREM BenchAdds == Spec => []BenchAddsUp
<1>1. Init => BenchSound
  <2> SUFFICES ASSUME Init PROVE BenchSound
    OBVIOUS
  <2>1. bench = NoBench
    BY DEF Init
  <2>2. /\ DOMAIN NoBench = BenchFields /\ NoBench.pc = "running" /\ NoBench.results = << >>
    BY DEF NoBench, BenchFields
  <2>3. << >> \in Seq(ResultRec) /\ Len(<< >>) = 0
    OBVIOUS
  <2>4. Len(Fixtures) \in Nat
    BY BenchAssumption
  <2>. QED
    BY <2>1, <2>2, <2>3, <2>4 DEF BenchSound
<1>2. BenchSound /\ [Next]_vars => BenchSound'
  <2> SUFFICES ASSUME BenchSound, [Next]_vars PROVE BenchSound'
    OBVIOUS
  <2>1. CASE UNCHANGED bench
    BY <2>1 DEF BenchSound, Regressed
  <2>2. CASE BenchNext
    BY <2>2, BenchStepSound DEF BenchNext
  <2>. QED
    BY <2>1, <2>2
       DEF Next, HooksNext, GithubNext, CostNext, CheckoutNext, SetupNext, vars
<1>3. BenchSound => BenchAddsUp
  <2>1. CASE bench.pc = "running"
    BY <2>1 DEF BenchAddsUp
  <2>. QED
    BY <2>1, AggregateAddsUp
<1>. QED
  BY <1>1, <1>2, <1>3, PTL DEF Spec
=============================================================================
