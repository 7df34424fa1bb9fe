--------------------------- MODULE GatewayProofs ---------------------------
(***************************************************************************)
(* Proofs about Gateway for every environment, set of requests, load, rate *)
(* and time to live.                                                       *)
(*                                                                         *)
(* The launcher's facts follow the place of the two processes.  The facts  *)
(* about requests rest on one invariant of a request's record: it is at a  *)
(* place of its own route, and past the signature check only if its        *)
(* signature is good.                                                      *)
(***************************************************************************)
EXTENDS Gateway, FiniteSetTheorems, TLAPS

(* Launching and serving change different variables. *)
LEMMA Split ==
    ASSUME [Next]_vars
    PROVE  \/ Launch /\ UNCHANGED serveVars
           \/ Drained
           \/ UNCHANGED launchVars
BY DEF Next, vars

(* A bundle is there only while the launcher has it to remove. *)
Staged ==
    stage # "none" =>
        \/ outer \in {"restrict", "rootfs", "config", "runtime", "waiting", "cleanup"}
        \/ outer = "ended" /\ mishap

(* The launcher never leaves a staged bundle behind, unless it was killed  *)
(* or could not remove it: a stage that exists belongs to a launcher that  *)
(* is still at a step from which it is removed.                            *)
THEOREM StageCleared == Spec => []StageIsRemoved
<1>1. Init => Staged
  BY DEF Init, LaunchInit, Staged
<1>2. Staged /\ [Next]_vars => Staged'
  <2> SUFFICES ASSUME Staged, [Next]_vars PROVE Staged'
    OBVIOUS
  <2>1. CASE OuterStep
    BY <2>1 DEF OuterStep, Staged, SelectLauncher, PrepareEmbeddedOci, CreateStage,
                FillStage, RestrictStage, LinkPackagedRootfs, WriteStagedConfig,
                RunRuntime, RuntimeExits, RemoveStage
  <2>2. CASE KillLauncher
    BY <2>2 DEF KillLauncher, Staged
  <2>3. CASE BootStep \/ ShutdownSignal
    BY <2>3 DEF BootStep, ShutdownSignal, ReadConfig, OpenStores, ClassifyPosture,
                ValidateCiToken, BindListener, Staged
  <2>4. CASE Drained \/ UNCHANGED launchVars
    BY <2>4 DEF Drained, launchVars, Staged
  <2>. QED
    BY <2>1, <2>2, <2>3, <2>4, Split DEF Launch
<1>3. Staged => StageIsRemoved
  BY DEF Staged, StageIsRemoved
<1>. QED
  BY <1>1, <1>2, <1>3, PTL DEF Spec

(* The gateway's process: before it exists nothing is known of it; while   *)
(* it does, it is told of a container exactly when one is around it, and   *)
(* none is around it only because the operator said so.                    *)
GatewayRec ==
    [pc : {"none", "config", "stores", "posture", "token", "bind", "serving",
           "draining", "ended"},
     confined : BOOLEAN, external : BOOLEAN,
     posture : {"none", "external_container", "explicit_bare", "oci_default"}]

Confinement ==
    /\ env \in EnvironmentType /\ gateway \in GatewayRec
    /\ gateway.pc # "none" =>
          /\ gateway.external = gateway.confined
          /\ ~gateway.confined => env.flag \/ env.bare = "on"
    /\ gateway.pc \in {"token", "bind", "serving", "draining"} /\ ~env.flag =>
          (gateway.posture = "explicit_bare") = ~gateway.confined

LEMMA Booted ==
    ASSUME NEW c \in BOOLEAN, NEW e \in BOOLEAN
    PROVE  /\ Boot(c, e) \in GatewayRec
           /\ Boot(c, e).pc = "config"
           /\ Boot(c, e).confined = c /\ Boot(c, e).external = e
BY DEF Boot, NoGateway, GatewayRec

LEMMA NextConfinement ==
    ASSUME Confinement, [Next]_vars
    PROVE  Confinement'
<1>1. ASSUME NEW c \in BOOLEAN, gateway' = Boot(c, c), env' = env,
             ~c => env.flag \/ env.bare = "on"
      PROVE  Confinement'
  <2>1. PICK g : g = Boot(c, c)
    OBVIOUS
  <2>2. g \in GatewayRec /\ g.pc = "config" /\ g.confined = c /\ g.external = c
    BY <2>1, Booted
  <2>. QED
    BY <1>1, <2>1, <2>2 DEF Confinement
<1>2. ASSUME NEW from, NEW to, env' = env, gateway.pc = from, from # "none",
             gateway' = [gateway EXCEPT !.pc = to],
             \/ to \in {"stores", "posture", "ended"}
             \/ /\ from \in {"token", "bind", "serving"}
                /\ to \in {"bind", "serving", "draining"}
      PROVE  Confinement'
  <2>1. /\ gateway' \in GatewayRec /\ gateway'.pc = to
        /\ gateway'.confined = gateway.confined /\ gateway'.external = gateway.external
        /\ gateway'.posture = gateway.posture
    BY <1>2 DEF Confinement, GatewayRec
  <2>. QED
    BY <1>2, <2>1 DEF Confinement
<1>3. CASE UNCHANGED <<env, gateway>>
  BY <1>3 DEF Confinement
<1>4. CASE SelectLauncher
  <2>1. env.external \in BOOLEAN /\ env.flag \in BOOLEAN
    BY DEF Confinement, EnvironmentType
  <2>2. CASE env.external
    BY <1>1, <1>4, <2>2 DEF SelectLauncher
  <2>3. CASE ~env.external
    <3>1. \/ UNCHANGED <<env, gateway>>
          \/ /\ env' = env /\ gateway' = Boot(FALSE, FALSE)
             /\ env.flag \/ UseOci(env.bare) = "bare"
      <4>1. PICK choice : choice = IF env.flag THEN "bare" ELSE UseOci(env.bare)
        OBVIOUS
      <4>2. /\ env' = env
            /\ \/ choice = "bare" /\ gateway' = Boot(FALSE, FALSE)
               \/ gateway' = gateway
        <5>1. env.external = FALSE
          BY <2>1, <2>3
        <5>2. choice # "external"
          BY <4>1 DEF UseOci
        <5>. QED
          BY <1>4, <4>1, <5>1, <5>2 DEF SelectLauncher
      <4>. QED
        BY <2>1, <4>1, <4>2
    <3>2. UseOci(env.bare) = "bare" => env.bare = "on"
      BY DEF UseOci
    <3>. QED
      BY <1>1, <1>3, <3>1, <3>2
  <2>. QED
    BY <2>1, <2>2, <2>3
<1>5. CASE RunRuntime
  BY <1>1, <1>3, <1>5 DEF RunRuntime, BootInside
<1>6. CASE \/ PrepareEmbeddedOci \/ CreateStage \/ FillStage \/ RuntimeExits
           \/ RemoveStage \/ KillLauncher
  BY <1>3, <1>6 DEF PrepareEmbeddedOci, CreateStage, FillStage, RuntimeExits,
                    RemoveStage, KillLauncher
<1>7. CASE ReadConfig \/ OpenStores \/ ValidateCiToken \/ BindListener \/ ShutdownSignal
  <2>1. /\ env' = env
        /\ \/ Advance("config", "ended") \/ Advance("config", "stores")
           \/ Advance("stores", "posture") \/ Advance("stores", "ended")
           \/ Advance("token", "ended") \/ Advance("token", "bind")
           \/ Advance("bind", "serving") \/ Advance("bind", "ended")
           \/ Advance("serving", "draining")
    BY <1>7 DEF ReadConfig, OpenStores, ValidateCiToken, BindListener, ShutdownSignal
  <2>. QED
    BY <1>2, <2>1 DEF Advance
<1>8. CASE ClassifyPosture
  <2>1. PICK p : p = PostureOf(env.bare, gateway.external)
    OBVIOUS
  <2>2. /\ p \in {"none", "external_container", "explicit_bare", "oci_default"}
        /\ gateway.external => p = "external_container"
        /\ ~gateway.external => (p = "explicit_bare") = (env.bare = "on")
    BY <2>1 DEF PostureOf, UseOci
  <2>3. /\ gateway.pc = "posture" /\ env' = env
        /\ gateway' = [gateway EXCEPT !.pc = IF p = "none" THEN "ended" ELSE "token",
                                      !.posture = p]
    BY <1>8, <2>1 DEF ClassifyPosture
  <2>4. /\ gateway' \in GatewayRec /\ gateway'.pc \in {"ended", "token"}
        /\ gateway'.confined = gateway.confined /\ gateway'.external = gateway.external
        /\ gateway'.posture = p
    BY <2>2, <2>3 DEF Confinement, GatewayRec
  <2>. QED
    BY <2>2, <2>3, <2>4 DEF Confinement, GatewayRec
<1>9. CASE Drained
  <2>1. env' = env /\ Advance("draining", "ended")
    BY <1>9 DEF Drained, Advance
  <2>. QED
    BY <1>2, <2>1 DEF Advance
<1>. QED
  BY <1>3, <1>4, <1>5, <1>6, <1>7, <1>8, <1>9, Split
     DEF Launch, OuterStep, BootStep, launchVars

(* A gateway without a container around it was asked for, and one that was *)
(* configured by variables alone reports its isolation as it is, whatever  *)
(* failed on the way and for every environment.                            *)
THEOREM IsolationKept == Spec => []IsolationAsAsked
<1>1. Init => Confinement
  BY LaunchAssumption DEF Init, LaunchInit, NoGateway, GatewayRec, Confinement
<1>2. Confinement /\ [Next]_vars => Confinement'
  BY NextConfinement
<1>3. Confinement => IsolationAsAsked
  BY DEF Confinement, IsolationAsAsked, Serving, GatewayRec
<1>. QED
  BY <1>1, <1>2, <1>3, PTL DEF Spec

-----------------------------------------------------------------------------
(* Requests                                                                *)

WebhookPlaces == {"webhook", "take", "verify", "dedup", "route", "claim"}
CiPlaces      == {"ci", "fetch", "dispatch"}
ReadyPlaces   == {"ready", "probe"}
Places        == WebhookPlaces \cup CiPlaces \cup ReadyPlaces \cup
                 {"metrics", "idle", "answered", "gone"}

RequestRec ==
    [pc : Places, clock : Nat, floor : Nat, status : Nat, read : Seq(Nat),
     during : SUBSET Recorders]

(* A request is at a place of its own route, past the signature check only *)
(* with a good signature; a readiness answer is of a probe that is new; a  *)
(* scrape is answered when every line is read.                             *)
RequestSound(r, k) ==
    /\ k \in RequestRec
    /\ k.pc \in WebhookPlaces => Kind[r].route = "webhook"
    /\ k.pc \in CiPlaces => Kind[r].route = "ci"
    /\ k.pc \in ReadyPlaces => Kind[r].route = "ready"
    /\ k.pc = "metrics" => Kind[r].route = "metrics"
    /\ k.pc \in {"dedup", "route", "claim"} => Kind[r].signature = "good"
    /\ k.pc = "answered" /\ Kind[r].route = "ready" => k.clock = 0 \/ k.clock < TTL
    /\ k.pc = "gone" => Kind[r].route # "metrics"
    /\ k.pc = "idle" => k.read = <<>>
    /\ k.pc = "metrics" => Len(k.read) <= 4
    /\ k.pc = "answered" /\ Kind[r].route = "metrics" => Len(k.read) = 5

(* TakenUp, of a record that delivery r may come to.                       *)
Passed(r, k) ==
    /\ Kind[r].signature = "good"
    /\ \/ k.pc \in {"route", "claim", "gone"}
       \/ k.pc = "answered" /\ k.status \in {202, 400}
       \/ k.pc = "answered" /\ k.status = 200 /\ Kind[r].event = "ping"

(* Refused as a duplicate, of a record that delivery r may come to.        *)
Bounced(r, k) == /\ Kind[r].route = "webhook" /\ Kind[r].event # "ping"
                 /\ k.pc = "answered" /\ k.status = 200

(* The cached entry is the last probe that completed.                      *)
CacheSound ==
    /\ probes \in Seq(Nat)
    /\ cache = <<>> => probes = <<>>
    /\ cache # <<>> =>
          /\ cache[1] \in [at : Nat, healthy : BOOLEAN, probed : Nat]
          /\ cache[1].probed = cache[1].at /\ cache[1].at <= now
          /\ probes # <<>> /\ probes[Len(probes)] = cache[1].at

(* The one invariant about requests that the others rest on.               *)
RequestsSound ==
    /\ now \in Nat /\ forge \in [up : BOOLEAN, head : Nat]
    /\ metric \in [Counters -> Nat]
    /\ req \in [Requests -> RequestRec]
    /\ \A r \in Requests : RequestSound(r, req[r])
    /\ \A r \in Requests : req[r].clock <= now
    /\ CacheSound

(* What a step makes of the request it handles, other than a scrape.       *)
Moves(r, m) ==
    /\ req' = [req EXCEPT ![r] = m]
    /\ RequestSound(r, m) /\ m.clock <= now
    /\ Passed(r, req[r]) => Passed(r, m)
    /\ Bounced(r, m) => Kind[r].delivery \in seen
    /\ m.floor \in {req[r].floor, 0, forge.head}
    /\ m.pc = "dispatch" => Kind[r].head = forge.head /\ m.floor = req[r].floor
    /\ m.pc = "probe" => CheckReady(r)
    /\ Kind[r].route = "metrics" =>
          /\ m.read = req[r].read /\ m.during = req[r].during
          /\ req[r].pc = "idle" /\ m.pc = "metrics"

LEMMA IdleType ==
    /\ Idle \in RequestRec /\ Idle.pc = "idle" /\ Idle.clock = 0 /\ Idle.floor = 0
    /\ Idle.read = <<>> /\ Idle.status = 0
<1>1. <<>> \in Seq(Nat) /\ {} \in SUBSET Recorders
  OBVIOUS
<1>. QED
  BY <1>1 DEF Idle, RequestRec, Places

LEMMA Answering ==
    ASSUME NEW status \in Nat, NEW clock \in Nat
    PROVE  LET m == [Idle EXCEPT !.pc = "answered", !.status = status, !.clock = clock]
           IN  /\ m \in RequestRec
               /\ m.pc = "answered" /\ m.status = status /\ m.clock = clock
               /\ m.floor = 0
BY IdleType DEF RequestRec, Places

LEMMA Responds ==
    ASSUME RequestsSound, NEW r \in Requests, NEW status \in Nat, Respond(r, status),
           Kind[r].route # "metrics",
           \/ ~Passed(r, req[r]) \/ status \in {202, 400}
           \/ status = 200 /\ Kind[r].event = "ping",
           Kind[r].route = "webhook" /\ status = 200 =>
               Kind[r].event = "ping" \/ Kind[r].delivery \in seen
    PROVE  \E m : Moves(r, m)
<1> DEFINE m == [Idle EXCEPT !.pc = "answered", !.status = status]
<1>1. /\ m \in RequestRec /\ m.pc = "answered" /\ m.status = status
      /\ m.clock = 0 /\ m.floor = 0
  BY IdleType DEF RequestRec, Places
<1>2. req' = [req EXCEPT ![r] = m]
  BY DEF Respond
<1> HIDE DEF m
<1>3. RequestSound(r, m)
  BY <1>1 DEF RequestSound, WebhookPlaces, CiPlaces, ReadyPlaces
<1>4. Moves(r, m)
  BY <1>1, <1>2, <1>3 DEF Moves, Passed, Bounced, RequestsSound
<1>. QED
  BY <1>4

LEMMA GoesOn ==
    ASSUME RequestsSound, NEW r \in Requests, NEW pc \in Places, Goto(r, pc),
           Kind[r].route # "metrics",
           \/ /\ pc \in {"dedup", "route", "claim"} /\ Kind[r].route = "webhook"
              /\ Kind[r].signature = "good"
              /\ pc = "dedup" => ~Passed(r, req[r])
           \/ pc = "fetch" /\ Kind[r].route = "ci" /\ ~Passed(r, req[r])
           \/ /\ pc = "dispatch" /\ Kind[r].route = "ci" /\ Kind[r].head = forge.head
              /\ ~Passed(r, req[r])
    PROVE  \E m : Moves(r, m)
<1> DEFINE m == [req[r] EXCEPT !.pc = pc]
<1>1. req[r] \in RequestRec
  BY DEF RequestsSound
<1>2. /\ m \in RequestRec /\ m.pc = pc /\ m.clock = req[r].clock
      /\ m.floor = req[r].floor
  BY <1>1 DEF RequestRec
<1>3. req' = [req EXCEPT ![r] = m]
  BY DEF Goto
<1> HIDE DEF m
<1>4. RequestSound(r, m)
  BY <1>2 DEF RequestSound, WebhookPlaces, CiPlaces, ReadyPlaces
<1>5. (Passed(r, req[r]) => Passed(r, m)) /\ ~Bounced(r, m)
  BY <1>2 DEF Passed, Bounced
<1>. QED
  BY <1>2, <1>3, <1>4, <1>5 DEF Moves, RequestsSound

(* Every step moves at most one request, but for a review task's report,   *)
(* which every scrape under way takes note of.                             *)
LEMMA RequestSteps ==
    ASSUME RequestsSound, Next
    PROVE  \/ UNCHANGED req
           \/ \E r \in Requests : \E m : Moves(r, m)
           \/ \E r \in Requests : Scrape(r)
           \/ \E t \in Recorders : RecordReview(t)
<1>1. ASSUME NEW r \in Requests, Arrive(r) PROVE \E m : Moves(r, m)
  <2> DEFINE m == [req[r] EXCEPT !.pc = Kind[r].route, !.floor = forge.head]
  <2>1. req[r] \in RequestRec /\ forge.head \in Nat /\ Kind[r].route \in Places
    BY ServeAssumption DEF RequestsSound, Places, WebhookPlaces, CiPlaces, ReadyPlaces
  <2>2. /\ m \in RequestRec /\ m.pc = Kind[r].route /\ m.floor = forge.head
        /\ m.clock = req[r].clock /\ m.read = req[r].read /\ m.during = req[r].during
    BY <2>1 DEF RequestRec
  <2>3. req' = [req EXCEPT ![r] = m] /\ req[r].pc = "idle"
    BY <1>1 DEF Arrive
  <2> HIDE DEF m
  <2>4. RequestSound(r, m)
    BY <2>2, <2>3, ServeAssumption
       DEF RequestsSound, RequestSound, WebhookPlaces, CiPlaces, ReadyPlaces
  <2>5. Moves(r, m)
    BY <2>2, <2>3, <2>4, ServeAssumption DEF Moves, Passed, Bounced, RequestsSound
  <2>. QED
    BY <2>5
<1>2. ASSUME NEW r \in Requests, ReadClock(r) PROVE \E m : Moves(r, m)
  <2>1. PICK c, p : /\ c = (IF LimiterOn THEN now ELSE 0)
                    /\ p = (IF LimiterOn THEN "take" ELSE "verify")
    OBVIOUS
  <2> DEFINE m == [req[r] EXCEPT !.clock = c, !.pc = p]
  <2>2. c \in Nat /\ c <= now /\ p \in {"take", "verify"} /\ p \in Places
    BY <2>1 DEF RequestsSound, Places, WebhookPlaces
  <2>3. req[r] \in RequestRec /\ req[r].pc = "webhook" /\ RequestSound(r, req[r])
    BY <1>2 DEF RequestsSound, ReadClock
  <2>4. m \in RequestRec /\ m.pc = p /\ m.clock = c /\ m.floor = req[r].floor
    BY <2>2, <2>3 DEF RequestRec
  <2>5. req' = [req EXCEPT ![r] = m]
    BY <1>2, <2>1 DEF ReadClock
  <2> HIDE DEF m
  <2>6. RequestSound(r, m)
    BY <2>2, <2>3, <2>4 DEF RequestSound, WebhookPlaces, CiPlaces, ReadyPlaces
  <2>7. Moves(r, m)
    BY <2>2, <2>3, <2>4, <2>5, <2>6
       DEF Moves, Passed, Bounced, RequestSound, WebhookPlaces
  <2>. QED
    BY <2>7
<1>3. ASSUME NEW r \in Requests, TryTakeAt(r) PROVE \E m : Moves(r, m)
  <2>1. /\ req[r] \in RequestRec /\ req[r].pc = "take" /\ RequestSound(r, req[r])
        /\ now \in Nat
    BY <1>3 DEF RequestsSound, TryTakeAt
  <2>2. Kind[r].route = "webhook"
    BY <2>1 DEF RequestSound, WebhookPlaces
  <2> DEFINE m == [req[r] EXCEPT !.pc = "verify", !.clock = 0]
  <2>3. Respond(r, 429) \/ req' = [req EXCEPT ![r] = m]
    BY <1>3 DEF TryTakeAt
  <2>4. m \in RequestRec /\ m.pc = "verify" /\ m.clock = 0 /\ m.floor = req[r].floor
    BY <2>1 DEF RequestRec, Places, WebhookPlaces
  <2>5. req' = [req EXCEPT ![r] = m] => Moves(r, m)
    <3> HIDE DEF m
    <3>1. RequestSound(r, m)
      BY <2>2, <2>4 DEF RequestSound, WebhookPlaces, CiPlaces, ReadyPlaces
    <3>. QED
      BY <2>1, <2>2, <2>4, <3>1 DEF Moves, Passed, Bounced
  <2>6. ~Passed(r, req[r])
    BY <2>1 DEF Passed
  <2>. QED
    BY <2>2, <2>3, <2>5, <2>6, Responds
<1>4. ASSUME NEW r \in Requests, VerifySignature(r) PROVE \E m : Moves(r, m)
  <2>1. req[r].pc = "verify" /\ RequestSound(r, req[r])
    BY <1>4 DEF RequestsSound, VerifySignature
  <2>2. Kind[r].route = "webhook" /\ ~Passed(r, req[r])
    BY <2>1 DEF RequestSound, WebhookPlaces, Passed
  <2>3. \/ /\ Kind[r].signature = "good"
           /\ Goto(r, "dedup") \/ Goto(r, "route")
        \/ Respond(r, 400) \/ Respond(r, 401)
    BY <1>4 DEF VerifySignature, RefusedSignature
  <2>. QED
    BY <2>2, <2>3, GoesOn, Responds DEF Places, WebhookPlaces
<1>5. ASSUME NEW r \in Requests, CheckDelivery(r) \/ RouteEvent(r) \/ ClaimComment(r)
      PROVE  \E m : Moves(r, m)
  <2>1. req[r].pc \in {"dedup", "route", "claim"} /\ RequestSound(r, req[r])
    BY <1>5 DEF RequestsSound, CheckDelivery, RouteEvent, ClaimComment
  <2>2. Kind[r].route = "webhook" /\ Kind[r].signature = "good"
    BY <2>1 DEF RequestSound, WebhookPlaces
  <2>3. \/ Goto(r, "route") \/ Goto(r, "claim")
        \/ Respond(r, 202) \/ Respond(r, 400)
        \/ Respond(r, 200) /\ req[r].pc = "dedup" /\ Kind[r].delivery \in seen
        \/ Respond(r, 200) /\ Kind[r].event = "ping"
    BY <1>5 DEF CheckDelivery, RouteEvent, ClaimComment, BadPayload,
                HandlePullRequest, HandleIssueComment
  <2>4. req[r].pc = "dedup" => ~Passed(r, req[r])
    BY DEF Passed
  <2>. QED
    BY <2>2, <2>3, <2>4, GoesOn, Responds DEF Places, WebhookPlaces
<1>6. ASSUME NEW r \in Requests, AuthoriseCi(r) \/ FetchPullRequest(r) \/ DispatchCi(r)
      PROVE  \E m : Moves(r, m)
  <2>1. req[r].pc \in CiPlaces /\ RequestSound(r, req[r])
    BY <1>6 DEF RequestsSound, AuthoriseCi, FetchPullRequest, DispatchCi, CiPlaces
  <2>2. Kind[r].route = "ci" /\ ~Passed(r, req[r])
    BY <2>1 DEF RequestSound, CiPlaces, Passed
  <2>3. \/ Goto(r, "fetch")
        \/ Kind[r].head = forge.head /\ Goto(r, "dispatch")
        \/ Respond(r, 404) \/ Respond(r, 401) \/ Respond(r, 400)
        \/ Respond(r, 409) \/ Respond(r, 502) \/ Respond(r, 202)
    BY <1>6 DEF AuthoriseCi, FetchPullRequest, DispatchCi
  <2>. QED
    BY <2>2, <2>3, GoesOn, Responds DEF Places, CiPlaces
<1>7. ASSUME NEW r \in Requests, CheckReady(r) PROVE \E m : Moves(r, m)
  <2>1. /\ req[r] \in RequestRec /\ req[r].pc = "ready" /\ RequestSound(r, req[r])
        /\ now \in Nat
    BY <1>7 DEF RequestsSound, CheckReady
  <2>2. Kind[r].route = "ready" /\ ~Passed(r, req[r])
    BY <2>1 DEF RequestSound, ReadyPlaces, Passed
  <2>3. CASE cache # <<>> /\ now - cache[1].at < TTL
    <3>1. PICK c, u : c = now - cache[1].probed /\ u = HealthStatus(cache[1].healthy)
      OBVIOUS
    <3>2. c \in Nat /\ c <= now /\ c < TTL /\ u \in Nat
      BY <2>1, <2>3, <3>1 DEF RequestsSound, CacheSound, HealthStatus
    <3> DEFINE m == [Idle EXCEPT !.pc = "answered", !.status = u, !.clock = c]
    <3>3. /\ m \in RequestRec /\ m.pc = "answered" /\ m.clock = c /\ m.floor = 0
      BY ZenonT(60), <3>2, Answering
    <3>4. req' = [req EXCEPT ![r] = m]
      BY <1>7, <2>3, <3>1 DEF CheckReady
    <3> HIDE DEF m
    <3>5. RequestSound(r, m)
      BY <2>2, <3>2, <3>3 DEF RequestSound, WebhookPlaces, CiPlaces, ReadyPlaces
    <3>6. Moves(r, m)
      BY <2>2, <3>2, <3>3, <3>4, <3>5 DEF Moves, Bounced
    <3>. QED
      BY <3>6
  <2>4. CASE ~(cache # <<>> /\ now - cache[1].at < TTL)
    <3> DEFINE m == [req[r] EXCEPT !.pc = "probe", !.clock = now]
    <3>1. m \in RequestRec /\ m.pc = "probe" /\ m.clock = now /\ m.floor = req[r].floor
      BY <2>1 DEF RequestRec, Places, ReadyPlaces
    <3>2. req' = [req EXCEPT ![r] = m]
      BY <1>7, <2>4 DEF CheckReady
    <3> HIDE DEF m
    <3>3. RequestSound(r, m)
      BY <2>2, <3>1 DEF RequestSound, WebhookPlaces, CiPlaces, ReadyPlaces
    <3>4. Moves(r, m)
      BY <1>7, <2>1, <2>2, <3>1, <3>2, <3>3 DEF Moves, Bounced
    <3>. QED
      BY <3>4
  <2>. QED
    BY <2>3, <2>4
<1>8. ASSUME NEW r \in Requests, Probe(r) PROVE \E m : Moves(r, m)
  <2>1. req[r].pc = "probe" /\ RequestSound(r, req[r])
    BY <1>8 DEF RequestsSound, Probe
  <2>2. Kind[r].route = "ready" /\ ~Passed(r, req[r])
    BY <2>1 DEF RequestSound, ReadyPlaces, Passed
  <2>3. Respond(r, 200) \/ Respond(r, 503)
    BY <1>8 DEF Probe, HealthStatus
  <2>. QED
    BY <2>2, <2>3, Responds
<1>9. ASSUME NEW r \in Requests, HangUp(r) PROVE \E m : Moves(r, m)
  <2> DEFINE m == [Idle EXCEPT !.pc = "gone"]
  <2>1. m \in RequestRec /\ m.pc = "gone" /\ m.clock = 0 /\ m.floor = 0
    BY IdleType DEF RequestRec, Places
  <2>2. req' = [req EXCEPT ![r] = m]
    BY <1>9 DEF HangUp
  <2>3. Kind[r].route # "metrics"
    BY <1>9 DEF HangUp, AwaitPlaces, RequestsSound, RequestSound, WebhookPlaces,
                CiPlaces, ReadyPlaces
  <2> HIDE DEF m
  <2>4. RequestSound(r, m)
    BY <2>1, <2>3 DEF RequestSound, WebhookPlaces, CiPlaces, ReadyPlaces
  <2>5. Moves(r, m)
    BY <2>1, <2>2, <2>3, <2>4 DEF Moves, Passed, Bounced, RequestsSound
  <2>. QED
    BY <2>5
<1>10. CASE (Launch /\ UNCHANGED serveVars) \/ Drained
  BY <1>10 DEF Drained, serveVars
<1>11. CASE Tick \/ ForgeChanges \/ \E t \in Recorders : Increment(t)
  BY <1>11 DEF Tick, ForgeChanges, Increment
<1>12. ASSUME NEW r \in Requests, Arrive(r) \/ Handle(r) \/ HangUp(r)
       PROVE  (\E m : Moves(r, m)) \/ Scrape(r)
  BY <1>1, <1>2, <1>3, <1>4, <1>5, <1>6, <1>7, <1>8, <1>9, <1>12 DEF Handle
<1>13. CASE \E r \in Requests : Arrive(r) \/ Handle(r) \/ HangUp(r)
  BY <1>12, <1>13
<1>. QED
  BY <1>10, <1>11, <1>13 DEF Next

(* A scrape reads one more counter and notes the tasks that have begun to  *)
(* report and not ended.                                                   *)
LEMMA ScrapeStep ==
    ASSUME RequestsSound, NEW r \in Requests, Scrape(r)
    PROVE  \E m :
             /\ req' = [req EXCEPT ![r] = m]
             /\ RequestSound(r, m) /\ m.clock = req[r].clock /\ m.floor = req[r].floor
             /\ Len(req[r].read) \in 0..4 /\ req[r].pc = "metrics"
             /\ metric[RenderOrder[Len(req[r].read) + 1]] \in Nat
             /\ m.read = Append(req[r].read, metric[RenderOrder[Len(req[r].read) + 1]])
             /\ m.during = req[r].during \cup Unsettled
             /\ m.pc \in {"metrics", "answered"}
<1>1. /\ req[r] \in RequestRec /\ RequestSound(r, req[r]) /\ req[r].pc = "metrics"
      /\ Kind[r].route = "metrics"
  BY DEF RequestsSound, Scrape, RequestSound
<1>a. Len(req[r].read) \in Nat /\ Len(req[r].read) <= 4
  BY <1>1 DEF RequestRec, RequestSound
<1>b. PICK n : n = Len(req[r].read)
  OBVIOUS
<1>2. n \in Nat /\ n <= 4
  BY <1>a, <1>b
<1>3. PICK v : v = metric[RenderOrder[n + 1]]
  OBVIOUS
<1>4. v \in Nat
  <2>1. RenderOrder[n + 1] \in Counters
    <3>1. n = 0 \/ n = 1 \/ n = 2 \/ n = 3 \/ n = 4
      BY <1>2
    <3>. QED
      BY <3>1 DEF RenderOrder, Counters, Buckets
  <2>. QED
    BY <1>3, <2>1 DEF RequestsSound
<1>5. Unsettled \in SUBSET Recorders
  BY DEF Unsettled
<1>6. Len(RenderOrder) = 5
  BY DEF RenderOrder
<1>7. PICK p, s : /\ p = (IF n + 1 = 5 THEN "answered" ELSE "metrics")
                  /\ s = (IF n + 1 = 5 THEN 200 ELSE 0)
  OBVIOUS
<1> DEFINE m == [req[r] EXCEPT !.read = Append(@, v), !.during = @ \cup Unsettled,
                               !.pc = p, !.status = s]
<1>8. req' = [req EXCEPT ![r] = m]
  BY <1>b, <1>3, <1>6, <1>7 DEF Scrape
<1>9. /\ p \in {"metrics", "answered"} /\ p \in Places /\ s \in Nat
      /\ p = "answered" => n = 4
      /\ p = "metrics" => n <= 3
  <2>1. CASE n + 1 = 5
    <3>1. n = 4 /\ p = "answered" /\ s = 200
      BY <1>2, <1>7, <2>1
    <3>. QED
      BY <3>1 DEF Places
  <2>2. CASE n + 1 # 5
    BY <1>2, <1>7, <2>2 DEF Places
  <2>. QED
    BY <2>1, <2>2
<1>10. /\ m \in RequestRec /\ m.pc = p /\ m.clock = req[r].clock
       /\ m.floor = req[r].floor /\ m.read = Append(req[r].read, v)
       /\ m.during = req[r].during \cup Unsettled
  <2>1. Append(req[r].read, v) \in Seq(Nat)
    BY <1>1, <1>4 DEF RequestRec
  <2>. QED
    BY <1>1, <1>5, <1>9, <2>1 DEF RequestRec
<1>11. Len(m.read) = n + 1
  BY <1>1, <1>b, <1>4, <1>10 DEF RequestRec
<1> HIDE DEF m
<1>12. RequestSound(r, m)
  <2>1. m.pc = "metrics" => Len(m.read) <= 4
    BY <1>2, <1>9, <1>10, <1>11
  <2>2. m.pc = "answered" => Len(m.read) = 5
    BY <1>2, <1>9, <1>10, <1>11
  <2>. QED
    BY <1>1, <1>9, <1>10, <2>1, <2>2
       DEF RequestSound, WebhookPlaces, CiPlaces, ReadyPlaces
<1>13. Len(req[r].read) \in 0..4 /\ v = metric[RenderOrder[Len(req[r].read) + 1]]
  <2>1. n \in 0..4
    BY <1>2
  <2>. QED
    BY <1>b, <1>3, <2>1
<1>14. m.read = Append(req[r].read, metric[RenderOrder[Len(req[r].read) + 1]])
  BY <1>10, <1>13
<1>15. metric[RenderOrder[Len(req[r].read) + 1]] \in Nat
  BY <1>4, <1>13
<1>. QED
  BY <1>1, <1>8, <1>9, <1>10, <1>12, <1>13, <1>14, <1>15

(* A review task's report only adds to what the scrapes under way noted.   *)
LEMMA ReportStep ==
    ASSUME RequestsSound, NEW t \in Recorders, RecordReview(t)
    PROVE  /\ req' \in [Requests -> RequestRec]
           /\ \A r \in Requests :
                /\ RequestSound(r, req'[r])
                /\ req'[r].pc = req[r].pc /\ req'[r].clock = req[r].clock
                /\ req'[r].floor = req[r].floor /\ req'[r].status = req[r].status
                /\ req'[r].read = req[r].read
                /\ req[r].during \subseteq req'[r].during
<1>1. ASSUME NEW r \in Requests
      PROVE  /\ req'[r] \in RequestRec /\ RequestSound(r, req'[r])
             /\ req'[r].pc = req[r].pc /\ req'[r].clock = req[r].clock
             /\ req'[r].floor = req[r].floor /\ req'[r].status = req[r].status
             /\ req'[r].read = req[r].read
             /\ req[r].during \subseteq req'[r].during
  <2>1. req[r] \in RequestRec /\ RequestSound(r, req[r])
    BY DEF RequestsSound
  <2> DEFINE m == [req[r] EXCEPT !.during = @ \cup {t}]
  <2>2. req'[r] = m \/ req'[r] = req[r]
    BY DEF RecordReview
  <2>3. /\ m \in RequestRec /\ m.pc = req[r].pc /\ m.clock = req[r].clock
        /\ m.floor = req[r].floor /\ m.status = req[r].status
        /\ m.read = req[r].read /\ req[r].during \subseteq m.during
    BY <2>1 DEF RequestRec
  <2> HIDE DEF m
  <2>. QED
    BY <2>1, <2>2, <2>3 DEF RequestSound
<1>2. req' = [r \in Requests |-> req'[r]]
  BY DEF RecordReview
<1>. QED
  BY <1>1, <1>2

(* Which actions change which variables.                                   *)
GatewayCounters ==
    {"throttled", "signature", "event", "duplicate", "payload", "chat", "dispatched"}

LEMMA Frame ==
    ASSUME Next
    PROVE  /\ Tick \/ UNCHANGED now
           /\ ForgeChanges \/ UNCHANGED forge
           /\ (\E r \in Requests : TryTakeAt(r)) \/ UNCHANGED <<bucket, granted>>
           /\ (\E r \in Requests : CheckDelivery(r) \/ HangUp(r)) \/ UNCHANGED seen
           /\ (\E r \in Requests : DispatchCi(r)) \/ UNCHANGED jobs
           /\ (\E r \in Requests : Probe(r)) \/ UNCHANGED <<cache, probes>>
           /\ \/ \E r \in Requests : CheckReady(r) \/ Probe(r) \/ HangUp(r)
              \/ UNCHANGED holder
           /\ \/ \E t \in Recorders : RecordReview(t) \/ Increment(t)
              \/ UNCHANGED pending
           /\ \/ \E t \in Recorders : Increment(t)
              \/ \E c \in GatewayCounters : Count(c)
              \/ UNCHANGED metric
<1>1. CASE (Launch /\ UNCHANGED serveVars) \/ Drained
  BY <1>1 DEF Drained, serveVars
<1>2. CASE Tick
  BY <1>2 DEF Tick
<1>3. CASE ForgeChanges
  BY <1>3 DEF ForgeChanges
<1>4. ASSUME NEW t \in Recorders, RecordReview(t)
      PROVE  UNCHANGED <<now, forge, bucket, granted, seen, jobs, cache, probes,
                         holder, metric>>
  BY <1>4 DEF RecordReview, metricRest
<1>5. ASSUME NEW t \in Recorders, Increment(t)
      PROVE  UNCHANGED <<now, forge, bucket, granted, seen, jobs, cache, probes,
                         holder>>
  BY <1>5 DEF Increment, metricRest
<1>6. ASSUME NEW r \in Requests, Arrive(r) \/ ReadClock(r) \/ Scrape(r)
      PROVE  UNCHANGED <<now, forge, bucket, granted, seen, jobs, cache, probes,
                         holder, metric, pending>>
  BY <1>6 DEF Arrive, ReadClock, Scrape, metricRest, webhookRest
<1>7. ASSUME NEW r \in Requests, TryTakeAt(r)
      PROVE  /\ UNCHANGED <<now, forge, seen, jobs, cache, probes, holder, pending>>
             /\ Count("throttled") \/ UNCHANGED metric
  BY <1>7 DEF TryTakeAt, webhookRest
<1>8. ASSUME NEW r \in Requests, VerifySignature(r)
      PROVE  /\ UNCHANGED <<now, forge, bucket, granted, seen, jobs, cache,
                            probes, holder, pending>>
             /\ Count("event") \/ Count("signature")
  BY <1>8 DEF VerifySignature, webhookRest
<1>9. ASSUME NEW r \in Requests, CheckDelivery(r)
      PROVE  /\ UNCHANGED <<now, forge, bucket, granted, jobs, cache, probes,
                            holder, pending>>
             /\ Count("duplicate") \/ UNCHANGED metric
  BY <1>9 DEF CheckDelivery, webhookRest
<1>10. ASSUME NEW r \in Requests, RouteEvent(r)
       PROVE  /\ UNCHANGED <<now, forge, bucket, granted, seen, jobs, cache,
                             probes, holder, pending>>
              /\ Count("payload") \/ Count("chat") \/ UNCHANGED metric
  BY <1>10 DEF RouteEvent, BadPayload, HandlePullRequest, HandleIssueComment, webhookRest
<1>11. ASSUME NEW r \in Requests, ClaimComment(r)
       PROVE  UNCHANGED <<now, forge, bucket, granted, seen, jobs, cache, probes,
                          holder, pending, metric>>
  BY <1>11 DEF ClaimComment, webhookRest
<1>12. ASSUME NEW r \in Requests, AuthoriseCi(r) \/ FetchPullRequest(r)
       PROVE  UNCHANGED <<now, forge, bucket, granted, seen, jobs, cache, probes,
                          holder, metric, pending>>
  BY <1>12 DEF AuthoriseCi, FetchPullRequest, ciRest
<1>13. ASSUME NEW r \in Requests, DispatchCi(r)
       PROVE  /\ UNCHANGED <<now, forge, bucket, granted, seen, cache, probes,
                             holder, pending>>
              /\ Count("dispatched")
  BY <1>13 DEF DispatchCi, ciRest
<1>14. ASSUME NEW r \in Requests, CheckReady(r) \/ HangUp(r)
       PROVE  /\ UNCHANGED <<now, forge, bucket, granted, jobs, cache, probes,
                             metric, pending>>
              /\ HangUp(r) \/ UNCHANGED seen
  BY <1>14 DEF CheckReady, HangUp, readyRest
<1>15. ASSUME NEW r \in Requests, Probe(r)
       PROVE  UNCHANGED <<now, forge, bucket, granted, seen, jobs, metric, pending>>
  BY <1>15 DEF Probe, readyRest
<1>. QED
  BY <1>1, <1>2, <1>3, <1>4, <1>5, <1>6, <1>7, <1>8, <1>9, <1>10, <1>11, <1>12, <1>13,
     <1>14, <1>15 DEF Next, Handle, GatewayCounters

LEMMA InitSound == Init => RequestsSound
<1> SUFFICES ASSUME Init PROVE RequestsSound
  OBVIOUS
<1> USE DEF Init, ServeInit
<1>1. \A r \in Requests : req[r] = Idle
  OBVIOUS
<1>2. \A r \in Requests : RequestSound(r, req[r]) /\ req[r].clock <= now
  BY <1>1, IdleType DEF RequestSound, WebhookPlaces, CiPlaces, ReadyPlaces
<1>3. CacheSound
  BY DEF CacheSound
<1>. QED
  BY <1>2, <1>3, IdleType DEF RequestsSound

LEMMA NextClock ==
    ASSUME RequestsSound, Next
    PROVE  /\ now' \in Nat /\ now <= now'
           /\ forge' \in [up : BOOLEAN, head : Nat] /\ forge.head <= forge'.head
<1>1. now' \in Nat /\ now <= now'
  BY Frame DEF Tick, RequestsSound
<1>2. CASE ForgeChanges
  <2>1. forge \in [up : BOOLEAN, head : Nat]
    BY DEF RequestsSound
  <2>2. \/ forge' = [forge EXCEPT !.up = ~@]
        \/ forge.head = 1 /\ forge' = [forge EXCEPT !.head = 2]
    BY <1>2 DEF ForgeChanges
  <2>3. PICK u, h : u = ~forge.up /\ h = forge.head
    OBVIOUS
  <2>4. u \in BOOLEAN /\ h \in Nat /\ 2 \in Nat /\ h <= h
    BY <2>1, <2>3
  <2>5. ASSUME forge' = [forge EXCEPT !.up = ~@]
        PROVE  forge' \in [up : BOOLEAN, head : Nat] /\ forge.head <= forge'.head
    <3>1. forge' = [forge EXCEPT !.up = u]
      BY <2>3, <2>5
    <3>2. forge' \in [up : BOOLEAN, head : Nat]
      BY <2>1, <2>4, <3>1
    <3>3. forge'.head = h
      BY <2>1, <2>3, <3>1
    <3>. QED
      BY <2>3, <2>4, <3>2, <3>3
  <2>6. ASSUME forge.head = 1, forge' = [forge EXCEPT !.head = 2]
        PROVE  forge' \in [up : BOOLEAN, head : Nat] /\ forge.head <= forge'.head
    BY <2>1, <2>6
  <2>. QED
    BY <1>1, <2>2, <2>5, <2>6
<1>3. CASE UNCHANGED forge
  BY <1>1, <1>3 DEF RequestsSound
<1>. QED
  BY <1>1, <1>2, <1>3, Frame

(* Counters only grow. *)
LEMMA NextMetric ==
    ASSUME RequestsSound, Next
    PROVE  /\ metric' \in [Counters -> Nat]
           /\ \A c \in Counters : metric[c] <= metric'[c]
<1>1. ASSUME NEW c \in Counters, Count(c)
      PROVE  /\ metric' \in [Counters -> Nat]
             /\ \A d \in Counters : metric[d] <= metric'[d]
  BY <1>1 DEF Count, RequestsSound
<1>2. CASE UNCHANGED metric
  BY <1>2 DEF RequestsSound
<1>3. CASE \E t \in Recorders : Increment(t)
  BY <1>1, <1>3 DEF Increment
<1>. QED
  BY <1>1, <1>2, <1>3, Frame DEF GatewayCounters, Counters

LEMMA NextRequests ==
    ASSUME RequestsSound, Next
    PROVE  /\ req' \in [Requests -> RequestRec]
           /\ \A r \in Requests : RequestSound(r, req'[r]) /\ req'[r].clock <= now
<1>1. CASE UNCHANGED req
  BY <1>1 DEF RequestsSound
<1>2. ASSUME NEW r \in Requests, NEW m, req' = [req EXCEPT ![r] = m],
             RequestSound(r, m), m.clock <= now
      PROVE  /\ req' \in [Requests -> RequestRec]
             /\ \A s \in Requests : RequestSound(s, req'[s]) /\ req'[s].clock <= now
  BY <1>2 DEF RequestsSound, RequestSound
<1>3. ASSUME NEW r \in Requests, NEW m, Moves(r, m)
      PROVE  /\ req' \in [Requests -> RequestRec]
             /\ \A s \in Requests : RequestSound(s, req'[s]) /\ req'[s].clock <= now
  BY <1>2, <1>3 DEF Moves, Bounced
<1>4. ASSUME NEW r \in Requests, Scrape(r)
      PROVE  /\ req' \in [Requests -> RequestRec]
             /\ \A s \in Requests : RequestSound(s, req'[s]) /\ req'[s].clock <= now
  BY <1>2, <1>4, ScrapeStep DEF RequestsSound
<1>5. ASSUME NEW t \in Recorders, RecordReview(t)
      PROVE  /\ req' \in [Requests -> RequestRec]
             /\ \A s \in Requests : RequestSound(s, req'[s]) /\ req'[s].clock <= now
  BY <1>5, ReportStep DEF RequestsSound
<1>. QED
  BY <1>1, <1>3, <1>4, <1>5, RequestSteps

LEMMA NextCache ==
    ASSUME RequestsSound, Next
    PROVE  CacheSound'
<1>1. CASE UNCHANGED <<cache, probes>>
  BY <1>1, NextClock DEF RequestsSound, CacheSound
<1>2. ASSUME NEW r \in Requests, Probe(r) PROVE CacheSound'
  <2>1. PICK c, e : /\ c = req[r].clock
                    /\ e = [at |-> c, healthy |-> forge.up, probed |-> c]
    OBVIOUS
  <2>2. c \in Nat /\ c <= now /\ forge.up \in BOOLEAN
    BY <2>1 DEF RequestsSound, RequestRec
  <2>3. e \in [at : Nat, healthy : BOOLEAN, probed : Nat] /\ e.at = c /\ e.probed = c
    BY <2>1, <2>2
  <2>4. cache' = <<e>> /\ probes' = Append(probes, c)
    BY <1>2, <2>1 DEF Probe
  <2>5. probes \in Seq(Nat)
    BY DEF RequestsSound, CacheSound
  <2>6. probes' \in Seq(Nat) /\ probes' # <<>> /\ probes'[Len(probes')] = c
    BY <2>2, <2>4, <2>5
  <2>7. cache' # <<>> /\ cache'[1] = e
    BY <2>4
  <2>8. c <= now'
    BY <2>2, NextClock DEF RequestsSound
  <2>. QED
    BY <2>3, <2>6, <2>7, <2>8 DEF CacheSound
<1>. QED
  BY <1>1, <1>2, Frame

LEMMA NextRequestsSound ==
    ASSUME RequestsSound, [Next]_vars
    PROVE  RequestsSound'
<1>1. CASE UNCHANGED vars
  BY <1>1 DEF vars, serveVars, RequestsSound, CacheSound
<1>2. CASE Next
  <2>1. now \in Nat /\ now' \in Nat /\ now <= now'
    BY <1>2, NextClock DEF RequestsSound
  <2>2. \A r \in Requests : req'[r] \in RequestRec /\ req'[r].clock <= now
    BY <1>2, NextRequests
  <2>3. \A r \in Requests : req'[r].clock <= now'
    BY <2>1, <2>2 DEF RequestRec
  <2>. QED
    BY <1>2, <2>3, NextClock, NextMetric, NextRequests, NextCache DEF RequestsSound
<1>. QED
  BY <1>1, <1>2

LEMMA AlwaysSound == Spec => []RequestsSound
BY InitSound, NextRequestsSound, PTL DEF Spec

-----------------------------------------------------------------------------
(* The bucket grants no more than it holds, what the seconds refilled and  *)
(* what the seconds it was set back refilled again: for every burst, rate  *)
(* and interleaving of the clock's reading with the lock's taking.         *)
THEOREM BucketBounded == Spec => []BucketAccounts
<1> DEFINE Account == /\ bucket \in [tokens : Nat, last : Nat]
                      /\ granted \in [takes : Nat, rewound : Nat]
                      /\ BucketAccounts
<1>1. Capacity \in Nat /\ PerSecond \in Nat
  BY ServeAssumption DEF Capacity, PerSecond
<1>2. Init => Account
  BY <1>1 DEF Init, ServeInit, BucketAccounts
<1>3. RequestsSound /\ Account /\ [Next]_vars => Account'
  <2> SUFFICES ASSUME RequestsSound, Account, [Next]_vars PROVE Account'
    OBVIOUS
  <2>1. CASE UNCHANGED <<bucket, granted>>
    BY <2>1 DEF BucketAccounts
  <2>2. ASSUME NEW r \in Requests, TryTakeAt(r) PROVE Account'
    <3>1. PICK c, b, l, k, w, C, P :
            /\ c = req[r].clock /\ b = bucket.tokens /\ l = bucket.last
            /\ k = granted.takes /\ w = granted.rewound
            /\ C = Capacity /\ P = PerSecond
      OBVIOUS
    <3>2. /\ c \in Nat /\ b \in Nat /\ l \in Nat /\ k \in Nat /\ w \in Nat
          /\ C \in Nat /\ P \in Nat
      BY <1>1, <3>1 DEF RequestsSound, RequestRec
    <3>3. b + k <= C + P * (l + w)
      BY <3>1 DEF BucketAccounts
    <3> DEFINE e == IF c > l THEN c - l ELSE 0
               back == IF c < l THEN l - c ELSE 0
               tokens == IF b + e * P <= C THEN b + e * P ELSE C
               u == IF tokens >= 1 THEN 1 ELSE 0
    <3>4. /\ e \in Nat /\ back \in Nat /\ c + back = l + e
          /\ e * P \in Nat
      BY <3>2
    <3>5. tokens \in Nat /\ tokens <= b + e * P /\ u \in Nat /\ tokens - u \in Nat
      <4> HIDE DEF e
      <4>. QED
        BY <3>2, <3>4
    <3>6. /\ bucket' = [tokens |-> tokens - u, last |-> c]
          /\ granted' = [takes |-> k + u, rewound |-> w + back]
      <4>1. Refilled(c) = tokens
        BY <3>1 DEF Refilled, Least
      <4>. QED
        BY <2>2, <3>1, <3>2, <4>1 DEF TryTakeAt
    <3> HIDE DEF e, back, tokens, u
    <3>7. P * (c + (w + back)) = P * (l + w) + e * P
      BY <3>2, <3>4
    <3>8. (tokens - u) + (k + u) <= C + P * (c + (w + back))
      BY <3>2, <3>3, <3>4, <3>5, <3>7
    <3>9. /\ bucket' \in [tokens : Nat, last : Nat]
          /\ granted' \in [takes : Nat, rewound : Nat]
      BY <3>2, <3>4, <3>5, <3>6
    <3>. QED
      BY <3>1, <3>6, <3>8, <3>9 DEF BucketAccounts, Capacity, PerSecond
  <2>. QED
    BY <2>1, <2>2, Frame DEF vars, serveVars
<1>. QED
  BY <1>2, <1>3, AlwaysSound, PTL DEF Spec

-----------------------------------------------------------------------------
(* A delivery that came past the dedup store is then acknowledged, refused *)
(* for its payload, or dropped with its client: it stays one that came     *)
(* past.                                                                   *)
LEMMA TakenStays ==
    ASSUME RequestsSound, [Next]_vars, NEW r \in Requests, Passed(r, req[r])
    PROVE  Passed(r, req'[r])
<1>1. CASE UNCHANGED req
  BY <1>1
<1>2. ASSUME NEW s \in Requests, NEW m, Moves(s, m) PROVE Passed(r, req'[r])
  BY <1>2 DEF Moves, RequestsSound
<1>3. ASSUME NEW s \in Requests, Scrape(s) PROVE Passed(r, req'[r])
  <2>1. ~Passed(s, req[s])
    BY <1>3 DEF Scrape, Passed
  <2>2. PICK m : req' = [req EXCEPT ![s] = m]
    BY <1>3, ScrapeStep
  <2>. QED
    BY <2>1, <2>2 DEF RequestsSound
<1>4. ASSUME NEW t \in Recorders, RecordReview(t) PROVE Passed(r, req'[r])
  BY <1>4, ReportStep DEF Passed
<1>. QED
  BY <1>1, <1>2, <1>3, <1>4, RequestSteps DEF vars, serveVars

(* No delivery is refused as a duplicate unless another one of its id has  *)
(* come past the dedup store: for every set of deliveries.  Every id in    *)
(* the store is that of a delivery that has been taken up (Stored), every  *)
(* refused one has its id in the store (Refused), and a refused delivery   *)
(* is not one that was taken up.                                           *)
THEOREM DuplicatesWereTaken == Spec => []DuplicateWasTaken
<1> DEFINE Taken(d, q) ==
               \E s \in Webhooks : Kind[s].delivery = d /\ Passed(s, q[s])
           Stored == \A d \in seen : Taken(d, req)
           Refused == \A r \in Webhooks :
                         Bounced(r, req[r]) => Kind[r].delivery \in seen
<1>w. Webhooks \subseteq Requests
  BY DEF Webhooks
<1>1. Init => Stored /\ Refused
  BY <1>w DEF Init, ServeInit, Idle, Bounced
<1>2. RequestsSound /\ Stored /\ Refused /\ [Next]_vars => (Stored /\ Refused)'
  <2> SUFFICES ASSUME RequestsSound, Stored, Refused, [Next]_vars
               PROVE  (Stored /\ Refused)'
    OBVIOUS
  <2>1. ASSUME NEW d, Taken(d, req) PROVE Taken(d, req')
    BY <2>1, <1>w, TakenStays
  <2>2. ASSUME NEW r \in Requests, CheckDelivery(r) \/ HangUp(r)
        PROVE  \/ UNCHANGED seen
               \/ /\ seen' = seen \cup {Kind[r].delivery}
                  /\ Taken(Kind[r].delivery, req')
    <3>1. CASE UNCHANGED seen
      BY <3>1
    <3>2. CASE ~UNCHANGED seen
      <4>1. req[r].pc = "dedup" /\ seen' = seen \cup {Kind[r].delivery}
        BY <2>2, <3>2 DEF CheckDelivery, HangUp
      <4>2. r \in Webhooks /\ Kind[r].signature = "good"
        BY <4>1 DEF RequestsSound, RequestSound, WebhookPlaces, Webhooks
      <4>3. req \in [Requests -> RequestRec]
        BY DEF RequestsSound
      <4>4. \/ Goto(r, "route")
            \/ req' = [req EXCEPT ![r] = [Idle EXCEPT !.pc = "gone"]]
        BY <2>2, <3>2 DEF CheckDelivery, HangUp
      <4>5. req'[r].pc \in {"route", "gone"}
        BY <4>3, <4>4 DEF Goto, RequestRec, Idle
      <4>. QED
        BY <4>1, <4>2, <4>5 DEF Passed
    <3>. QED
      BY <3>1, <3>2
  <2>3. \/ UNCHANGED seen
        \/ \E d : seen' = seen \cup {d} /\ Taken(d, req')
    BY <2>2, Frame DEF vars, serveVars
  <2>4. Stored'
    BY <2>1, <2>3
  <2>5. ASSUME NEW r \in Webhooks, Bounced(r, req'[r]), ~Bounced(r, req[r])
        PROVE  Kind[r].delivery \in seen
    <3>1. r \in Requests
      BY <1>w
    <3>2. ASSUME NEW s \in Requests, NEW m, Moves(s, m) PROVE Kind[r].delivery \in seen
      BY <2>5, <3>1, <3>2 DEF Moves, RequestsSound
    <3>3. ~\E s \in Requests : Scrape(s)
      <4>1. ASSUME NEW s \in Requests, Scrape(s) PROVE FALSE
        <5>1. PICK m : req' = [req EXCEPT ![s] = m]
          BY <4>1, ScrapeStep
        <5>2. Kind[s].route = "metrics"
          BY <4>1 DEF RequestsSound, RequestSound, Scrape
        <5>. QED
          BY <2>5, <3>1, <5>1, <5>2 DEF RequestsSound, Bounced
      <4>. QED
        BY <4>1
    <3>4. ~\E t \in Recorders : RecordReview(t)
      BY <2>5, <3>1, ReportStep DEF Bounced
    <3>. QED
      BY <2>5, <3>2, <3>3, <3>4, RequestSteps DEF vars, serveVars
  <2>6. Refused'
    BY <2>3, <2>5
  <2>. QED
    BY <2>4, <2>6
<1>3. Stored /\ Refused => DuplicateWasTaken
  <2> SUFFICES ASSUME Stored, Refused, NEW r \in Webhooks, Bounced(r, req[r])
               PROVE  \E s \in Webhooks \ {r} :
                          Kind[s].delivery = Kind[r].delivery /\ TakenUp(s)
    BY DEF DuplicateWasTaken, Bounced, Webhooks
  <2>1. PICK s \in Webhooks : Kind[s].delivery = Kind[r].delivery /\ Passed(s, req[s])
    OBVIOUS
  <2>2. s # r /\ TakenUp(s)
    BY <2>1 DEF Passed, TakenUp, Bounced
  <2>. QED
    BY <2>1, <2>2
<1>. QED
  BY <1>1, <1>2, <1>3, AlwaysSound, PTL DEF Spec

-----------------------------------------------------------------------------
(* A review dispatched for CI is of a head no older than the request and   *)
(* no newer than the pull request's: a request's floor is a head the pull  *)
(* request had, and one to be dispatched has been compared since.          *)
THEOREM CiHeadsCurrent == Spec => []CiHeadWasCurrent
<1> DEFINE Floors ==
             /\ \A r \in Requests : req[r].floor <= forge.head
             /\ \A r \in Requests : req[r].pc = "dispatch" =>
                   /\ Kind[r].head \in Nat /\ req[r].floor <= Kind[r].head
                   /\ Kind[r].head <= forge.head
           Dispatched == \A j \in jobs : /\ j.head \in Nat /\ j.floor <= j.head
                                         /\ j.head <= forge.head
           CiInv == Floors /\ Dispatched
<1>1. Init => CiInv
  BY IdleType DEF Init, ServeInit
<1>2. RequestsSound /\ CiInv /\ [Next]_vars => CiInv'
  <2> SUFFICES ASSUME RequestsSound, CiInv, [Next]_vars PROVE CiInv'
    OBVIOUS
  <2>1. forge.head \in Nat /\ forge'.head \in Nat /\ forge.head <= forge'.head
    BY NextClock DEF RequestsSound, vars, serveVars
  <2>2. ASSUME NEW r \in Requests
        PROVE  /\ req'[r].floor <= forge.head
               /\ req'[r].pc = "dispatch" =>
                     /\ Kind[r].head \in Nat /\ req'[r].floor <= Kind[r].head
                     /\ Kind[r].head <= forge.head
    <3> DEFINE Goal == /\ req'[r].floor <= forge.head
                       /\ req'[r].pc = "dispatch" =>
                             /\ Kind[r].head \in Nat /\ req'[r].floor <= Kind[r].head
                             /\ Kind[r].head <= forge.head
    <3>1. CASE UNCHANGED req
      BY <3>1
    <3>2. ASSUME NEW s \in Requests, NEW m, Moves(s, m) PROVE Goal
      <4>1. req[s].floor \in Nat /\ m.floor \in {req[s].floor, 0, forge.head}
        BY <3>2 DEF Moves, RequestsSound, RequestRec
      <4>2. m.floor <= forge.head
        BY <2>1, <4>1
      <4>3. m.pc = "dispatch" => Kind[s].head = forge.head
        BY <3>2 DEF Moves
      <4>4. req'[r] = IF r = s THEN m ELSE req[r]
        BY <3>2 DEF Moves, RequestsSound
      <4>. QED
        BY <2>1, <4>2, <4>3, <4>4
    <3>3. ASSUME NEW s \in Requests, Scrape(s) PROVE Goal
      <4>1. PICK m : /\ req' = [req EXCEPT ![s] = m] /\ m.floor = req[s].floor
                     /\ m.pc \in {"metrics", "answered"}
        BY <3>3, ScrapeStep
      <4>. QED
        BY <4>1 DEF RequestsSound
    <3>4. ASSUME NEW t \in Recorders, RecordReview(t) PROVE Goal
      BY <3>4, ReportStep
    <3>. QED
      BY <3>1, <3>2, <3>3, <3>4, RequestSteps DEF vars, serveVars
  <2>3. ASSUME NEW j \in jobs' PROVE j.head \in Nat /\ j.floor <= j.head /\ j.head <= forge.head
    <3>1. CASE UNCHANGED jobs
      BY <3>1
    <3>2. ASSUME NEW r \in Requests, DispatchCi(r)
          PROVE  j.head \in Nat /\ j.floor <= j.head /\ j.head <= forge.head
      BY <3>2, <2>3 DEF DispatchCi
    <3>. QED
      BY <3>1, <3>2, Frame DEF vars, serveVars
  <2>4. Dispatched'
    BY <2>1, <2>3
  <2>5. \A r \in Requests : req'[r].floor \in Nat
    BY NextRequestsSound DEF RequestsSound, RequestRec
  <2>6. Floors'
    BY <2>1, <2>2, <2>5
  <2>. QED
    BY <2>4, <2>6
<1>3. CiInv => CiHeadWasCurrent
  BY DEF CiHeadWasCurrent
<1>. QED
  BY <1>1, <1>2, <1>3, AlwaysSound, PTL DEF Spec

-----------------------------------------------------------------------------
(* Readiness: whoever probes holds the mutex, and began when the entry of  *)
(* the last probe had lived its time.                                      *)
Probing ==
    \A r \in Requests : req[r].pc = "probe" =>
        /\ holder = r
        /\ cache # <<>> => req[r].clock - cache[1].at >= TTL

Apart == \A i \in 1..(Len(probes) - 1) : probes[i + 1] - probes[i] >= TTL

LEMMA NextProbing ==
    ASSUME RequestsSound, Probing, [Next]_vars
    PROVE  Probing'
<1> DEFINE A == \E s \in Requests : CheckReady(s) \/ Probe(s) \/ HangUp(s)
<1>1. CASE ~A
  <2>1. UNCHANGED <<holder, cache>>
    BY <1>1, Frame DEF vars, serveVars
  <2>2. ASSUME NEW r \in Requests, req'[r].pc = "probe"
        PROVE  req[r].pc = "probe" /\ req'[r].clock = req[r].clock
    <3>1. CASE UNCHANGED req
      BY <2>2, <3>1
    <3>2. ASSUME NEW s \in Requests, NEW m, Moves(s, m)
          PROVE  req[r].pc = "probe" /\ req'[r].clock = req[r].clock
      <4>1. m.pc # "probe"
        BY <1>1, <3>2 DEF Moves
      <4>. QED
        BY <2>2, <3>2, <4>1 DEF Moves, RequestsSound
    <3>3. ASSUME NEW s \in Requests, Scrape(s)
          PROVE  req[r].pc = "probe" /\ req'[r].clock = req[r].clock
      <4>1. PICK m : req' = [req EXCEPT ![s] = m] /\ m.pc \in {"metrics", "answered"}
        BY <3>3, ScrapeStep
      <4>. QED
        BY <2>2, <4>1 DEF RequestsSound
    <3>4. ASSUME NEW t \in Recorders, RecordReview(t)
          PROVE  req[r].pc = "probe" /\ req'[r].clock = req[r].clock
      BY <2>2, <3>4, ReportStep
    <3>. QED
      BY <3>1, <3>2, <3>3, <3>4, RequestSteps DEF vars, serveVars
  <2>. QED
    BY <2>1, <2>2 DEF Probing
<1>2. ASSUME NEW s \in Requests, CheckReady(s) PROVE Probing'
  <2>1. \A r \in Requests : req[r].pc # "probe"
    BY <1>2, ServeAssumption DEF CheckReady, None, Probing
  <2>2. CASE cache # <<>> /\ now - cache[1].at < TTL
    <3>1. PICK m : req' = [req EXCEPT ![s] = m] /\ m.pc = "answered"
      <4> DEFINE m == [Idle EXCEPT !.pc = "answered",
                          !.status = HealthStatus(cache[1].healthy),
                          !.clock = now - cache[1].probed]
      <4>1. req' = [req EXCEPT ![s] = m]
        BY <1>2, <2>2 DEF CheckReady
      <4>2. m.pc = "answered"
        BY DEF Idle
      <4>. QED
        BY <4>1, <4>2
    <3>. QED
      BY <2>1, <3>1 DEF Probing, RequestsSound
  <2>3. CASE ~(cache # <<>> /\ now - cache[1].at < TTL)
    <3>1. /\ req' = [req EXCEPT ![s].pc = "probe", ![s].clock = now]
          /\ holder' = s /\ cache' = cache
      BY <1>2, <2>3 DEF CheckReady
    <3>2. /\ req'[s].clock = now
          /\ \A r \in Requests : req'[r].pc = "probe" => r = s
      BY <2>1, <3>1 DEF RequestsSound, RequestRec
    <3>3. cache # <<>> => now - cache[1].at >= TTL
      BY <2>3, ServeAssumption DEF RequestsSound, CacheSound
    <3>. QED
      BY <3>1, <3>2, <3>3 DEF Probing
  <2>. QED
    BY <2>2, <2>3
<1>3. ASSUME NEW s \in Requests, Probe(s) PROVE Probing'
  <2>1. \A r \in Requests : req[r].pc = "probe" => r = s
    BY <1>3 DEF Probe, Probing
  <2>2. PICK m : req' = [req EXCEPT ![s] = m] /\ m.pc = "answered"
    <3> DEFINE m == [Idle EXCEPT !.pc = "answered", !.status = HealthStatus(forge.up)]
    <3>1. req' = [req EXCEPT ![s] = m]
      BY <1>3 DEF Probe, Respond
    <3>2. m.pc = "answered"
      BY DEF Idle
    <3>. QED
      BY <3>1, <3>2
  <2>. QED
    BY <2>1, <2>2 DEF Probing, RequestsSound
<1>4. ASSUME NEW s \in Requests, HangUp(s) PROVE Probing'
  <2>1. PICK m : req' = [req EXCEPT ![s] = m] /\ m.pc = "gone"
    <3> DEFINE m == [Idle EXCEPT !.pc = "gone"]
    <3>1. req' = [req EXCEPT ![s] = m] /\ m.pc = "gone"
      BY <1>4 DEF HangUp, Idle
    <3>. QED
      BY <3>1
  <2>2. /\ cache' = cache
        /\ holder' = IF holder = s THEN None ELSE holder
    BY <1>4 DEF HangUp
  <2>. QED
    BY <2>1, <2>2 DEF Probing, RequestsSound
<1>. QED
  BY <1>1, <1>2, <1>3, <1>4

LEMMA NextApart ==
    ASSUME RequestsSound, Probing, Apart, [Next]_vars
    PROVE  Apart'
<1>1. CASE UNCHANGED probes
  BY <1>1 DEF Apart
<1>2. ASSUME NEW r \in Requests, Probe(r) PROVE Apart'
  <2>1. PICK c, n : c = req[r].clock /\ n = Len(probes)
    OBVIOUS
  <2>2. probes \in Seq(Nat) /\ c \in Nat /\ n \in Nat
    BY <2>1 DEF RequestsSound, CacheSound, RequestRec
  <2>3. probes' = Append(probes, c)
    BY <1>2, <2>1 DEF Probe
  <2>4. /\ Len(probes') = n + 1 /\ probes'[n + 1] = c
        /\ \A i \in 1..n : probes'[i] = probes[i]
    BY <2>1, <2>2, <2>3
  <2>5. n > 0 => c - probes[n] >= TTL
    <3>1. n > 0 => probes # <<>>
      BY <2>1
    <3>2. probes # <<>> => /\ cache # <<>> /\ probes[n] = cache[1].at
      BY <2>1 DEF RequestsSound, CacheSound
    <3>3. req[r].pc = "probe"
      BY <1>2 DEF Probe
    <3>. QED
      BY <2>1, <3>1, <3>2, <3>3 DEF Probing
  <2>6. ASSUME NEW i \in 1..n PROVE probes'[i + 1] - probes'[i] >= TTL
    <3>1. CASE i = n
      BY <2>2, <2>4, <2>5, <3>1
    <3>2. CASE i # n
      <4>1. i \in 1..(n - 1) /\ i \in 1..n /\ i + 1 \in 1..n
        BY <2>2, <3>2
      <4>2. probes[i + 1] - probes[i] >= TTL
        BY <2>1, <4>1 DEF Apart
      <4>. QED
        BY <2>4, <4>1, <4>2
    <3>. QED
      BY <3>1, <3>2
  <2>7. 1..(Len(probes') - 1) = 1..n
    BY <2>2, <2>4
  <2>. QED
    BY <2>6, <2>7 DEF Apart
<1>. QED
  BY <1>1, <1>2, Frame DEF vars, serveVars

(* The readiness probe is never answered from an entry that has lived its  *)
(* time, and probes that completed began at least that far apart, for      *)
(* every number of requests, hang-ups and time to live.                    *)
THEOREM ReadinessKept == Spec => []ReadinessHonest
<1>1. Init => Probing /\ Apart
  BY IdleType DEF Init, ServeInit, Probing, Apart
<1>2. RequestsSound /\ Probing /\ Apart /\ [Next]_vars => Probing' /\ Apart'
  BY NextProbing, NextApart
<1>3. RequestsSound /\ Apart => ReadinessHonest
  BY DEF RequestsSound, RequestSound, Apart, ReadinessHonest
<1>. QED
  BY <1>1, <1>2, <1>3, AlwaysSound, PTL DEF Spec

-----------------------------------------------------------------------------
(* Scrapes.  What is counted and what is still to be counted of a counter  *)
(* changes only when a review task reports, and then by the outcome it     *)
(* reports; a scrape's lines are compared with that.                       *)
Due(c, p) == {t \in Recorders : c \in p[t]}
Worth(c, m, p) == m[c] + Cardinality(Due(c, p))
ReviewCounters == {"succeeded", "failed", "completed", "le_1"}

Tallied ==
    /\ pending \in [Recorders -> SUBSET (Counters \cup {"new"})]
    /\ Worth("succeeded", metric, pending) + Worth("failed", metric, pending)
          <= Worth("completed", metric, pending)
    /\ Worth("le_1", metric, pending) <= Worth("completed", metric, pending)

LEMMA DueType ==
    ASSUME NEW c, NEW p
    PROVE  /\ IsFiniteSet(Due(c, p)) /\ Cardinality(Due(c, p)) \in Nat
           /\ Due(c, p) \subseteq Recorders
<1>1. Due(c, p) \subseteq Recorders
  BY DEF Due
<1>. QED
  BY <1>1, ServeAssumption, FS_Subset, FS_CardinalityType

LEMMA WorthType ==
    ASSUME NEW c \in Counters, NEW m \in [Counters -> Nat], NEW p
    PROVE  Worth(c, m, p) \in Nat /\ m[c] \in Nat /\ m[c] <= Worth(c, m, p)
BY DueType DEF Worth

(* Task t reports outcome o; task t increments counter d. *)
IsReport(p, q, t, o) ==
    /\ p \in [Recorders -> SUBSET (Counters \cup {"new"})]
    /\ t \in Recorders /\ p[t] = {"new"} /\ o \in SUBSET Counters
    /\ q = [p EXCEPT ![t] = o]

IsIncrement(m, n, p, q, t, d) ==
    /\ p \in [Recorders -> SUBSET (Counters \cup {"new"})]
    /\ t \in Recorders /\ d \in Counters /\ d \in p[t]
    /\ n = [m EXCEPT ![d] = m[d] + 1]
    /\ q = [p EXCEPT ![t] = p[t] \ {d}]

LEMMA Reported ==
    ASSUME NEW c \in ReviewCounters, NEW m \in [Counters -> Nat],
           NEW p, NEW q, NEW t, NEW o, IsReport(p, q, t, o)
    PROVE  Worth(c, m, q) = Worth(c, m, p) + IF c \in o THEN 1 ELSE 0
<1> USE DEF IsReport
<1>1. c \notin p[t] /\ c \in Counters
  BY DEF ReviewCounters, Counters, Buckets
<1>2. t \notin Due(c, p)
  BY <1>1 DEF Due
<1>3. CASE c \in o
  <2>1. Due(c, q) = Due(c, p) \cup {t}
    BY <1>3 DEF Due
  <2>2. Cardinality(Due(c, q)) = Cardinality(Due(c, p)) + 1
    BY <1>2, <2>1, DueType, FS_AddElement
  <2>. QED
    BY <1>1, <1>3, <2>2, DueType DEF Worth
<1>4. CASE c \notin o
  <2>1. Due(c, q) = Due(c, p)
    BY <1>1, <1>4 DEF Due
  <2>. QED
    BY <1>1, <1>4, <2>1, DueType DEF Worth
<1>. QED
  BY <1>3, <1>4

LEMMA Counted ==
    ASSUME NEW c \in ReviewCounters, NEW m \in [Counters -> Nat], NEW n,
           NEW p, NEW q, NEW t, NEW d, IsIncrement(m, n, p, q, t, d)
    PROVE  Worth(c, n, q) = Worth(c, m, p)
<1> USE DEF IsIncrement
<1>1. c \in Counters /\ m[c] \in Nat
  BY DEF ReviewCounters, Counters, Buckets
<1>2. CASE c = d
  <2>1. Due(c, q) = Due(c, p) \ {t} /\ t \in Due(c, p)
    BY <1>2 DEF Due
  <2>2. Cardinality(Due(c, q)) = Cardinality(Due(c, p)) - 1
    <3>1. IsFiniteSet(Due(c, p))
      BY DueType
    <3>2. Cardinality(Due(c, p) \ {t}) = Cardinality(Due(c, p)) - 1
      BY <2>1, <3>1, FS_RemoveElement
    <3>. QED
      BY <2>1, <3>2
  <2>3. n[c] = m[c] + 1
    BY <1>1, <1>2
  <2>4. n[c] + Cardinality(Due(c, q)) = m[c] + Cardinality(Due(c, p))
    BY <1>1, <2>2, <2>3, DueType
  <2>. QED
    BY <2>4 DEF Worth
<1>3. CASE c # d
  <2>1. Due(c, q) = Due(c, p)
    BY <1>3 DEF Due
  <2>2. n[c] = m[c]
    BY <1>1, <1>3
  <2>. QED
    BY <2>1, <2>2 DEF Worth
<1>. QED
  BY <1>2, <1>3

(* A step leaves every review counter's worth alone or is the report of an *)
(* outcome.                                                                *)
Gain(c, o) == IF c \in o THEN 1 ELSE 0

LEMMA WorthStep ==
    ASSUME RequestsSound, Tallied, [Next]_vars
    PROVE  /\ pending' \in [Recorders -> SUBSET (Counters \cup {"new"})]
           /\ \E o \in Outcomes \cup {{}} : \A c \in ReviewCounters :
                Worth(c, metric', pending') = Worth(c, metric, pending) + Gain(c, o)
<1> DEFINE Same == \A c \in ReviewCounters :
                      Worth(c, metric', pending') = Worth(c, metric, pending)
           Types == pending' \in [Recorders -> SUBSET (Counters \cup {"new"})]
<1>1. /\ metric \in [Counters -> Nat]
      /\ pending \in [Recorders -> SUBSET (Counters \cup {"new"})]
      /\ ReviewCounters \subseteq Counters
  BY DEF RequestsSound, Tallied, ReviewCounters, Counters, Buckets
<1>2. Same => \A c \in ReviewCounters :
                 Worth(c, metric', pending') = Worth(c, metric, pending) + Gain(c, {})
  BY <1>1, WorthType DEF Gain
<1>3. ASSUME NEW t \in Recorders, Increment(t) PROVE Types /\ Same
  <2>1. PICK d \in pending[t] \cap Counters :
           /\ metric' = [metric EXCEPT ![d] = @ + 1]
           /\ pending' = [pending EXCEPT ![t] = @ \ {d}]
    BY <1>3 DEF Increment, Count
  <2>2. Types
    BY <1>1, <2>1
  <2>3. ASSUME NEW c \in ReviewCounters
        PROVE  Worth(c, metric', pending') = Worth(c, metric, pending)
    <3>1. PICK m, n, p, q : m = metric /\ n = metric' /\ p = pending /\ q = pending'
      OBVIOUS
    <3>2. m \in [Counters -> Nat] /\ IsIncrement(m, n, p, q, t, d)
      BY <1>1, <2>1, <3>1 DEF IsIncrement
    <3>3. Worth(c, n, q) = Worth(c, m, p)
      BY <3>2, Counted
    <3>. QED
      BY <3>1, <3>3
  <2>. QED
    BY <2>2, <2>3
<1>4. ASSUME NEW t \in Recorders, RecordReview(t)
      PROVE  /\ Types
             /\ \E o \in Outcomes : \A c \in ReviewCounters :
                  Worth(c, metric', pending') = Worth(c, metric, pending) + Gain(c, o)
  <2>1. PICK o \in Outcomes : pending' = [pending EXCEPT ![t] = o]
    BY <1>4 DEF RecordReview
  <2>2. o \in SUBSET Counters
    BY DEF Outcomes, BucketDuration, Counters
  <2>3. metric' = metric /\ pending[t] = {"new"}
    BY <1>4 DEF RecordReview
  <2>4. Types
    BY <1>1, <2>1, <2>2
  <2>5. ASSUME NEW c \in ReviewCounters
        PROVE  Worth(c, metric', pending') = Worth(c, metric, pending) + Gain(c, o)
    <3>1. PICK m, p, q : m = metric /\ p = pending /\ q = pending'
      OBVIOUS
    <3>2. m \in [Counters -> Nat] /\ m = metric' /\ IsReport(p, q, t, o)
      BY <1>1, <2>1, <2>2, <2>3, <3>1 DEF IsReport
    <3>3. Worth(c, m, q) = Worth(c, m, p) + Gain(c, o)
      BY <3>2, Reported DEF Gain
    <3>. QED
      BY <3>1, <3>2, <3>3
  <2>. QED
    BY <2>4, <2>5
<1>5. ASSUME UNCHANGED pending, NEW d \in GatewayCounters, Count(d) PROVE Types /\ Same
  <2>1. \A c \in ReviewCounters : metric'[c] = metric[c]
    BY <1>1, <1>5 DEF Count, GatewayCounters, ReviewCounters
  <2>. QED
    BY <1>1, <1>5, <2>1 DEF Worth
<1>6. CASE UNCHANGED <<pending, metric>>
  BY <1>1, <1>2, <1>6
<1>. QED
  BY <1>2, <1>3, <1>4, <1>5, <1>6, Frame DEF vars, serveVars

LEMMA OutcomeParts ==
    ASSUME NEW o \in Outcomes \cup {{}}
    PROVE  /\ Gain("succeeded", o) + Gain("failed", o) <= Gain("completed", o)
           /\ Gain("le_1", o) <= Gain("completed", o)
           /\ \A c \in ReviewCounters : Gain(c, o) \in Nat
<1>1. /\ "le_1" \in o \/ "succeeded" \in o \/ "failed" \in o => "completed" \in o
      /\ ~("succeeded" \in o /\ "failed" \in o)
  BY DEF Outcomes, BucketDuration, Buckets
<1>. QED
  BY <1>1 DEF Gain

LEMMA NextTallied ==
    ASSUME RequestsSound, Tallied, [Next]_vars
    PROVE  Tallied'
<1>1. PICK o \in Outcomes \cup {{}} : \A c \in ReviewCounters :
         Worth(c, metric', pending') = Worth(c, metric, pending) + Gain(c, o)
  BY WorthStep
<1>2. PICK s, f, c, l : /\ s = Worth("succeeded", metric, pending)
                        /\ f = Worth("failed", metric, pending)
                        /\ c = Worth("completed", metric, pending)
                        /\ l = Worth("le_1", metric, pending)
  OBVIOUS
<1>3. PICK gs, gf, gc, gl : /\ gs = Gain("succeeded", o) /\ gf = Gain("failed", o)
                            /\ gc = Gain("completed", o) /\ gl = Gain("le_1", o)
  OBVIOUS
<1>4. /\ s \in Nat /\ f \in Nat /\ c \in Nat /\ l \in Nat
      /\ s + f <= c /\ l <= c
  BY <1>2, WorthType DEF RequestsSound, Tallied, Counters, Buckets
<1>5. /\ gs \in Nat /\ gf \in Nat /\ gc \in Nat /\ gl \in Nat
      /\ gs + gf <= gc /\ gl <= gc
  BY <1>3, OutcomeParts DEF ReviewCounters
<1>6. /\ Worth("succeeded", metric', pending') = s + gs
      /\ Worth("failed", metric', pending') = f + gf
      /\ Worth("completed", metric', pending') = c + gc
      /\ Worth("le_1", metric', pending') = l + gl
  BY <1>1, <1>2, <1>3 DEF ReviewCounters
<1>7. (s + gs) + (f + gf) <= c + gc /\ l + gl <= c + gc
  BY <1>4, <1>5
<1>. QED
  BY <1>6, <1>7, WorthStep DEF Tallied

(* A scrape's lines so far, against what is counted or due of the          *)
(* completed reviews: a line read is at most what its counter was worth.   *)
Bounded(read, n, failed, completed, counted, skew) ==
    /\ n = 1 => read[1] + failed <= completed
    /\ n = 2 => read[1] + read[2] <= completed
    /\ n > 2 => read[1] + read[2] <= read[3] + skew
    /\ n \in 3..4 => read[3] <= counted
    /\ n = 4 => read[4] <= completed
    /\ n = 5 => read[4] <= read[5] + skew /\ read[3] <= read[5]

Lines(read, during, m, p) ==
    Bounded(read, Len(read), Worth("failed", m, p), Worth("completed", m, p),
            m["completed"], Cardinality(during))

Scraped == \A r \in Requests : Kind[r].route = "metrics" =>
              Lines(req[r].read, req[r].during, metric, pending)

LEMMA DuringType ==
    ASSUME NEW d \in SUBSET Recorders
    PROVE  IsFiniteSet(d) /\ Cardinality(d) \in Nat
BY ServeAssumption, FS_Subset, FS_CardinalityType

LEMMA DuringGrows ==
    ASSUME NEW d \in SUBSET Recorders, NEW e \in SUBSET Recorders, d \subseteq e
    PROVE  Cardinality(d) <= Cardinality(e)
<1>1. IsFiniteSet(e) /\ d \in SUBSET e
  BY DuringType
<1>. QED
  BY <1>1, FS_Subset

LEMMA BoundsGrow ==
    ASSUME NEW read, NEW n \in Nat, n <= 5, \A i \in 1..n : read[i] \in Nat,
           NEW f \in Nat, NEW c \in Nat, NEW u \in Nat, NEW x \in Nat,
           NEW f1 \in Nat, NEW c1 \in Nat, NEW u1 \in Nat, NEW y \in Nat,
           f1 + c <= f + c1, c <= c1, u <= u1, x <= y,
           Bounded(read, n, f, c, u, x)
    PROVE  Bounded(read, n, f1, c1, u1, y)
<1> USE DEF Bounded
<1>1. CASE n = 1
  BY <1>1
<1>2. CASE n = 2
  BY <1>2
<1>3. CASE n = 3
  <2>1. read[1] \in Nat /\ read[2] \in Nat /\ read[3] \in Nat
    BY <1>3
  <2>2. read[1] + read[2] <= read[3] + y /\ read[3] <= u1
    BY <1>3, <2>1
  <2>. QED
    BY <1>3, <2>2
<1>4. CASE n = 4
  <2>1. read[1] \in Nat /\ read[2] \in Nat /\ read[3] \in Nat /\ read[4] \in Nat
    BY <1>4
  <2>2. read[1] + read[2] <= read[3] + y /\ read[3] <= u1 /\ read[4] <= c1
    BY <1>4, <2>1
  <2>. QED
    BY <1>4, <2>2
<1>5. CASE n = 5
  <2>1. /\ read[1] \in Nat /\ read[2] \in Nat /\ read[3] \in Nat /\ read[4] \in Nat
        /\ read[5] \in Nat
    BY <1>5
  <2>2. read[1] + read[2] <= read[3] + y /\ read[4] <= read[5] + y /\ read[3] <= read[5]
    BY <1>5, <2>1
  <2>. QED
    BY <1>5, <2>2
<1>6. CASE n = 0
  BY <1>6
<1>7. n = 0 \/ n = 1 \/ n = 2 \/ n = 3 \/ n = 4 \/ n = 5
  OBVIOUS
<1>. QED
  BY <1>1, <1>2, <1>3, <1>4, <1>5, <1>6, <1>7

(* What was read stays within its bounds while review tasks go on.         *)
LEMMA LinesStay ==
    ASSUME RequestsSound, Tallied, [Next]_vars,
           NEW read \in Seq(Nat), Len(read) <= 5,
           NEW d \in SUBSET Recorders, NEW e \in SUBSET Recorders, d \subseteq e,
           Lines(read, d, metric, pending)
    PROVE  Lines(read, e, metric', pending')
<1>1. PICK o \in Outcomes \cup {{}} : \A c \in ReviewCounters :
         Worth(c, metric', pending') = Worth(c, metric, pending) + Gain(c, o)
  BY WorthStep
<1>2. PICK f, c, f1, c1, u, u1 :
        /\ f = Worth("failed", metric, pending) /\ f1 = Worth("failed", metric', pending')
        /\ c = Worth("completed", metric, pending)
        /\ c1 = Worth("completed", metric', pending')
        /\ u = metric["completed"] /\ u1 = metric'["completed"]
  OBVIOUS
<1>3. /\ f \in Nat /\ c \in Nat /\ u \in Nat
  BY <1>2, WorthType DEF RequestsSound, Counters
<1>4. /\ f1 \in Nat /\ c1 \in Nat /\ c <= c1 /\ f1 + c <= f + c1
  <2>1. PICK gs, gf, gc : /\ gs = Gain("succeeded", o) /\ gf = Gain("failed", o)
                          /\ gc = Gain("completed", o)
    OBVIOUS
  <2>2. /\ gs \in Nat /\ gf \in Nat /\ gc \in Nat /\ gs + gf <= gc
    BY <2>1, OutcomeParts DEF ReviewCounters
  <2>3. f1 = f + gf /\ c1 = c + gc
    BY <1>1, <1>2, <2>1 DEF ReviewCounters
  <2>. QED
    BY <1>3, <2>2, <2>3
<1>5. u1 \in Nat /\ u <= u1
  BY <1>2, NextMetric DEF RequestsSound, vars, serveVars, Counters
<1>6. PICK x, y : x = Cardinality(d) /\ y = Cardinality(e)
  OBVIOUS
<1>7. x \in Nat /\ y \in Nat /\ x <= y
  BY <1>6, DuringType, DuringGrows
<1>8. \A i \in 1..Len(read) : read[i] \in Nat
  OBVIOUS
<1>9. PICK n : n = Len(read)
  OBVIOUS
<1>10. n \in Nat /\ n <= 5
  BY <1>9
<1>11. Bounded(read, n, f, c, u, x)
  BY <1>2, <1>6, <1>9 DEF Lines
<1>12. \A i \in 1..n : read[i] \in Nat
  BY <1>8, <1>9
<1>13. Bounded(read, n, f1, c1, u1, y)
  BY <1>3, <1>4, <1>5, <1>7, <1>10, <1>11, <1>12, BoundsGrow
<1>. QED
  BY <1>2, <1>6, <1>9, <1>13 DEF Lines

(* One more line: each is within the worth of its counter, and a line of   *)
(* the completed reviews is short only of what is still due.               *)
LEMMA BoundsRead ==
    ASSUME NEW read, NEW n \in Nat, n <= 4, \A i \in 1..n : read[i] \in Nat,
           NEW next, \A i \in 1..n : next[i] = read[i],
           NEW v \in Nat, next[n + 1] = v,
           NEW s \in Nat, NEW f \in Nat, NEW c \in Nat, NEW l \in Nat, NEW u \in Nat,
           NEW x \in Nat, NEW y \in Nat,
           s + f <= c, l <= c, c <= u + y, x <= y,
           /\ n = 0 => v <= s
           /\ n = 1 => v <= f
           /\ n = 2 => v = u
           /\ n = 3 => v <= l
           /\ n = 4 => v = u,
           Bounded(read, n, f, c, u, x)
    PROVE  Bounded(next, n + 1, f, c, u, y)
<1> USE DEF Bounded
<1>1. CASE n = 0
  <2>1. next[1] + f <= c
    BY <1>1
  <2>. QED
    BY <1>1, <2>1
<1>2. CASE n = 1
  <2>1. read[1] \in Nat /\ next[1] = read[1] /\ next[2] = v
    BY <1>2
  <2>2. next[1] + next[2] <= c
    BY <1>2, <2>1
  <2>. QED
    BY <1>2, <2>2
<1>3. CASE n = 2
  <2>1. /\ read[1] \in Nat /\ read[2] \in Nat
        /\ next[1] = read[1] /\ next[2] = read[2] /\ next[3] = v
    BY <1>3
  <2>2. next[1] + next[2] <= next[3] + y /\ next[3] <= u
    BY <1>3, <2>1
  <2>. QED
    BY <1>3, <2>2
<1>4. CASE n = 3
  <2>1. /\ read[1] \in Nat /\ read[2] \in Nat /\ read[3] \in Nat
        /\ next[1] = read[1] /\ next[2] = read[2] /\ next[3] = read[3] /\ next[4] = v
    BY <1>4
  <2>2. next[1] + next[2] <= next[3] + y /\ next[3] <= u /\ next[4] <= c
    BY <1>4, <2>1
  <2>. QED
    BY <1>4, <2>2
<1>5. CASE n = 4
  <2>1. /\ read[1] \in Nat /\ read[2] \in Nat /\ read[3] \in Nat /\ read[4] \in Nat
        /\ next[1] = read[1] /\ next[2] = read[2] /\ next[3] = read[3]
        /\ next[4] = read[4] /\ next[5] = v
    BY <1>5
  <2>2. /\ next[1] + next[2] <= next[3] + y
        /\ next[4] <= next[5] + y /\ next[3] <= next[5]
    BY <1>5, <2>1
  <2>. QED
    BY <1>5, <2>2
<1>6. n = 0 \/ n = 1 \/ n = 2 \/ n = 3 \/ n = 4
  OBVIOUS
<1>. QED
  BY <1>1, <1>2, <1>3, <1>4, <1>5, <1>6

LEMMA LineRead ==
    ASSUME RequestsSound, Tallied,
           NEW read \in Seq(Nat), Len(read) <= 4, NEW d \in SUBSET Recorders,
           Lines(read, d, metric, pending),
           NEW v \in Nat, v = metric[RenderOrder[Len(read) + 1]]
    PROVE  Lines(Append(read, v), d \cup Unsettled, metric, pending)
<1>1. PICK s, f, c, l, u, x, y, n, next :
        /\ s = Worth("succeeded", metric, pending) /\ f = Worth("failed", metric, pending)
        /\ c = Worth("completed", metric, pending) /\ l = Worth("le_1", metric, pending)
        /\ u = metric["completed"]
        /\ x = Cardinality(d) /\ y = Cardinality(d \cup Unsettled)
        /\ n = Len(read) /\ next = Append(read, v)
  OBVIOUS
<1>2. /\ s \in Nat /\ f \in Nat /\ c \in Nat /\ l \in Nat /\ u \in Nat
      /\ metric["succeeded"] <= s /\ metric["failed"] <= f /\ metric["le_1"] <= l
      /\ s + f <= c /\ l <= c
  BY <1>1, WorthType DEF RequestsSound, Tallied, Counters, Buckets
<1>3. Unsettled \in SUBSET Recorders /\ Due("completed", pending) \subseteq Unsettled
  BY DEF Unsettled, Due, Counters
<1>4. x \in Nat /\ y \in Nat /\ x <= y
  BY <1>1, <1>3, DuringType, DuringGrows
<1>5. c <= u + y
  <2>1. PICK z : z = Cardinality(Due("completed", pending))
    OBVIOUS
  <2>2. z \in Nat /\ z <= y
    BY <1>1, <1>3, <2>1, DueType, DuringGrows
  <2>3. c = u + z
    BY <1>1, <2>1 DEF Worth
  <2>. QED
    BY <1>2, <1>4, <2>2, <2>3
<1>6. n \in Nat /\ n <= 4 /\ (\A i \in 1..n : read[i] \in Nat)
  BY <1>1
<1>7. (\A i \in 1..n : next[i] = read[i]) /\ next[n + 1] = v /\ Len(next) = n + 1
  BY <1>1
<1>8. v = metric[RenderOrder[n + 1]]
  BY <1>1
<1>9. /\ n = 0 => v <= s
      /\ n = 1 => v <= f
      /\ n = 2 => v = u
      /\ n = 3 => v <= l
      /\ n = 4 => v = u
  <2>1. /\ RenderOrder[1] = "succeeded" /\ RenderOrder[2] = "failed"
        /\ RenderOrder[3] = "completed" /\ RenderOrder[4] = "le_1"
        /\ RenderOrder[5] = "completed"
    BY DEF RenderOrder
  <2>2. /\ n = 0 => n + 1 = 1
        /\ n = 1 => n + 1 = 2
        /\ n = 2 => n + 1 = 3
        /\ n = 3 => n + 1 = 4
        /\ n = 4 => n + 1 = 5
    BY <1>6
  <2>3. u = metric["completed"]
    BY <1>1
  <2>. QED
    BY <1>2, <1>8, <2>1, <2>2, <2>3
<1>10. Bounded(read, n, f, c, u, x)
  BY <1>1 DEF Lines
<1>11. Bounded(next, n + 1, f, c, u, y)
  BY <1>2, <1>4, <1>5, <1>6, <1>7, <1>9, <1>10, BoundsRead
<1>12. Bounded(next, Len(next), f, c, u, y)
  BY <1>7, <1>11
<1>. QED
  BY <1>1, <1>12 DEF Lines

LEMMA NextScraped ==
    ASSUME RequestsSound, Tallied, Scraped, [Next]_vars
    PROVE  Scraped'
<1> SUFFICES ASSUME NEW r \in Requests, Kind[r].route = "metrics"
             PROVE  Lines(req'[r].read, req'[r].during, metric', pending')
  BY DEF Scraped
<1>1. PICK read, d : read = req[r].read /\ d = req[r].during
  OBVIOUS
<1>2. /\ read \in Seq(Nat) /\ d \in SUBSET Recorders
      /\ Lines(read, d, metric, pending) /\ RequestSound(r, req[r])
  BY <1>1 DEF RequestsSound, RequestRec, Scraped
<1>3. Len(read) <= 5
  <2>1. req[r].pc \in {"idle", "metrics", "answered"}
    BY <1>2 DEF RequestSound, RequestRec, Places, WebhookPlaces, CiPlaces, ReadyPlaces
  <2>2. CASE req[r].pc = "idle"
    BY <1>1, <1>2, <2>2 DEF RequestSound
  <2>3. CASE req[r].pc = "metrics"
    <3>1. Len(read) <= 4 /\ Len(read) \in Nat
      BY <1>1, <1>2, <2>3 DEF RequestSound
    <3>. QED
      BY <3>1
  <2>4. CASE req[r].pc = "answered"
    <3>1. Len(read) = 5
      BY <1>1, <1>2, <2>4 DEF RequestSound
    <3>. QED
      BY <3>1
  <2>. QED
    BY <2>1, <2>2, <2>3, <2>4
<1>4. ASSUME req'[r].read = read, d \subseteq req'[r].during
      PROVE  Lines(req'[r].read, req'[r].during, metric', pending')
  <2>1. PICK e : e = req'[r].during
    OBVIOUS
  <2>2. e \in SUBSET Recorders
    BY <2>1, NextRequestsSound DEF RequestsSound, RequestRec
  <2>. QED
    BY <1>2, <1>3, <1>4, <2>1, <2>2, LinesStay
<1>5. CASE UNCHANGED req
  BY <1>1, <1>4, <1>5
<1>6. ASSUME NEW s \in Requests, NEW m, Moves(s, m)
      PROVE  req'[r].read = read /\ d \subseteq req'[r].during
  BY <1>1, <1>6 DEF Moves, RequestsSound
<1>7. ASSUME NEW s \in Requests, Scrape(s)
      PROVE  Lines(req'[r].read, req'[r].during, metric', pending')
  <2>1. PICK m : /\ req' = [req EXCEPT ![s] = m]
                 /\ Len(req[s].read) \in 0..4
                 /\ metric[RenderOrder[Len(req[s].read) + 1]] \in Nat
                 /\ m.read = Append(req[s].read, metric[RenderOrder[Len(req[s].read) + 1]])
                 /\ m.during = req[s].during \cup Unsettled
    BY <1>7, ScrapeStep
  <2>2. CASE s # r
    <3>1. req'[r] = req[r]
      BY <2>1, <2>2 DEF RequestsSound
    <3>. QED
      BY <1>1, <1>4, <3>1
  <2>3. CASE s = r
    <3>1. PICK v : v = metric[RenderOrder[Len(read) + 1]]
      OBVIOUS
    <3>2. /\ req'[r] = m /\ Len(read) <= 4 /\ v \in Nat
          /\ m.read = Append(read, v) /\ m.during = d \cup Unsettled
      <4>1. req'[r] = m
        BY <2>1, <2>3 DEF RequestsSound
      <4>2. Len(read) <= 4
        <5>1. PICK n : n = Len(read)
          OBVIOUS
        <5>2. n \in 0..4
          BY <1>1, <2>1, <2>3, <5>1
        <5>3. n <= 4
          BY <5>2
        <5>. QED
          BY <5>1, <5>3
      <4>. QED
        BY <1>1, <2>1, <2>3, <3>1, <4>1, <4>2
    <3>3. UNCHANGED <<metric, pending>>
      BY <1>7 DEF Scrape
    <3>4. Lines(Append(read, v), d \cup Unsettled, metric, pending)
      BY <1>2, <3>1, <3>2, LineRead
    <3>. QED
      BY <3>2, <3>3, <3>4
  <2>. QED
    BY <2>2, <2>3
<1>8. ASSUME NEW t \in Recorders, RecordReview(t)
      PROVE  req'[r].read = read /\ d \subseteq req'[r].during
  BY <1>1, <1>8, ReportStep
<1>. QED
  BY <1>4, <1>5, <1>6, <1>7, <1>8, RequestSteps DEF vars, serveVars

(* However many review tasks report while a scrape reads the counters, a   *)
(* part exceeds its whole by at most the reviews recorded meanwhile: what  *)
(* is counted and still due of the parts never exceeds that of the whole.  *)
THEOREM ScrapesBounded == Spec => []ScrapeSkewBounded
<1>1. Init => Tallied /\ Scraped
  <2> SUFFICES ASSUME Init PROVE Tallied /\ Scraped
    OBVIOUS
  <2> USE DEF Init, ServeInit
  <2>1. /\ pending \in [Recorders -> SUBSET (Counters \cup {"new"})]
        /\ \A c \in ReviewCounters : Due(c, pending) = {} /\ metric[c] = 0
    BY DEF Due, ReviewCounters, Counters, Buckets
  <2>2. \A c \in ReviewCounters : Worth(c, metric, pending) = 0
    <3>1. Cardinality({}) = 0
      BY FS_EmptySet
    <3>. QED
      <4>1. ASSUME NEW c \in ReviewCounters PROVE Worth(c, metric, pending) = 0
        <5>1. metric[c] = 0 /\ Cardinality(Due(c, pending)) = 0
          BY <2>1, <3>1
        <5>2. Worth(c, metric, pending) = 0 + 0
          BY <5>1 DEF Worth
        <5>. QED
          BY <5>2
      <4>. QED
        BY <4>1
  <2>3. Tallied
    BY <2>1, <2>2 DEF Tallied, ReviewCounters
  <2>4. \A r \in Requests : req[r].read = <<>>
    BY IdleType
  <2>5. Scraped
    BY <2>4 DEF Scraped, Lines, Bounded
  <2>. QED
    BY <2>3, <2>5
<1>2. RequestsSound /\ Tallied /\ Scraped /\ [Next]_vars => Tallied' /\ Scraped'
  BY NextTallied, NextScraped
<1>3. RequestsSound /\ Scraped => ScrapeSkewBounded
  <2> SUFFICES ASSUME RequestsSound, Scraped, NEW r \in Requests,
                      Kind[r].route = "metrics", req[r].pc = "answered"
               PROVE  LET read == req[r].read
                          skew == Cardinality(req[r].during)
                      IN  /\ read[1] + read[2] <= read[3] + skew
                          /\ read[4] <= read[5] + skew
                          /\ read[3] <= read[5]
    BY DEF ScrapeSkewBounded, StatusSummary
  <2>1. Len(req[r].read) = 5
    BY DEF RequestsSound, RequestSound
  <2>. QED
    BY <2>1 DEF Scraped, Lines, Bounded
<1>. QED
  BY <1>1, <1>2, <1>3, AlwaysSound, PTL DEF Spec
=============================================================================
