------------------------------ MODULE Gateway ------------------------------
(***************************************************************************)
(* A gateway from its launch to its end: GatewayLaunch decides what runs   *)
(* and with which parts switched on, GatewayServe is what it does while it *)
(* serves, and shutdown drains the requests that are being handled.        *)
(***************************************************************************)
EXTENDS GatewayServe

CONSTANT Scenarios      \* the environments and loads that are explored together

ASSUME ScenarioAssumption == Scenarios \subseteq Environments \X Loads

vars == <<launchVars, serveVars>>

InFlight == {r \in Requests : req[r].pc \notin {"idle", "answered", "gone"}}

(* axum::serve returns when no request is being handled.  Spawned review   *)
(* and chat tasks are not waited for: the runtime drops them.              *)
Drained ==
    /\ gateway.pc = "draining" /\ InFlight = {}
    /\ gateway' = [gateway EXCEPT !.pc = "ended"]
    /\ UNCHANGED <<env, outer, stage, mishap, serveVars>>

Init == LaunchInit /\ ServeInit /\ <<env, load>> \in Scenarios

Launch == OuterStep \/ KillLauncher \/ BootStep \/ ShutdownSignal

Next ==
    \/ Launch /\ UNCHANGED serveVars
    \/ Drained
    \/ Serving /\ UNCHANGED launchVars
       /\ \/ Tick \/ ForgeChanges
          \/ \E r \in Requests : Arrive(r) \/ Handle(r) \/ HangUp(r)
          \/ \E t \in Recorders : RecordReview(t) \/ Increment(t)

Spec == Init /\ [][Next]_vars

(* The launcher and the startup are sequential code; every accepted        *)
(* request is a task that tokio polls.  Clients, the clock, the forge and  *)
(* the operator owe nothing.                                               *)
FairSpec ==
    /\ Spec
    /\ WF_vars((OuterStep \/ BootStep) /\ UNCHANGED serveVars)
    /\ WF_vars(Drained)
    /\ \A r \in Requests : WF_vars(Serving /\ Handle(r) /\ UNCHANGED launchVars)
-----------------------------------------------------------------------------
(* The bucket never grants more than its capacity and what the seconds     *)
(* have refilled.  A request that reads the clock early and takes the lock *)
(* late sets last_refilled back, and those seconds are refilled twice: the *)
(* excess is exactly bounded by how far it was set back                    *)
(* (ratelimit.rs:57-76).                                                   *)
BucketAccounts ==
    bucket.tokens + granted.takes
        <= Capacity + PerSecond * (bucket.last + granted.rewound)

(* A delivery that has come past throttle, signature check and dedup store *)
(* (its handler may have been dropped since, by a client that hung up).    *)
TakenUp(r) ==
    /\ Kind[r].signature = "good"
    /\ \/ req[r].pc \in {"route", "claim", "gone"}
       \/ req[r].pc = "answered" /\ req[r].status \in {202, 400}
       \/ req[r].pc = "answered" /\ req[r].status = 200 /\ Kind[r].event = "ping"

(* An event is refused as a duplicate only where another delivery with its *)
(* id has come past the dedup store, whatever order the copies, the        *)
(* throttle, failures of the store and hang-ups come in: one that was      *)
(* throttled or failed the signature check has not used up the id, so it   *)
(* can be sent again (webhook.rs:27-119).                                  *)
DuplicateWasTaken ==
    \A r \in Webhooks :
        Kind[r].event # "ping" /\ req[r].pc = "answered" /\ req[r].status = 200 =>
            \E other \in Webhooks \ {r} :
                Kind[other].delivery = Kind[r].delivery /\ TakenUp(other)

(* /readyz never answers from a probe that is TTL seconds old, and probes  *)
(* that completed started at least TTL seconds apart, however many         *)
(* requests come at once; only a hang-up during a probe lets the next      *)
(* request probe again at once (lib.rs:188-213).                           *)
ReadinessHonest ==
    /\ \A r \in Requests :
          Kind[r].route = "ready" /\ req[r].pc = "answered" =>
              req[r].clock = 0 \/ req[r].clock < TTL
    /\ \A i \in 1..Len(probes) - 1 : probes[i + 1] - probes[i] >= TTL

(* StatusSummary::compute, from what `auto-review ops status` scraped.     *)
StatusSummary(read) ==
    [succeeded |-> read[1], failed |-> read[2], completed |-> read[3]]

(* A scrape reads the counters one by one while review tasks increment     *)
(* them: a part can exceed its whole (a success rate above 100%, a bucket  *)
(* above +Inf), but only by the reviews recorded during the scrape         *)
(* (metrics.rs:139-190, 247-462; commands.rs:1010-1060).                   *)
ScrapeSkewBounded ==
    \A r \in Requests :
        Kind[r].route = "metrics" /\ req[r].pc = "answered" =>
            LET read == req[r].read
                skew == Cardinality(req[r].during)
                status == StatusSummary(read)
            IN  /\ status.succeeded + status.failed <= status.completed + skew
                /\ read[4] <= read[5] + skew
                /\ read[3] <= read[5]

(* A CI request is turned into a review only of a head that was the pull   *)
(* request's head at some time since the request came: one for a head that *)
(* has been pushed over is refused (webhook.rs:246-248).                   *)
CiHeadWasCurrent == \A j \in jobs : j.floor <= j.head /\ j.head <= forge.head

(* A gateway that was told to stop ends once the requests in flight are    *)
(* answered, whatever they wait for, and the launcher after it.            *)
ShutdownEnds ==
    gateway.pc = "draining" ~>
        gateway.pc = "ended" /\ outer \in {"inprocess", "ended"}
=============================================================================
