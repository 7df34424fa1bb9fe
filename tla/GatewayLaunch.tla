--------------------------- MODULE GatewayLaunch ---------------------------
(***************************************************************************)
(* How `auto-review gateway` comes up (ar-gateway/src/startup.rs).  The    *)
(* process the operator starts either becomes the gateway itself, when it  *)
(* is told to run bare or that a container is already around it, or stages *)
(* the packaged OCI bundle with the operator's settings in it, runs the    *)
(* gateway inside the container, waits for it and removes the bundle.      *)
(*                                                                         *)
(* The environment is a record of what the code tells apart.  The gateway  *)
(* inside the container sees the allow-listed part of it and the marker    *)
(* AR_GATEWAY_EXTERNAL_ISOLATION=container.                                *)
(***************************************************************************)
EXTENDS Naturals, FiniteSets, Sequences

CONSTANTS
    Environments,   \* the settings an operator may start the gateway with
    LaunchFaults    \* what may fail: "stage", "runtime", "cleanup", "store",
                    \* "bind", "kill"

EnvironmentType ==
    [flag : BOOLEAN,                                \* --bare
     bare : {"unset", "on", "off", "odd"},          \* AR_GATEWAY_BARE
     external : BOOLEAN,                            \* already in a container
     paths : {"unset", "garbled", "stray", "packaged"},
     required : {"set", "blank", "missing"},        \* WEBHOOK_SECRET and others
     model : {"unset", "named", "blank"},           \* LLM_REASONING_MODEL
     bot : {"unset", "named", "blank"},             \* AR_BOT_LOGIN, AR_BOT_NAME
     token : {"unset", "short", "strong"},          \* AR_CI_REVIEW_TOKEN
     rate : BOOLEAN, burst : BOOLEAN,               \* each set and a number
     dedup : {"disabled", "memory", "sqlite"}]

ASSUME LaunchAssumption ==
    /\ Environments \subseteq EnvironmentType
    /\ LaunchFaults \subseteq {"stage", "runtime", "cleanup", "store", "bind", "kill"}

VARIABLES
    env,        \* what the operator's process was started with
    outer,      \* that process: its place until it is the gateway or has ended
    stage,      \* the staged bundle: "none", "empty", "secrets"
    mishap,     \* history variable: killed or could not clean up
    gateway     \* the process that runs the gateway

launchVars == <<env, outer, stage, mishap, gateway>>

NoGateway == [pc |-> "none", confined |-> FALSE, external |-> FALSE,
              posture |-> "none"]

(* The reading of AR_GATEWAY_BARE, after trimming and lower-casing, in     *)
(* select_gateway_launcher and in classify_runtime_isolation_posture.      *)
UseOci(bare) == CASE bare = "on"  -> "bare"
                  [] bare = "odd" -> "error"
                  [] OTHER        -> "oci"

Boot(confined, external) ==
    [NoGateway EXCEPT !.pc = "config", !.confined = confined,
                      !.external = external]

(* select_gateway_launcher_for_startup_options and select_gateway_launcher *)
SelectLauncherFallsBack ==
    /\ outer = "start"
    /\ LET choice == IF env.external THEN "external"
                     ELSE IF env.flag THEN "bare" ELSE UseOci(env.bare)
       IN \/ /\ choice \in {"external", "bare"}
             /\ outer' = "inprocess"
             /\ gateway' = Boot(choice = "external", env.external)
          \/ /\ choice = "oci"
             /\ IF env.paths = "packaged"
                THEN outer' = "prepare" /\ UNCHANGED gateway
                ELSE outer' = "inprocess" /\ gateway' = Boot(FALSE, FALSE)
          \/ choice = "error" /\ outer' = "ended" /\ UNCHANGED gateway
    /\ UNCHANGED <<env, stage, mishap>>

SelectLauncher ==
    /\ outer = "start"
    /\ LET choice == IF env.external THEN "external"
                     ELSE IF env.flag THEN "bare" ELSE UseOci(env.bare)
       IN \/ /\ choice \in {"external", "bare"}
             /\ outer' = "inprocess"
             /\ gateway' = Boot(choice = "external", env.external)
          \/ choice = "oci" /\ outer' = "prepare" /\ UNCHANGED gateway
          \/ choice = "error" /\ outer' = "ended" /\ UNCHANGED gateway
    /\ UNCHANGED <<env, stage, mishap>>

(* validate_packaged_oci_input_paths: absolute, without traversal, and     *)
(* both under /nix/store or bundle and runtime of one portable release.    *)
PathsAccepted == env.paths = "packaged"

(* inner_gateway_process_env_from_lookup: here blank counts as missing. *)
InnerEnvComplete == env.required = "set"

PrepareEmbeddedOci ==
    /\ outer = "prepare"
    /\ outer' = IF InnerEnvComplete /\ PathsAccepted THEN "stage" ELSE "ended"
    /\ UNCHANGED <<env, stage, mishap, gateway>>

(* stage_embedded_oci_gateway_bundle: before the directory exists a        *)
(* failure leaves nothing to remove.                                       *)
CreateStage ==
    /\ outer = "stage"
    /\ \/ outer' = "restrict" /\ stage' = "empty"
       \/ "stage" \in LaunchFaults /\ outer' = "ended" /\ UNCHANGED stage
    /\ UNCHANGED <<env, mishap, gateway>>

(* restrict_stage_directory *)
RestrictStage ==
    outer = "restrict" /\ outer' = "rootfs" /\ UNCHANGED stage

(* link_packaged_rootfs: a recursive copy, or a link when it may be one. *)
LinkPackagedRootfs ==
    outer = "rootfs" /\ outer' = "config" /\ UNCHANGED stage

(* config.json with the settings, the secrets among them. *)
WriteStagedConfig ==
    outer = "config" /\ outer' = "runtime" /\ stage' = "secrets"

(* stage_embedded_oci_gateway_bundle_at_path: a step that fails removes    *)
(* the directory.  A failed write may have written.                        *)
FillStageNoCleanup ==
    /\ \/ RestrictStage \/ LinkPackagedRootfs \/ WriteStagedConfig
       \/ /\ "stage" \in LaunchFaults
          /\ outer \in {"restrict", "rootfs", "config"}
          /\ outer' = "ended"
          /\ stage' \in {stage} \cup (IF outer = "config" THEN {"secrets"} ELSE {})
    /\ UNCHANGED <<env, mishap, gateway>>

FillStage ==
    /\ \/ RestrictStage \/ LinkPackagedRootfs \/ WriteStagedConfig
       \/ /\ "stage" \in LaunchFaults
          /\ outer \in {"restrict", "rootfs", "config"}
          /\ outer' = "cleanup"
          /\ stage' \in {stage} \cup (IF outer = "config" THEN {"secrets"} ELSE {})
    /\ UNCHANGED <<env, mishap, gateway>>

(* The gateway in the container: the settings that are passed on, and the  *)
(* marker that tells it where it is.                                       *)
BootInside == Boot(TRUE, TRUE)

(* run_packaged_oci_runtime_command: a cleared environment, and a wait for *)
(* the container to exit.                                                  *)
RunRuntime ==
    /\ outer = "runtime"
    /\ \/ outer' = "waiting" /\ gateway' = BootInside
       \/ "runtime" \in LaunchFaults /\ outer' = "cleanup" /\ UNCHANGED gateway
    /\ UNCHANGED <<env, stage, mishap>>

RuntimeExits ==
    /\ outer = "waiting" /\ gateway.pc = "ended"
    /\ outer' = "cleanup"
    /\ UNCHANGED <<env, stage, mishap, gateway>>

(* remove_staged_oci_bundle: a failure is logged. *)
RemoveStage ==
    /\ outer = "cleanup"
    /\ outer' = "ended"
    /\ \/ stage' = "none" /\ UNCHANGED mishap
       \/ "cleanup" \in LaunchFaults /\ mishap' = TRUE /\ UNCHANGED stage
    /\ UNCHANGED <<env, gateway>>

(* The launcher installs no signal handler: SIGTERM ends it where it is. *)
KillLauncher ==
    /\ "kill" \in LaunchFaults
    /\ outer \notin {"inprocess", "ended"}
    /\ outer' = "ended" /\ mishap' = TRUE
    /\ UNCHANGED <<env, stage, gateway>>

OuterStep == \/ SelectLauncher \/ PrepareEmbeddedOci \/ CreateStage
             \/ FillStage \/ RunRuntime \/ RuntimeExits \/ RemoveStage

-----------------------------------------------------------------------------
(* run_from_env, in the gateway's process.                                 *)

Advance(from, to) ==
    /\ gateway.pc = from
    /\ gateway' = [gateway EXCEPT !.pc = to]

(* GatewayStartupConfig::from_env_values and resolve_bot_identity: an      *)
(* unset model or name has a default, a blank one is refused.              *)
ReadConfig ==
    /\ Advance("config",
          IF env.model = "blank" \/ env.required = "missing" \/ env.bot = "blank"
          THEN "ended" ELSE "stores")
    /\ UNCHANGED <<env, outer, stage, mishap>>

(* The four stores of resolve_db_backing; each that is SQLite may fail.    *)
OpenStores ==
    /\ \/ Advance("stores", "posture")
       \/ "store" \in LaunchFaults /\ Advance("stores", "ended")
    /\ UNCHANGED <<env, outer, stage, mishap>>

(* classify_runtime_isolation_posture, on Linux.  It looks at the          *)
(* variables and not at the --bare flag.                                   *)
PostureOf(bare, external) ==
    IF external THEN "external_container"
    ELSE CASE UseOci(bare) = "bare" -> "explicit_bare"
           [] UseOci(bare) = "oci"  -> "oci_default"
           [] OTHER                 -> "none"

ClassifyPosture ==
    /\ gateway.pc = "posture"
    /\ LET posture == PostureOf(env.bare, gateway.external)
       IN  gateway' = [gateway EXCEPT
              !.pc = IF posture = "none" THEN "ended" ELSE "token",
              !.posture = posture]
    /\ UNCHANGED <<env, outer, stage, mishap>>

(* validate_ci_review_token, after the chat poller has been spawned. *)
ValidateCiToken ==
    /\ Advance("token", IF env.token = "short" THEN "ended" ELSE "bind")
    /\ UNCHANGED <<env, outer, stage, mishap>>

(* axum::serve on the bound address. *)
BindListener ==
    /\ \/ Advance("bind", "serving")
       \/ "bind" \in LaunchFaults /\ Advance("bind", "ended")
    /\ UNCHANGED <<env, outer, stage, mishap>>

(* shutdown_signal: SIGINT or SIGTERM stops the listener. *)
ShutdownSignal ==
    /\ Advance("serving", "draining")
    /\ UNCHANGED <<env, outer, stage, mishap>>

BootStep == ReadConfig \/ OpenStores \/ ClassifyPosture \/ ValidateCiToken
            \/ BindListener

Serving == gateway.pc \in {"serving", "draining"}

(* The limiter needs both settings, dedup a capacity, the CI endpoint its  *)
(* token (the builders of AppState).                                       *)
LimiterOn == env.rate /\ env.burst
DedupOn   == env.dedup # "disabled"
CiOn      == env.token = "strong"

LaunchInit ==
    /\ env \in Environments
    /\ outer = "start" /\ stage = "none" /\ mishap = FALSE
    /\ gateway = NoGateway

-----------------------------------------------------------------------------
(* When the launcher is gone, so is the staged bundle with the settings in *)
(* it, however far staging or the runtime came; a kill and a failed        *)
(* removal are the only ways it stays (startup.rs:620-665, 879-903).       *)
StageIsRemoved == outer = "ended" /\ ~mishap => stage = "none"

(* The gateway never runs without the container because setting it up      *)
(* failed: only when the operator asked for it.  And what /info says of a  *)
(* gateway that was configured by variables alone is the case: it reports  *)
(* bare mode exactly when nothing is around it.                            *)
IsolationAsAsked ==
    /\ gateway.pc # "none" /\ ~gateway.confined =>
          env.flag \/ env.bare = "on"
    /\ Serving /\ ~env.flag =>
          (gateway.posture = "explicit_bare") = ~gateway.confined
=============================================================================
