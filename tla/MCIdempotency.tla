--------------------------- MODULE MCIdempotency ---------------------------
(***************************************************************************)
(* For TLC, the two places where a request that comes again is recognised: *)
(* the delivery store of the gateway and the claims of the AgentCore       *)
(* runtime.  They share nothing, so a behaviour is of one or of the other: *)
(* deliveries arrive while no call was made, or calls are made and no      *)
(* delivery arrives.  Calls differ in nothing but their payloads.          *)
(***************************************************************************)
EXTENDS Invocations, DeliveryWindow, TLC

MCModes == {[handler |-> "github", durable |-> TRUE],
            [handler |-> "forgejo", durable |-> FALSE],
            [handler |-> "review_only", durable |-> FALSE],
            [handler |-> "none", durable |-> FALSE]}
CallSymmetry == Permutations(Calls)

MCInit == Init /\ WindowInit

NoCallYet == claimed = {} /\ \A i \in Calls : pc[i] = "idle"

MCNext ==
    \/ passed = <<>> /\ Next /\ UNCHANGED windowVars
    \/ NoCallYet /\ mode.handler = "none" /\ WindowNext /\ UNCHANGED vars

MCSpec == MCInit /\ [][MCNext]_<<vars, windowVars>>
=============================================================================
