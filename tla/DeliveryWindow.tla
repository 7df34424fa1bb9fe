--------------------------- MODULE DeliveryWindow ---------------------------
(***************************************************************************)
(* The delivery store under the forge's retries: any delivery may arrive   *)
(* any number of times, in any order, and the gateway may restart.         *)
(***************************************************************************)
EXTENDS DeliveryDedup

CONSTANT MaxPasses      \* bound: deliveries let through

ASSUME PassesAssumption == MaxPasses \in Nat

VARIABLE passed         \* what was let through since the store was created

windowVars == <<store, passed>>

WindowInit == StoreInit /\ passed = <<>>

Arrive(d) ==
    /\ Len(passed) < MaxPasses
    /\ Admit(d)
    /\ passed' = Append(passed, d)

Retry(d) == Bounce(d) /\ UNCHANGED passed

WindowRestart ==
    /\ StoreRestart
    /\ passed' = IF Sqlite THEN passed ELSE <<>>

WindowNext ==
    \/ \E d \in Deliveries : Arrive(d) \/ Retry(d)
    \/ WindowRestart

WindowSpec == WindowInit /\ [][WindowNext]_windowVars

-----------------------------------------------------------------------------
WindowTypeOK ==
    /\ ids \subseteq Deliveries
    /\ order \in Seq(Deliveries)
    /\ passed \in Seq(Deliveries)

(* The set and the queue of RecentDeliveries are two views of one thing,   *)
(* and never hold more than the capacity: the queue names every member     *)
(* once, so each eviction takes out exactly what it removes from the queue *)
(* and the memory stays bounded.                                           *)
StoreConsistent ==
    ~Sqlite => /\ ids = {order[i] : i \in 1..Len(order)}
               /\ \A i, k \in 1..Len(order) : order[i] = order[k] => i = k
               /\ Len(order) <= Room

(* A delivery let through again has been pushed out by at least a store-   *)
(* full of others since: a retry within the window never passes twice, and *)
(* with the table, as long as it answers, never at all, restarts included. *)
RetryOutsideWindow ==
    ~StoreErrors =>
        \A i, k \in 1..Len(passed) :
            i < k /\ passed[i] = passed[k] => ~Sqlite /\ k - i > Room
=============================================================================
