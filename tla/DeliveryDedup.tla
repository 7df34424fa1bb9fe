--------------------------- MODULE DeliveryDedup ---------------------------
(***************************************************************************)
(* The gateway's set of webhook deliveries it has seen: RecentDeliveries,  *)
(* a bounded set that evicts its oldest member, or SqliteDeliveries, a     *)
(* table that keeps every one.  A delivery is recorded before anything is  *)
(* done about it, and goes ahead when the store cannot be asked.           *)
(***************************************************************************)
EXTENDS Integers, Sequences, FiniteSets

CONSTANTS
    Deliveries,     \* X-Forgejo-Delivery identities
    Capacity,       \* AR_DEDUP_CAPACITY
    Sqlite,         \* the table (TRUE) or the bounded set (FALSE)
    StoreErrors     \* may the table be unreachable?

ASSUME DedupAssumption ==
    /\ Capacity \in Nat
    /\ Sqlite \in BOOLEAN
    /\ StoreErrors \in BOOLEAN

VARIABLES
    ids,            \* deliveries the store remembers
    order           \* RecentDeliveries: the same, oldest first

store == <<ids, order>>

(* RecentDeliveries::new: capacity.max(1). *)
Room == IF Capacity < 1 THEN 1 ELSE Capacity

StoreInit == ids = {} /\ order = <<>>

(* A process starts with an empty bounded set; the table survives. *)
StoreRestart == IF Sqlite THEN UNCHANGED store ELSE ids' = {} /\ order' = <<>>

(* Mutant of Remember: makes room by dropping the newest member. *)
RememberEvictNewest(d) ==
    /\ d \notin ids
    /\ IF Len(order) >= Room
       THEN /\ ids' = (ids \ {order[Len(order)]}) \cup {d}
            /\ order' = Append(SubSeq(order, 1, Len(order) - 1), d)
       ELSE ids' = ids \cup {d} /\ order' = Append(order, d)

(* Mutant of Remember: the evicted member stays in the set. *)
RememberLeaks(d) ==
    /\ d \notin ids
    /\ ids' = ids \cup {d}
    /\ order' = Append(IF Len(order) >= Room THEN Tail(order) ELSE order, d)

(* RecentDeliveries::check_and_record on first sight. *)
Remember(d) ==
    /\ d \notin ids
    /\ IF Len(order) >= Room
       THEN /\ ids' = (ids \ {Head(order)}) \cup {d}
            /\ order' = Append(Tail(order), d)
       ELSE ids' = ids \cup {d} /\ order' = Append(order, d)

(* SqliteDeliveries: INSERT OR IGNORE changed a row. *)
Insert(d) ==
    /\ d \notin ids
    /\ ids' = ids \cup {d}
    /\ UNCHANGED order

(* The insert failed, or succeeded without the gateway hearing of it. *)
Unreachable(d) ==
    /\ StoreErrors
    /\ ids' \in {ids, ids \cup {d}}
    /\ UNCHANGED order

(* The handler goes on with the delivery.  A gateway without a store       *)
(* (AR_DEDUP_CAPACITY=0) behaves as if the table were never reachable.     *)
Admit(d) ==
    \/ /\ ~Sqlite
       /\ Remember(d)
    \/ /\ Sqlite
       /\ Insert(d) \/ Unreachable(d)

(* The handler answers "duplicate" and does nothing else. *)
Bounce(d) ==
    /\ d \in ids
    /\ UNCHANGED store
=============================================================================
