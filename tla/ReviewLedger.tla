---------------------------- MODULE ReviewLedger ----------------------------
(***************************************************************************)
(* What the review history promises its readers, without jobs, permits or  *)
(* statuses: a ledger of posted reviews and, per pull request, one commit  *)
(* that may be used as the base of an incremental diff.  ReviewDispatch    *)
(* implements it.                                                          *)
(***************************************************************************)
CONSTANTS PRs, Commits, Anc, NoCommit

VARIABLES
    seen,       \* commits shown to a posted review of the pull request
    recorded    \* the base of the next incremental diff, or NoCommit

ledger == <<seen, recorded>>

Init ==
    /\ seen = [p \in PRs |-> {}]
    /\ recorded = [p \in PRs |-> NoCommit]

(* A review is posted; what has been seen is never unseen. *)
Show(p, shown) ==
    /\ seen' = [seen EXCEPT ![p] = @ \cup shown]
    /\ UNCHANGED recorded

(* A commit may be recorded only when all its ancestry has been seen. *)
Advance(p, c) ==
    /\ Anc[c] \subseteq seen[p]
    /\ recorded' = [recorded EXCEPT ![p] = c]
    /\ UNCHANGED seen

(* A reset, a purge or a restart may forget any records. *)
Forget(old) ==
    /\ recorded' = [p \in PRs |-> IF p \in old THEN NoCommit ELSE recorded[p]]
    /\ UNCHANGED seen

Next ==
    \/ \E p \in PRs, shown \in SUBSET Commits : Show(p, shown)
    \/ \E p \in PRs, c \in Commits : Advance(p, c)
    \/ \E old \in SUBSET PRs : Forget(old)

Spec == Init /\ [][Next]_ledger
=============================================================================
