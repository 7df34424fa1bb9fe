------------------------- MODULE InvocationsProofs -------------------------
(***************************************************************************)
(* Types, and one run per idempotency record, for every number of          *)
(* overlapping calls.                                                      *)
(***************************************************************************)
EXTENDS Invocations, TLAPS

(* Whoever owns a record has its key in the store, so nobody else's        *)
(* conditional write can succeed while it lasts.                           *)
GrantInv ==
    /\ \A i \in grants : Key(i) \in claimed
    /\ OneRunPerRecord

LEMMA NextGrants == GrantInv /\ [Next]_vars => GrantInv'
<1> SUFFICES ASSUME GrantInv, [Next]_vars PROVE GrantInv'
  OBVIOUS
<1> USE DEF GrantInv, OneRunPerRecord, payload
<1>0. payload' = payload
  BY DEF Next, vars, Push, Expire, Restart, Invoke, Accept, ClaimInMemory, PutClaim,
         RefusePayload, HostForPayload, Handle, RunReview, RunCommand, Cancel
<1>1. \A i : Key(i)' = Key(i)
  BY <1>0 DEF Key
<1>2. ASSUME claimed \subseteq claimed', grants' = grants PROVE GrantInv'
  BY <1>1, <1>2
<1>3. ASSUME NEW k \in Keys, Expire(k) PROVE GrantInv'
  <2>1. claimed' = claimed \ {k} /\ grants' = {i \in grants : Key(i) # k}
    BY <1>3 DEF Expire
  <2>. QED
    BY <1>1, <2>1
<1>4. CASE Restart
  <2>1. \/ claimed' = claimed /\ grants' = grants
        \/ grants' = {}
    BY <1>4 DEF Restart
  <2>. QED
    BY <1>1, <2>1
<1>5. ASSUME NEW i \in Calls, ClaimInMemory(i) \/ PutClaim(i) PROVE GrantInv'
  <2>1. \/ claimed \subseteq claimed' /\ grants' = grants
        \/ /\ Key(i) \notin claimed
           /\ claimed' = claimed \cup {Key(i)}
           /\ grants' = grants \cup {i}
    BY <1>5 DEF ClaimInMemory, PutClaim, Claim
  <2>2. CASE /\ Key(i) \notin claimed
             /\ claimed' = claimed \cup {Key(i)}
             /\ grants' = grants \cup {i}
    <3>1. \A j \in grants : Key(j) # Key(i)
      BY <2>2
    <3>2. (\A j \in grants : Key(j) \in claimed)'
      BY <1>1, <2>2
    <3>3. OneRunPerRecord'
      BY <1>1, <2>2, <3>1
    <3>. QED
      BY <3>2, <3>3
  <2>. QED
    BY <1>2, <2>1, <2>2
<1>6. ASSUME NEW i \in Calls,
             \/ Invoke(i) \/ Accept(i) \/ RefusePayload(i) \/ HostForPayload(i)
             \/ Handle(i) \/ RunReview(i) \/ RunCommand(i) \/ Cancel(i)
      PROVE  claimed \subseteq claimed' /\ grants' = grants
  BY <1>6 DEF Invoke, Accept, RefusePayload, HostForPayload, Handle, RunReview,
              RunCommand, Cancel
<1>7. ASSUME NEW c \in Commits, Push(c) PROVE claimed \subseteq claimed' /\ grants' = grants
  BY <1>7 DEF Push
<1>8. CASE UNCHANGED vars
  BY <1>2, <1>8 DEF vars
<1>. QED
  BY <1>2, <1>3, <1>4, <1>5, <1>6, <1>7, <1>8 DEF Next

(* While a key's record lasts, one call at most gets past the claim:       *)
(* overlapping calls, lost answers of the store, cancelled requests, cold  *)
(* starts and expiring records included.                                   *)
THEOREM OneRun == Spec => []OneRunPerRecord
<1>1. Init => GrantInv
  BY DEF Init, GrantInv, OneRunPerRecord
<1>2. GrantInv /\ [Next]_vars => GrantInv'
  BY NextGrants
<1>3. GrantInv => OneRunPerRecord
  BY DEF GrantInv
<1>. QED
  BY <1>1, <1>2, <1>3, PTL DEF Spec

-----------------------------------------------------------------------------
LEMMA KeyType ==
    ASSUME TypeOK, NEW i \in Calls
    PROVE  Key(i) \in Keys
BY DEF TypeOK, Key, Keys

LEMMA AnswerType ==
    ASSUME TypeOK, NEW i \in Calls, NEW a \in Answers, Answer(i, a)
    PROVE  /\ answer' \in [Calls -> Answers \cup {"none"}]
           /\ pc' \in [Calls -> {"idle", "claim", "handle", "host", "work", "done"}]
BY DEF TypeOK, Answer

LEMMA NextTypes == TypeOK /\ [Next]_vars => TypeOK'
<1> SUFFICES ASSUME TypeOK, [Next]_vars PROVE TypeOK'
  OBVIOUS
<1> USE DEF payload
<1> DEFINE Places == {"idle", "claim", "handle", "host", "work", "done"}
<1>1. ASSUME NEW i \in Calls, UNCHANGED <<mode, head, restarts, payload>>,
             claimed' \subseteq claimed \cup {Key(i)},
             grants' \subseteq grants \cup {i},
             \/ \E a \in Answers : Answer(i, a)
             \/ answer' = answer /\ \E to \in Places : pc' = [pc EXCEPT ![i] = to]
      PROVE  TypeOK'
  <2>1. answer' \in [Calls -> Answers \cup {"none"}] /\ pc' \in [Calls -> Places]
    <3>1. CASE answer' = answer /\ \E to \in Places : pc' = [pc EXCEPT ![i] = to]
      BY <3>1 DEF TypeOK
    <3>. QED
      BY <1>1, <3>1, AnswerType
  <2>2. claimed' \subseteq Keys
    BY <1>1, KeyType DEF TypeOK
  <2>. QED
    BY <1>1, <2>1, <2>2 DEF TypeOK
<1>2. ASSUME NEW c \in Commits, Push(c) PROVE TypeOK'
  BY <1>2 DEF Push, TypeOK
<1>3. ASSUME NEW k \in Keys, Expire(k) PROVE TypeOK'
  BY <1>3 DEF Expire, TypeOK
<1>4. CASE Restart
  <2>1. restarts' \in 0..MaxRestarts
    BY <1>4, InvocationsAssumption DEF Restart, TypeOK
  <2>2. pc' \in [Calls -> Places]
    BY <1>4 DEF Restart, TypeOK
  <2>. QED
    BY <1>4, <2>1, <2>2 DEF Restart, TypeOK
<1>5. ASSUME NEW i \in Calls,
             \/ Invoke(i) \/ Accept(i) \/ RefusePayload(i) \/ HostForPayload(i)
             \/ Handle(i) \/ RunReview(i) \/ RunCommand(i)
      PROVE  TypeOK'
  <2>1. UNCHANGED <<mode, head, restarts, payload, claimed, grants>>
    BY <1>5 DEF Invoke, Accept, RefusePayload, HostForPayload, Handle, RunReview,
                RunCommand
  <2>2. \/ \E a \in Answers : Answer(i, a)
        \/ answer' = answer /\ \E to \in Places : pc' = [pc EXCEPT ![i] = to]
    BY <1>5 DEF Invoke, Accept, RefusePayload, HostForPayload, Handle, RunReview,
                RunCommand, Answers
  <2>. QED
    BY <1>1, <2>1, <2>2
<1>6. ASSUME NEW i \in Calls, ClaimInMemory(i) \/ PutClaim(i) PROVE TypeOK'
  <2>1. /\ UNCHANGED <<mode, head, restarts, payload>>
        /\ claimed' \subseteq claimed \cup {Key(i)}
        /\ grants' \subseteq grants \cup {i}
    BY <1>6 DEF ClaimInMemory, PutClaim, Claim
  <2>2. \/ \E a \in Answers : Answer(i, a)
        \/ answer' = answer /\ \E to \in Places : pc' = [pc EXCEPT ![i] = to]
    BY <1>6 DEF ClaimInMemory, PutClaim, Claim, Answers
  <2>. QED
    BY <1>1, <2>1, <2>2
<1>7. ASSUME NEW i \in Calls, Cancel(i) PROVE TypeOK'
  <2>1. /\ UNCHANGED <<mode, head, restarts, payload, answer, grants>>
        /\ claimed' \subseteq claimed \cup {Key(i)}
        /\ pc' = [pc EXCEPT ![i] = "done"]
    BY <1>7 DEF Cancel
  <2>. QED
    BY <1>1, <2>1
<1>8. CASE UNCHANGED vars
  BY <1>8 DEF vars, TypeOK
<1>. QED
  BY <1>2, <1>3, <1>4, <1>5, <1>6, <1>7, <1>8 DEF Next

(* Type correctness of the AgentCore runtime: a call is where the code can *)
(* be, has been told nothing but the listed answers, and every key in the  *)
(* store is one some call can claim.                                       *)
THEOREM RuntimeTypes == Spec => []TypeOK
<1>1. Init => TypeOK
  BY InvocationsAssumption DEF Init, TypeOK
<1>2. TypeOK /\ [Next]_vars => TypeOK'
  BY NextTypes
<1>. QED
  BY <1>1, <1>2, PTL DEF Spec
=============================================================================
