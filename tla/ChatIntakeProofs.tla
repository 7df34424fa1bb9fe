-------------------------- MODULE ChatIntakeProofs --------------------------
(***************************************************************************)
(* Proofs about ChatIntake for every number of pull requests, comments,    *)
(* webhook requests in flight and deliveries.                              *)
(***************************************************************************)
EXTENDS ChatIntake, WellFoundedInduction, TLAPS

-----------------------------------------------------------------------------
(* What Highest returns.                                                   *)

LEMMA LeastExists ==
    ASSUME NEW T \in SUBSET Nat, T # {}
    PROVE  \E m \in T : \A d \in T : m <= d
<1>1. PICK x \in T : \A y \in T : ~(<<y, x>> \in OpToRel(<, Nat))
  BY NatLessThanWellFounded, WFMin
<1>2. \A y \in T : ~(y < x)
  BY <1>1 DEF OpToRel
<1>. QED
  BY <1>2

(* A bounded set of numbers has a highest member: the least of its bounds. *)
LEMMA HighestOf ==
    ASSUME NEW S \in SUBSET Nat, S # {}, NEW B \in Nat, \A d \in S : d <= B
    PROVE  Highest(S) \in S /\ \A d \in S : d <= Highest(S)
<1> DEFINE Bounds == {n \in Nat : \A d \in S : d <= n}
<1>1. PICK m \in Bounds : \A d \in Bounds : m <= d
  <2>1. Bounds \in SUBSET Nat /\ B \in Bounds
    OBVIOUS
  <2>. QED
    BY <2>1, LeastExists
<1>2. m \in S
  <2> SUFFICES ASSUME m \notin S PROVE FALSE
    OBVIOUS
  <2>1. PICK s \in S : TRUE
    OBVIOUS
  <2>2. m \in Nat /\ s < m
    BY <2>1
  <2>3. m - 1 \in Bounds
    BY <2>2
  <2>. QED
    BY <1>1, <2>2, <2>3
<1>3. \E c \in S : \A d \in S : d <= c
  BY <1>2
<1>. QED
  BY <1>3 DEF Highest

-----------------------------------------------------------------------------
(* Types.                                                                  *)

CommentType == [pr : PRs, mention : BOOLEAN]

IntakeTypes ==
    /\ comments \in Seq(CommentType)
    /\ Len(comments) <= MaxComments
    /\ known \subseteq PRs
    /\ \A p \in DOMAIN cursors : cursors[p] \in Nat
    /\ boot \in 0..Len(comments)
    /\ late \subseteq Ids
    /\ handled \in [1..MaxComments -> 0..2]
    /\ req \in [Requests -> {"free", "claim", "handle"}]
    /\ about \in [Requests -> 0..MaxComments]
    /\ \A r \in Requests : req[r] # "free" => about[r] \in Ids
    /\ at \in {"idle", "prune", "next", "listed", "scan", "seed", "dispatch"}
    /\ todo \subseteq PRs
    /\ cur \in PRs
    /\ upto \in 0..Len(comments)
    /\ pos \in Nat
    /\ outbox \in Seq(Nat)
    /\ \A i \in 1..Len(outbox) : outbox[i] \in Ids

LEMMA InitIntake == Init => IntakeTypes
<1> SUFFICES ASSUME Init PROVE IntakeTypes
  OBVIOUS
<1>1. Len(comments) = 0 /\ comments \in Seq(CommentType) /\ outbox \in Seq(Nat)
      /\ Len(outbox) = 0
  BY DEF Init
<1>. QED
  BY <1>1, ChatAssumption DEF Init, IntakeTypes

(* How SetCursor changes the cursors, by pull request. *)
LEMMA CursorSet ==
    ASSUME NEW p, NEW c, SetCursor(p, c)
    PROVE  \A q \in DOMAIN cursors' :
              \/ q = p /\ cursors'[q] = c
              \/ q \in DOMAIN cursors /\ cursors'[q] = cursors[q]
<1>1. cursors' = [q \in DOMAIN cursors \cup {p} |-> IF q = p THEN c ELSE cursors[q]]
  BY DEF SetCursor
<1>2. DOMAIN cursors' = DOMAIN cursors \cup {p}
  BY <1>1
<1>. QED
  BY <1>1, <1>2

LEMMA CursorType ==
    ASSUME IntakeTypes, NEW p
    PROVE  Cursor(p) \in Nat
BY DEF IntakeTypes, Cursor

LEMMA CursorsTyped ==
    ASSUME IntakeTypes, NEW p, NEW c \in Nat, SetCursor(p, c)
    PROVE  \A q \in DOMAIN cursors' : cursors'[q] \in Nat
BY DEF IntakeTypes, SetCursor

LEMMA GivenFacts ==
    ASSUME IntakeTypes, NEW c \in 1..MaxComments, Given(c)
    PROVE  /\ handled' \in [1..MaxComments -> 0..2]
           /\ \A d \in 1..MaxComments : d # c => handled'[d] = handled[d]
           /\ handled[c] = 0 => handled'[c] = 1
<1>1. handled \in [1..MaxComments -> 0..2] /\ handled[c] \in 0..2
  BY DEF IntakeTypes
<1>2. (IF handled[c] = 2 THEN 2 ELSE handled[c] + 1) \in 0..2
  BY <1>1
<1>3. handled' = [handled EXCEPT ![c] = IF handled[c] = 2 THEN 2 ELSE handled[c] + 1]
  BY DEF Given
<1>. QED
  BY <1>1, <1>2, <1>3

LEMMA IdFacts ==
    ASSUME IntakeTypes, NEW c \in Ids
    PROVE  /\ c \in Nat /\ c >= 1 /\ c <= Len(comments) /\ c \in 1..MaxComments
           /\ comments[c] \in CommentType /\ comments[c].pr \in PRs
<1>1. Len(comments) \in Nat
  BY DEF IntakeTypes
<1>2. c \in 1..Len(comments) /\ comments[c] \in CommentType
  BY DEF Ids, IntakeTypes
<1>. QED
  BY <1>1, <1>2, ChatAssumption DEF IntakeTypes, CommentType

(* The cursor that SeedCursor sets: not below the old one, nor below any   *)
(* listed comment of the pull request.                                     *)
LEMMA SeedHeight ==
    ASSUME IntakeTypes
    PROVE  LET h == Highest({c \in On(cur) : c <= upto} \cup {Cursor(cur)})
           IN  /\ h \in Nat /\ h >= Cursor(cur)
               /\ \A c \in On(cur) : c <= upto => c <= h
<1> DEFINE S == {c \in On(cur) : c <= upto} \cup {Cursor(cur)}
<1>1. Cursor(cur) \in Nat
  BY CursorType
<1>2. \A c \in On(cur) : c \in Nat
  BY IdFacts DEF On
<1>3. S \in SUBSET Nat /\ S # {}
  BY <1>1, <1>2
<1>4. upto \in Nat /\ upto + Cursor(cur) \in Nat
  BY <1>1 DEF IntakeTypes
<1>5. \A d \in S : d <= upto + Cursor(cur)
  BY <1>1, <1>2, <1>4
<1>6. Highest(S) \in S /\ \A d \in S : d <= Highest(S)
  BY <1>3, <1>4, <1>5, HighestOf
<1>. QED
  BY <1>1, <1>3, <1>6

(* A comment once written stays as it is. *)
LEMMA CommentsGrow ==
    ASSUME IntakeTypes, NEW p \in PRs, NEW m \in BOOLEAN, Comment(p, m)
    PROVE  /\ comments' \in Seq(CommentType) /\ Len(comments') = Len(comments) + 1
           /\ Ids \subseteq Ids'
           /\ \A c \in Ids : comments'[c] = comments[c]
           /\ Len(comments') <= MaxComments
<1>1. comments \in Seq(CommentType) /\ [pr |-> p, mention |-> m] \in CommentType
  BY DEF IntakeTypes, CommentType
<1>2. comments' = Append(comments, [pr |-> p, mention |-> m])
      /\ Len(comments) < MaxComments
  BY DEF Comment
<1>3. Len(comments) \in Nat /\ MaxComments \in Nat
  BY <1>1, ChatAssumption
<1>4. comments' \in Seq(CommentType) /\ Len(comments') = Len(comments) + 1
      /\ \A c \in 1..Len(comments) : comments'[c] = comments[c]
  BY <1>1, <1>2
<1>. QED
  BY <1>2, <1>3, <1>4 DEF Ids

LEMMA NextIntake == IntakeTypes /\ [Next]_vars => IntakeTypes'
<1> SUFFICES ASSUME IntakeTypes, [Next]_vars PROVE IntakeTypes'
  OBVIOUS
<1> USE DEF world, process, hooks, poller, Ids
<1>0. Len(comments) \in Nat /\ Len(outbox) \in Nat
  BY DEF IntakeTypes
<1>1. ASSUME NEW p \in PRs, NEW m \in BOOLEAN, Comment(p, m) PROVE IntakeTypes'
  <2>1. /\ comments' \in Seq(CommentType) /\ Len(comments') = Len(comments) + 1
        /\ Len(comments') <= MaxComments
    BY <1>1, CommentsGrow
  <2>. QED
    BY <1>0, <1>1, <2>1 DEF Comment, IntakeTypes
<1>2. ASSUME NEW p \in PRs, RecordReview(p) \/ ForgetReview(p) PROVE IntakeTypes'
  BY <1>2 DEF RecordReview, ForgetReview, IntakeTypes
<1>3. CASE Restart
  <2>1. outbox' \in Seq(Nat) /\ Len(outbox') = 0
    BY <1>3 DEF Restart
  <2>2. DOMAIN cursors' = {}
    BY <1>3 DEF Restart
  <2>. QED
    BY <1>0, <1>3, <2>1, <2>2 DEF Restart, IntakeTypes
<1>4. ASSUME NEW r \in Requests, NEW c \in Deliveries, Deliver(r, c) PROVE IntakeTypes'
  <2>1. c \in Ids /\ c \in 0..MaxComments
    BY <1>4, ChatAssumption DEF Deliver
  <2>2. \/ UNCHANGED hooks
        \/ /\ req' = [req EXCEPT ![r] = "claim"]
           /\ about' = [about EXCEPT ![r] = c]
    BY <1>4 DEF Deliver
  <2>3. /\ req' \in [Requests -> {"free", "claim", "handle"}]
        /\ about' \in [Requests -> 0..MaxComments]
        /\ \A s \in Requests : req'[s] # "free" => about'[s] \in Ids
    BY <2>1, <2>2 DEF IntakeTypes
  <2>4. UNCHANGED <<world, process, cursors, handled, poller>>
    BY <1>4 DEF Deliver
  <2>. QED
    BY <2>3, <2>4 DEF IntakeTypes
<1>5. ASSUME NEW r \in Requests, ClaimWebhook(r) PROVE IntakeTypes'
  <2>1. about[r] \in Ids
    BY <1>5 DEF ClaimWebhook, IntakeTypes
  <2>2. about[r] \in Nat
    BY <2>1, IdFacts
  <2>3. \A p \in DOMAIN cursors' : cursors'[p] \in Nat
    <3>1. CASE SetCursor(comments[about[r]].pr, about[r])
      BY <2>2, <3>1, CursorsTyped
    <3>2. CASE UNCHANGED cursors
      BY <3>2 DEF IntakeTypes
    <3>. QED
      BY <1>5, <3>1, <3>2 DEF ClaimWebhook
  <2>4. /\ req' \in [Requests -> {"free", "claim", "handle"}]
        /\ \A s \in Requests : req'[s] # "free" => about[s] \in Ids
    BY <1>5, <2>1 DEF ClaimWebhook, IntakeTypes
  <2>5. UNCHANGED <<world, restarts, boot, handled, about, poller>>
    BY <1>5 DEF ClaimWebhook
  <2>6. late' \subseteq Ids
    BY <1>5, <2>1 DEF ClaimWebhook, IntakeTypes
  <2>. QED
    BY <2>3, <2>4, <2>5, <2>6 DEF IntakeTypes
<1>6. ASSUME NEW r \in Requests, HandleWebhook(r) PROVE IntakeTypes'
  <2>1. about[r] \in Ids
    BY <1>6 DEF HandleWebhook, IntakeTypes
  <2>2. about[r] \in 1..MaxComments
    BY <2>1, IdFacts
  <2>3. handled' \in [1..MaxComments -> 0..2]
    BY <1>6, <2>2 DEF HandleWebhook, Given, IntakeTypes
  <2>. QED
    BY <1>6, <2>3 DEF HandleWebhook, IntakeTypes
<1>7. CASE ListKnown
  BY <1>7 DEF ListKnown, IntakeTypes
<1>8. CASE PruneCursors
  <2>1. \A p \in DOMAIN cursors' : cursors'[p] \in Nat
    BY <1>8 DEF PruneCursors, IntakeTypes
  <2>. QED
    BY <1>8, <2>1 DEF PruneCursors, IntakeTypes
<1>9. ASSUME NEW p \in PRs, ListComments(p) PROVE IntakeTypes'
  BY <1>0, <1>9 DEF ListComments, IntakeTypes
<1>10. CASE EndPass \/ EndScan
  BY <1>10 DEF EndPass, EndScan, IntakeTypes
<1>11. CASE ReadCursor
  BY <1>11 DEF ReadCursor, IntakeTypes
<1>12. CASE ScanComment
  <2>1. PICK c \in Unscanned :
          /\ pos' = c
          /\ IF Claimable(cur, c)
             THEN /\ SetCursor(cur, c)
                  /\ outbox' = IF comments[c].mention THEN Append(outbox, c)
                               ELSE outbox
             ELSE UNCHANGED <<cursors, outbox>>
    BY <1>12 DEF ScanComment
  <2>2. c \in Ids /\ c \in Nat
    BY IdFacts DEF Unscanned, On
  <2>3. \A p \in DOMAIN cursors' : cursors'[p] \in Nat
    <3>1. CASE SetCursor(cur, c)
      BY <2>2, <3>1, CursorsTyped
    <3>2. CASE UNCHANGED cursors
      BY <3>2 DEF IntakeTypes
    <3>. QED
      BY <2>1, <3>1, <3>2
  <2>4. outbox' = outbox \/ outbox' = Append(outbox, c)
    BY <2>1
  <2>5. outbox' \in Seq(Nat) /\ \A i \in 1..Len(outbox') : outbox'[i] \in Ids
    <3>1. outbox \in Seq(Nat) /\ \A i \in 1..Len(outbox) : outbox[i] \in Ids
      BY DEF IntakeTypes
    <3>2. CASE outbox' = Append(outbox, c)
      BY <2>2, <3>1, <3>2
    <3>. QED
      BY <2>4, <3>1, <3>2
  <2>6. UNCHANGED <<world, process, handled, hooks, at, todo, cur, upto>>
    BY <1>12 DEF ScanComment
  <2>. QED
    BY <2>1, <2>2, <2>3, <2>5, <2>6 DEF IntakeTypes
<1>13. CASE SeedCursor
  <2>1. \A p \in DOMAIN cursors' : cursors'[p] \in Nat
    BY <1>13, SeedHeight, CursorsTyped DEF SeedCursor
  <2>. QED
    BY <1>13, <2>1 DEF SeedCursor, IntakeTypes
<1>14. CASE DispatchMention
  <2>1. CASE outbox # <<>>
    <3>1. Given(Head(outbox)) /\ outbox' = Tail(outbox) /\ at' = at
      BY <1>14, <2>1 DEF DispatchMention
    <3>2. /\ Head(outbox) = outbox[1] /\ 1 \in 1..Len(outbox)
          /\ outbox' \in Seq(Nat) /\ Len(outbox') = Len(outbox) - 1
          /\ \A i \in 1..Len(outbox') : outbox'[i] = outbox[i + 1]
      BY <2>1, <3>1 DEF IntakeTypes
    <3>3. Head(outbox) \in 1..MaxComments
      BY <3>2, IdFacts DEF IntakeTypes
    <3>4. handled' \in [1..MaxComments -> 0..2]
      BY <3>1, <3>3, GivenFacts
    <3>5. \A i \in 1..Len(outbox') : outbox'[i] \in Ids
      <4>1. \A i \in 1..Len(outbox) : outbox[i] \in Ids
        BY DEF IntakeTypes
      <4>2. \A i \in 1..Len(outbox') : i + 1 \in 1..Len(outbox)
        BY <1>0, <3>2
      <4>. QED
        BY <3>2, <4>1, <4>2
    <3>6. UNCHANGED <<world, process, cursors, hooks, todo, cur, upto, pos>>
      BY <1>14 DEF DispatchMention
    <3>. QED
      BY <3>1, <3>2, <3>4, <3>5, <3>6 DEF IntakeTypes
  <2>2. CASE outbox = <<>>
    BY <1>14, <2>2 DEF DispatchMention, IntakeTypes
  <2>. QED
    BY <2>1, <2>2
<1>15. CASE UNCHANGED vars
  BY <1>15 DEF vars, IntakeTypes
<1>. QED
  BY <1>1, <1>2, <1>3, <1>4, <1>5, <1>6, <1>7, <1>8, <1>9, <1>10, <1>11,
     <1>12, <1>13, <1>14, <1>15 DEF Next, PollStep

-----------------------------------------------------------------------------
(* One handler per comment, however it came.                               *)

(* The cursor of its pull request has passed the comment: no claim of it   *)
(* can succeed any more.                                                   *)
Passed(c) == c \in Ids /\ c <= Cursor(comments[c].pr)

(* The cursors of reviewed pull requests are never pruned. *)
NonePruned ==
    /\ known = PRs
    /\ DOMAIN cursors \subseteq PRs
    /\ at = "prune" => todo = PRs

(* A comment that was handled, or is on its way to a handler, is passed;   *)
(* and it is on its way only once.                                         *)
ClaimedOnce ==
    /\ \A c \in 1..MaxComments : handled[c] # 0 => handled[c] = 1 /\ Passed(c)
    /\ \A r \in Requests :
          req[r] = "handle" => Passed(about[r]) /\ handled[about[r]] = 0
    /\ \A i \in 1..Len(outbox) : Passed(outbox[i]) /\ handled[outbox[i]] = 0
    /\ \A r, s \in Requests :
          req[r] = "handle" /\ req[s] = "handle" /\ r # s => about[r] # about[s]
    /\ \A i, j \in 1..Len(outbox) : i # j => outbox[i] # outbox[j]
    /\ \A r \in Requests, i \in 1..Len(outbox) :
          req[r] = "handle" => about[r] # outbox[i]

LEMMA InitClaimed ==
    ASSUME Reviewed = PRs
    PROVE  Init => NonePruned /\ ClaimedOnce
<1> SUFFICES ASSUME Init PROVE NonePruned /\ ClaimedOnce
  OBVIOUS
<1>1. Len(outbox) = 0 /\ DOMAIN cursors = {}
  BY DEF Init
<1>. QED
  BY <1>1 DEF Init, NonePruned, ClaimedOnce

LEMMA NoneIsPruned ==
    ASSUME "reset" \notin Faults
    PROVE  IntakeTypes /\ NonePruned /\ [Next]_vars => NonePruned'
<1> SUFFICES ASSUME IntakeTypes, NonePruned, [Next]_vars PROVE NonePruned'
  OBVIOUS
<1> USE DEF world, process, poller
<1>1. ASSUME NEW p \in PRs, NEW c, SetCursor(p, c),
             known' = known,
             at' = "prune" => at = "prune" /\ todo' = todo
      PROVE  NonePruned'
  <2>1. DOMAIN cursors' = DOMAIN cursors \cup {p}
    BY <1>1 DEF SetCursor
  <2>. QED
    BY <1>1, <2>1 DEF NonePruned
<1>2. ASSUME NEW p \in PRs, NEW m \in BOOLEAN, Comment(p, m) PROVE NonePruned'
  BY <1>2 DEF Comment, NonePruned
<1>3. ASSUME NEW p \in PRs, RecordReview(p) \/ ForgetReview(p) PROVE NonePruned'
  BY <1>3 DEF RecordReview, ForgetReview, NonePruned
<1>4. CASE Restart
  <2>1. DOMAIN cursors' = {}
    BY <1>4 DEF Restart
  <2>. QED
    BY <1>4, <2>1 DEF Restart, NonePruned
<1>5. ASSUME NEW r \in Requests, NEW c \in Deliveries, Deliver(r, c) PROVE NonePruned'
  BY <1>5 DEF Deliver, NonePruned
<1>6. ASSUME NEW r \in Requests, ClaimWebhook(r) PROVE NonePruned'
  <2>1. about[r] \in Ids
    BY <1>6 DEF ClaimWebhook, IntakeTypes
  <2>2. comments[about[r]].pr \in PRs
    BY <2>1, IdFacts
  <2>3. CASE SetCursor(comments[about[r]].pr, about[r])
    <3>1. UNCHANGED <<known, at, todo>>
      BY <1>6 DEF ClaimWebhook
    <3>. QED
      BY <1>1, <2>2, <2>3, <3>1
  <2>4. CASE UNCHANGED cursors
    BY <1>6, <2>4 DEF ClaimWebhook, NonePruned
  <2>. QED
    BY <1>6, <2>3, <2>4 DEF ClaimWebhook
<1>7. ASSUME NEW r \in Requests, HandleWebhook(r) PROVE NonePruned'
  BY <1>7 DEF HandleWebhook, NonePruned
<1>8. CASE ListKnown
  BY <1>8 DEF ListKnown, NonePruned
<1>9. CASE PruneCursors
  <2>1. DOMAIN cursors' = DOMAIN cursors \cap todo /\ at' # "prune"
    BY <1>9 DEF PruneCursors
  <2>. QED
    BY <1>9, <2>1 DEF PruneCursors, NonePruned
<1>10. ASSUME NEW p \in PRs, ListComments(p) PROVE NonePruned'
  BY <1>10 DEF ListComments, NonePruned
<1>11. CASE EndPass \/ EndScan \/ ReadCursor \/ DispatchMention
  BY <1>11 DEF EndPass, EndScan, ReadCursor, DispatchMention, NonePruned
<1>12. CASE ScanComment
  <2>1. \/ \E c : SetCursor(cur, c)
        \/ UNCHANGED cursors
    BY <1>12 DEF ScanComment
  <2>2. UNCHANGED <<known, at, todo>> /\ cur \in PRs
    BY <1>12 DEF ScanComment, IntakeTypes
  <2>3. CASE UNCHANGED cursors
    BY <2>2, <2>3 DEF NonePruned
  <2>. QED
    BY <1>1, <2>1, <2>2, <2>3
<1>13. CASE SeedCursor
  <2>1. \E c : SetCursor(cur, c)
    BY <1>13 DEF SeedCursor
  <2>2. UNCHANGED known /\ at' # "prune" /\ cur \in PRs
    BY <1>13 DEF SeedCursor, IntakeTypes
  <2>. QED
    BY <1>1, <2>1, <2>2
<1>14. CASE UNCHANGED vars
  BY <1>14 DEF vars, NonePruned
<1>. QED
  BY <1>2, <1>3, <1>4, <1>5, <1>6, <1>7, <1>8, <1>9, <1>10, <1>11, <1>12,
     <1>13, <1>14 DEF Next, PollStep

(* No step of a process takes a cursor back. *)
LEMMA PassedStays ==
    ASSUME IntakeTypes, NonePruned, [Next]_vars, ~Restart,
           NEW c, Passed(c)
    PROVE  Passed(c)'
<1> USE DEF world, process, poller
<1>q. PICK q : q = comments[c].pr
  OBVIOUS
<1>0. c \in Ids /\ c \in Nat /\ c <= Cursor(q) /\ q \in PRs
  BY <1>q, IdFacts DEF Passed
<1>1. c \in Ids' /\ comments'[c].pr = q
  <2>1. ASSUME NEW p \in PRs, NEW m \in BOOLEAN, Comment(p, m)
        PROVE  c \in Ids' /\ comments'[c].pr = q
    BY <1>q, <1>0, <2>1, CommentsGrow
  <2>2. CASE UNCHANGED comments
    BY <1>q, <1>0, <2>2 DEF Ids
  <2>3. (\E p \in PRs, m \in BOOLEAN : Comment(p, m)) \/ UNCHANGED comments
    BY DEF Next, PollStep, vars, RecordReview, ForgetReview, Restart, Deliver,
           ClaimWebhook, HandleWebhook, ListKnown, PruneCursors, ListComments,
           EndPass, ReadCursor, ScanComment, EndScan, SeedCursor,
           DispatchMention
  <2>. QED
    BY <2>1, <2>2, <2>3
<1>2. ASSUME NEW p, NEW d \in Nat, d >= Cursor(p), SetCursor(p, d)
      PROVE  c <= Cursor(q)'
  <2>1. Cursor(q) \in Nat
    BY CursorType
  <2>2. Cursor(q)' = IF q = p THEN d ELSE Cursor(q)
    BY <1>2 DEF SetCursor, Cursor
  <2>. QED
    BY <1>0, <1>2, <2>1, <2>2
<1>3. ASSUME UNCHANGED cursors PROVE c <= Cursor(q)'
  BY <1>0, <1>3 DEF Cursor
<1>5. CASE PruneCursors
  <2>1. DOMAIN cursors \cap todo = DOMAIN cursors
    BY <1>5 DEF PruneCursors, NonePruned
  <2>2. Cursor(q)' = Cursor(q)
    BY <1>5, <2>1 DEF PruneCursors, Cursor
  <2>. QED
    BY <1>0, <1>1, <2>2 DEF Passed
<1>6. ASSUME NEW r \in Requests, ClaimWebhook(r) PROVE c <= Cursor(q)'
  <2>1. about[r] \in Nat
    BY <1>6, IdFacts DEF ClaimWebhook, IntakeTypes
  <2>2. CASE /\ Claimable(comments[about[r]].pr, about[r])
             /\ SetCursor(comments[about[r]].pr, about[r])
    <3>1. about[r] >= Cursor(comments[about[r]].pr)
      BY <2>1, <2>2, CursorType DEF Claimable
    <3>. QED
      BY <1>2, <2>1, <2>2, <3>1
  <2>. QED
    BY <1>3, <1>6, <2>2 DEF ClaimWebhook
<1>7. CASE ScanComment
  <2>1. PICK d \in Unscanned :
          \/ Claimable(cur, d) /\ SetCursor(cur, d)
          \/ UNCHANGED cursors
    BY <1>7 DEF ScanComment
  <2>2. d \in Nat
    BY IdFacts DEF Unscanned, On
  <2>3. CASE Claimable(cur, d) /\ SetCursor(cur, d)
    <3>1. d >= Cursor(cur)
      BY <2>2, <2>3, CursorType DEF Claimable
    <3>. QED
      BY <1>1, <1>2, <2>2, <2>3, <3>1 DEF Passed
  <2>. QED
    BY <1>1, <1>3, <2>1, <2>3 DEF Passed
<1>8. CASE SeedCursor
  BY <1>1, <1>2, <1>8, SeedHeight DEF SeedCursor, Passed
<1>9. UNCHANGED cursors \/ PruneCursors \/ ScanComment \/ SeedCursor
      \/ (\E r \in Requests : ClaimWebhook(r))
  BY DEF Next, PollStep, vars, Comment, RecordReview, ForgetReview, Deliver,
         HandleWebhook, ListKnown, ListComments, EndPass, ReadCursor, EndScan,
         DispatchMention
<1>. QED
  BY <1>1, <1>3, <1>5, <1>6, <1>7, <1>8, <1>9 DEF Passed

LEMMA NextClaimed ==
    ASSUME IntakeTypes, NonePruned, ClaimedOnce, [Next]_vars
    PROVE  ClaimedOnce'
<1> USE DEF world, process, hooks, poller
<1>r. CASE Restart
  <2>1. Len(outbox') = 0 /\ \A r \in Requests : req'[r] = "free"
    BY <1>r DEF Restart
  <2>2. \A c \in 1..MaxComments : handled'[c] = 0
    BY <1>r DEF Restart
  <2>. QED
    BY <2>1, <2>2 DEF ClaimedOnce
<1> SUFFICES ASSUME ~Restart PROVE ClaimedOnce'
  BY <1>r
<1>p. \A c : Passed(c) => Passed(c)'
  BY PassedStays
<1>a. \A r \in Requests : req[r] # "free" => about[r] \in 1..MaxComments
  BY IdFacts DEF IntakeTypes
<1>o. /\ outbox \in Seq(Nat) /\ Len(outbox) \in Nat
      /\ \A i \in 1..Len(outbox) : outbox[i] \in 1..MaxComments
  BY IdFacts DEF IntakeTypes
<1>t. req \in [Requests -> {"free", "claim", "handle"}]
      /\ about \in [Requests -> 0..MaxComments]
  BY DEF IntakeTypes
<1>f. ASSUME NEW c \in Ids, Claimable(comments[c].pr, c)
      PROVE  ~Passed(c)
  BY <1>f, IdFacts, CursorType DEF Claimable, Passed
<1>s. ASSUME NEW p, NEW c \in Ids, p = comments[c].pr, SetCursor(p, c),
             UNCHANGED comments
      PROVE  Passed(c)'
  <2>1. Cursor(p)' = c /\ c \in Nat
    BY <1>s, IdFacts DEF SetCursor, Cursor
  <2>. QED
    BY <1>s, <2>1 DEF Passed, Ids
<1>1. CASE UNCHANGED <<handled, hooks, outbox>>
  BY <1>1, <1>p DEF ClaimedOnce
<1>3. ASSUME NEW r \in Requests, NEW c \in Deliveries, Deliver(r, c)
      PROVE  ClaimedOnce'
  <2>1. CASE /\ req' = [req EXCEPT ![r] = "claim"]
             /\ about' = [about EXCEPT ![r] = c]
    <3>1. UNCHANGED <<handled, outbox>>
      BY <1>3 DEF Deliver
    <3>2. \A s \in Requests : req'[s] = "handle" =>
             req[s] = "handle" /\ about'[s] = about[s]
      BY <1>t, <2>1
    <3>. QED
      BY <1>p, <3>1, <3>2 DEF ClaimedOnce
  <2>. QED
    BY <1>1, <1>3, <2>1 DEF Deliver
<1>4. ASSUME NEW r \in Requests, ClaimWebhook(r) PROVE ClaimedOnce'
  <2>0. about[r] \in Ids /\ about[r] \in 1..MaxComments
    BY <1>4, IdFacts DEF ClaimWebhook, IntakeTypes
  <2>1. UNCHANGED <<handled, about, outbox, comments>>
    BY <1>4 DEF ClaimWebhook
  <2>2. CASE /\ Claimable(comments[about[r]].pr, about[r])
             /\ SetCursor(comments[about[r]].pr, about[r])
             /\ req' = [req EXCEPT ![r] = "handle"]
    <3>1. ~Passed(about[r])
      BY <1>f, <2>0, <2>2
    <3>2. Passed(about[r])'
      <4>1. PICK p, c : c = about[r] /\ p = comments[about[r]].pr
        OBVIOUS
      <4>2. Passed(c)'
        BY <1>s, <2>0, <2>1, <2>2, <4>1
      <4>. QED
        BY <2>1, <4>1, <4>2
    <3>3. handled[about[r]] = 0
      BY <2>0, <3>1 DEF ClaimedOnce
    <3>4. \A s \in Requests : req'[s] = "handle" => s = r \/ req[s] = "handle"
      BY <1>t, <2>2
    <3>. QED
      BY <1>p, <2>1, <3>1, <3>2, <3>3, <3>4 DEF ClaimedOnce
  <2>3. CASE req' = [req EXCEPT ![r] = "free"]
    <3>1. \A s \in Requests : req'[s] = "handle" => req[s] = "handle"
      BY <1>t, <2>3
    <3>. QED
      BY <1>p, <2>1, <3>1 DEF ClaimedOnce
  <2>. QED
    BY <1>4, <2>2, <2>3 DEF ClaimWebhook
<1>5. ASSUME NEW r \in Requests, HandleWebhook(r) PROVE ClaimedOnce'
  <2>1. /\ req[r] = "handle" /\ Given(about[r])
        /\ req' = [req EXCEPT ![r] = "free"]
        /\ UNCHANGED <<about, outbox>>
    BY <1>5 DEF HandleWebhook
  <2>2. about[r] \in 1..MaxComments /\ Passed(about[r]) /\ handled[about[r]] = 0
    BY <1>a, <2>1 DEF ClaimedOnce
  <2>3. /\ handled'[about[r]] = 1
        /\ \A d \in 1..MaxComments : d # about[r] => handled'[d] = handled[d]
    BY <2>1, <2>2, GivenFacts
  <2>4. \A s \in Requests : req'[s] = "handle" => req[s] = "handle" /\ s # r
    BY <1>t, <2>1
  <2>5. \A c \in 1..MaxComments : handled'[c] # 0 => handled'[c] = 1 /\ Passed(c)'
    BY <1>p, <2>2, <2>3 DEF ClaimedOnce
  <2>6. ASSUME NEW s \in Requests, req'[s] = "handle"
        PROVE  Passed(about[s])' /\ handled'[about'[s]] = 0
    <3>1. PICK c : c = about[s]
      OBVIOUS
    <3>2. Passed(c) /\ handled[c] = 0 /\ c # about[r] /\ c \in 1..MaxComments
      BY <1>a, <2>1, <2>4, <2>6, <3>1 DEF ClaimedOnce
    <3>3. Passed(c)' /\ handled'[c] = 0
      BY <1>p, <2>3, <3>2
    <3>. QED
      BY <2>1, <3>1, <3>3 DEF Passed
  <2>7. ASSUME NEW i \in 1..Len(outbox')
        PROVE  Passed(outbox[i])' /\ handled'[outbox'[i]] = 0
    <3>1. PICK c : c = outbox[i]
      OBVIOUS
    <3>2. Passed(c) /\ handled[c] = 0 /\ c # about[r] /\ c \in 1..MaxComments
      BY <1>o, <2>1, <3>1 DEF ClaimedOnce
    <3>3. Passed(c)' /\ handled'[c] = 0
      BY <1>p, <2>3, <3>2
    <3>. QED
      BY <2>1, <3>1, <3>3 DEF Passed
  <2>8. /\ \A s, t \in Requests :
              req'[s] = "handle" /\ req'[t] = "handle" /\ s # t => about'[s] # about'[t]
        /\ \A i, j \in 1..Len(outbox') : i # j => outbox'[i] # outbox'[j]
        /\ \A s \in Requests, i \in 1..Len(outbox') :
              req'[s] = "handle" => about'[s] # outbox'[i]
    BY <2>1, <2>4 DEF ClaimedOnce
  <2>. QED
    BY <2>5, <2>6, <2>7, <2>8 DEF ClaimedOnce
<1>6. CASE ScanComment
  <2>1. PICK c \in Unscanned :
          IF Claimable(cur, c)
          THEN /\ SetCursor(cur, c)
               /\ outbox' = IF comments[c].mention THEN Append(outbox, c)
                            ELSE outbox
          ELSE UNCHANGED <<cursors, outbox>>
    BY <1>6 DEF ScanComment
  <2>2. UNCHANGED <<handled, hooks, comments>>
    BY <1>6 DEF ScanComment
  <2>3. c \in Ids /\ comments[c].pr = cur /\ c \in Nat /\ c \in 1..MaxComments
    BY IdFacts DEF Unscanned, On
  <2>4. CASE Claimable(cur, c) /\ SetCursor(cur, c) /\ outbox' = Append(outbox, c)
    <3>1. ~Passed(c)
      BY <1>f, <2>3, <2>4
    <3>2. Passed(c)'
      BY <1>s, <2>2, <2>3, <2>4
    <3>3. handled[c] = 0
      BY <2>3, <3>1 DEF ClaimedOnce
    <3>4. \A i \in 1..Len(outbox') :
            \/ i \in 1..Len(outbox) /\ outbox'[i] = outbox[i]
            \/ i = Len(outbox) + 1 /\ outbox'[i] = c
      BY <1>o, <2>3, <2>4
    <3>5. \A i, j \in 1..Len(outbox') : i # j => outbox'[i] # outbox'[j]
      BY <3>1, <3>4 DEF ClaimedOnce
    <3>. QED
      BY <1>p, <2>2, <3>1, <3>2, <3>3, <3>4, <3>5 DEF ClaimedOnce
  <2>. QED
    BY <1>1, <2>1, <2>2, <2>4
<1>7. CASE DispatchMention
  <2>1. CASE outbox = <<>>
    BY <1>1, <1>7, <2>1 DEF DispatchMention
  <2>2. CASE outbox # <<>>
    <3>1. Given(Head(outbox)) /\ outbox' = Tail(outbox) /\ UNCHANGED hooks
      BY <1>7, <2>2 DEF DispatchMention
    <3>2. /\ Head(outbox) = outbox[1] /\ 1 \in 1..Len(outbox)
          /\ \A i \in 1..Len(outbox') :
                i + 1 \in 1..Len(outbox) /\ i + 1 # 1 /\ outbox'[i] = outbox[i + 1]
      BY <1>o, <2>2, <3>1
    <3>3. PICK c : c = outbox[1]
      OBVIOUS
    <3>4. c \in 1..MaxComments /\ Passed(c) /\ handled[c] = 0
      BY <1>o, <3>2, <3>3 DEF ClaimedOnce
    <3>5. /\ handled'[c] = 1
          /\ \A d \in 1..MaxComments : d # c => handled'[d] = handled[d]
      BY <3>1, <3>2, <3>3, <3>4, GivenFacts
    <3>6. \A i, j \in 1..Len(outbox') : i # j => i + 1 # j + 1
      BY <1>o, <3>2
    <3>7. \A i, j \in 1..Len(outbox') : i # j => outbox'[i] # outbox'[j]
      BY <3>2, <3>6 DEF ClaimedOnce
    <3>8. \A i \in 1..Len(outbox') : /\ Passed(outbox'[i]) /\ handled[outbox'[i]] = 0
                                     /\ outbox'[i] # c /\ outbox'[i] \in 1..MaxComments
      BY SMTT(60), <1>o, <3>2, <3>3 DEF ClaimedOnce
    <3>9. \A r \in Requests : req[r] = "handle" => about[r] # c
      BY <3>2, <3>3 DEF ClaimedOnce
    <3>10. \A r \in Requests, i \in 1..Len(outbox') :
              req[r] = "handle" => about[r] # outbox'[i]
      BY <3>2 DEF ClaimedOnce
    <3>. QED
      BY <1>a, <1>p, <3>1, <3>4, <3>5, <3>7, <3>8, <3>9, <3>10 DEF ClaimedOnce
  <2>. QED
    BY <2>1, <2>2
<1>. QED
  BY <1>1, <1>3, <1>4, <1>5, <1>6, <1>7
     DEF Next, PollStep, vars, Comment, RecordReview, ForgetReview, ListKnown,
         PruneCursors, ListComments, EndPass, ReadCursor, EndScan, SeedCursor

(* A comment seen by webhook and poller is handled at most once by any     *)
(* process, while the pull requests stay in the history: see               *)
(* claim_chat_comment.  A forgotten pull request loses its cursor.         *)
THEOREM ChatHandledOnce ==
    ASSUME Reviewed = PRs, "reset" \notin Faults
    PROVE  Spec => []HandledAtMostOnce
<1>1. Init => IntakeTypes /\ NonePruned /\ ClaimedOnce
  BY InitIntake, InitClaimed
<1>2. IntakeTypes /\ NonePruned /\ ClaimedOnce /\ [Next]_vars
        => (IntakeTypes /\ NonePruned /\ ClaimedOnce)'
  BY NextIntake, NoneIsPruned, NextClaimed
<1>3. IntakeTypes /\ NonePruned /\ ClaimedOnce => HandledAtMostOnce
  BY SMTT(60) DEF IntakeTypes, ClaimedOnce, HandledAtMostOnce
<1>. QED
  BY <1>1, <1>2, <1>3, PTL DEF Spec

-----------------------------------------------------------------------------
(* The poller and the comments from before the process.                    *)

(* A cursor that exists has passed every old comment of its pull request,  *)
(* or a late webhook set it; a scan that began from one begins above those *)
(* comments.                                                               *)
Excused(c) == c > boot \/ PassedByLateWebhook(c)

Outgoing == {outbox[i] : i \in 1..Len(outbox)}

OldPassed ==
    /\ \A p \in DOMAIN cursors : \A c \in On(p) : c <= cursors[p] \/ Excused(c)
    /\ at \in {"listed", "seed", "scan"} => boot <= upto
    /\ at = "scan" => \A c \in On(cur) : c <= pos \/ Excused(c)
    /\ \A c \in Outgoing : Excused(c)

LEMMA InitOld == Init => OldPassed
<1> SUFFICES ASSUME Init PROVE OldPassed
  OBVIOUS
<1>1. Len(outbox) = 0 /\ DOMAIN cursors = {}
  BY DEF Init
<1>2. Outgoing = {}
  BY <1>1 DEF Outgoing
<1>. QED
  BY <1>1, <1>2 DEF Init, OldPassed

(* What excuses a comment stays, as long as the process does. *)
LEMMA ExcusedStays ==
    ASSUME NEW c \in Ids, Excused(c), IntakeTypes, UNCHANGED boot, late \subseteq late',
           \A d \in Ids : comments'[d] = comments[d]
    PROVE  Excused(c)'
BY DEF Excused, PassedByLateWebhook, IntakeTypes

(* A claim that moves the cursor of k to c, where c lies above a point all *)
(* of whose successors are excused, keeps the cursors above what is not.   *)
LEMMA CursorsPassed ==
    ASSUME IntakeTypes, OldPassed, NEW k, NEW c \in Nat, SetCursor(k, c),
           UNCHANGED <<comments, boot, late>>,
           \A d \in On(k) : d <= c \/ Excused(d)
    PROVE  \A p \in DOMAIN cursors' : \A d \in On(p)' : d <= cursors'[p] \/ Excused(d)'
<1>1. \A p \in DOMAIN cursors' :
        \/ p = k /\ cursors'[p] = c
        \/ p \in DOMAIN cursors /\ cursors'[p] = cursors[p]
  BY CursorSet
<1>2. /\ \A p : On(p)' = On(p)
      /\ \A d : Excused(d)' = Excused(d)
  BY DEF On, Ids, Excused, PassedByLateWebhook
<1>3. \A p \in DOMAIN cursors : \A d \in On(p) : d <= cursors[p] \/ Excused(d)
  BY DEF OldPassed
<1>. QED
  BY <1>1, <1>2, <1>3

LEMMA NextOld ==
    ASSUME IntakeTypes, OldPassed, [Next]_vars
    PROVE  OldPassed'
<1> USE DEF world, process, hooks, poller
<1>t. /\ boot \in Nat /\ upto \in Nat /\ pos \in Nat /\ Len(comments) \in Nat
      /\ boot <= Len(comments) /\ outbox \in Seq(Nat) /\ Len(outbox) \in Nat
      /\ \A c \in Ids : c \in Nat
      /\ Outgoing \subseteq Ids
      /\ \A p : On(p) \subseteq Ids
  BY IdFacts DEF IntakeTypes, On, Outgoing
<1>o. /\ \A p \in DOMAIN cursors : \A c \in On(p) : c <= cursors[p] \/ Excused(c)
      /\ at \in {"listed", "seed", "scan"} => boot <= upto
      /\ at = "scan" => \A c \in On(cur) : c <= pos \/ Excused(c)
      /\ \A c \in Outgoing : Excused(c)
  BY DEF OldPassed
\* Without a new comment, start or claim by a webhook, the same is excused.
<1>s. UNCHANGED <<comments, boot, late>> =>
        /\ \A p : On(p)' = On(p)
        /\ \A c : Excused(c)' = Excused(c)
  BY DEF On, Ids, Excused, PassedByLateWebhook
<1>1. ASSUME NEW p \in PRs, NEW m \in BOOLEAN, Comment(p, m) PROVE OldPassed'
  <2>1. UNCHANGED <<cursors, boot, late, at, cur, upto, pos, outbox>>
    BY <1>1 DEF Comment
  <2>2. /\ Len(comments') = Len(comments) + 1
        /\ \A c \in Ids : comments'[c] = comments[c]
    BY <1>1, CommentsGrow
  <2>3. \A c \in Ids : Excused(c) => Excused(c)'
    BY <2>1, <2>2, ExcusedStays
  <2>4. \A c \in Ids' : c \in Ids \/ Excused(c)'
    BY <1>t, <2>1, <2>2 DEF Ids, Excused
  <2>5. \A q : \A c \in On(q)' : c \in On(q) \/ Excused(c)'
    BY <2>2, <2>4 DEF On
  <2>6. PICK q : q = cur /\ q = cur'
    BY <2>1
  <2>7. On(cur)' = On(q)' /\ On(cur) = On(q)
    BY <2>1, <2>6
  <2>8. \A c \in On(cur)' : c \in On(cur) \/ Excused(c)'
    BY <2>5, <2>7
  <2>9. \A r \in DOMAIN cursors' : \A c \in On(r)' : c <= cursors'[r] \/ Excused(c)'
    BY <1>o, <1>t, <2>1, <2>3, <2>5
  <2>10. at' = "scan" => \A c \in On(cur)' : c <= pos' \/ Excused(c)'
    BY <1>o, <1>t, <2>1, <2>3, <2>8
  <2>11. \A c \in Outgoing' : Excused(c)'
    <3>1. Outgoing' = Outgoing
      BY <2>1 DEF Outgoing
    <3>. QED
      BY <1>o, <1>t, <2>3, <3>1
  <2>. QED
    BY <1>o, <2>1, <2>9, <2>10, <2>11 DEF OldPassed
<1>2. CASE UNCHANGED <<comments, cursors, boot, late, at, cur, upto, pos, outbox>>
  <2>1. On(cur)' = On(cur) /\ Outgoing' = Outgoing
    BY <1>2 DEF On, Ids, Outgoing
  <2>. QED
    BY <1>2, <1>o, <1>s, <2>1 DEF OldPassed
<1>3. CASE Restart
  <2>1. Len(outbox') = 0 /\ DOMAIN cursors' = {} /\ at' = "idle"
    BY <1>3 DEF Restart
  <2>2. Outgoing' = {}
    BY <2>1 DEF Outgoing
  <2>. QED
    BY <2>1, <2>2 DEF OldPassed
<1>4. CASE ListKnown \/ EndPass \/ EndScan
  <2>1. /\ UNCHANGED <<comments, cursors, boot, late, outbox>>
        /\ at' \notin {"listed", "seed", "scan"}
    BY <1>4 DEF ListKnown, EndPass, EndScan
  <2>2. Outgoing' = Outgoing
    BY <2>1 DEF Outgoing
  <2>. QED
    BY <1>o, <1>s, <2>1, <2>2 DEF OldPassed
<1>5. CASE PruneCursors
  <2>1. UNCHANGED <<comments, boot, late, outbox>> /\ at' = "next"
    BY <1>5 DEF PruneCursors
  <2>2. \A p \in DOMAIN cursors' : p \in DOMAIN cursors /\ cursors'[p] = cursors[p]
    BY <1>5 DEF PruneCursors
  <2>3. Outgoing' = Outgoing
    BY <2>1 DEF Outgoing
  <2>. QED
    BY <1>o, <1>s, <2>1, <2>2, <2>3 DEF OldPassed
<1>6. ASSUME NEW p \in PRs, ListComments(p) PROVE OldPassed'
  <2>1. /\ UNCHANGED <<comments, cursors, boot, late, outbox>>
        /\ at' # "scan"
        /\ at' \in {"listed", "seed"} => boot <= upto'
    BY <1>t, <1>6 DEF ListComments
  <2>2. Outgoing' = Outgoing
    BY <2>1 DEF Outgoing
  <2>. QED
    BY <1>o, <1>s, <2>1, <2>2 DEF OldPassed
<1>7. CASE ReadCursor
  <2>1. /\ UNCHANGED <<comments, cursors, boot, late, cur, upto, outbox>>
        /\ at = "listed"
        /\ at' = "scan" => cur \in DOMAIN cursors /\ pos' = cursors[cur]
    BY <1>7 DEF ReadCursor
  <2>2. Outgoing' = Outgoing /\ On(cur)' = On(cur)
    BY <2>1 DEF Outgoing, On, Ids
  <2>. QED
    BY <1>o, <1>s, <2>1, <2>2 DEF OldPassed
<1>8. CASE ScanComment
  <2>1. PICK c \in Unscanned :
          /\ pos' = c
          /\ IF Claimable(cur, c)
             THEN /\ SetCursor(cur, c)
                  /\ outbox' = IF comments[c].mention THEN Append(outbox, c)
                               ELSE outbox
             ELSE UNCHANGED <<cursors, outbox>>
    BY <1>8 DEF ScanComment
  <2>2. UNCHANGED <<comments, boot, late, at, cur, upto>> /\ at = "scan"
    BY <1>8 DEF ScanComment
  <2>3. c \in Nat /\ c \in On(cur) /\ pos < c
    BY <1>t DEF Unscanned, On
  <2>4. Excused(c) /\ \A d \in On(cur) : d <= c \/ Excused(d)
    BY <1>o, <1>t, <2>2, <2>3
  <2>5. \A p \in DOMAIN cursors' : \A d \in On(p)' : d <= cursors'[p] \/ Excused(d)'
    <3>1. CASE SetCursor(cur, c)
      BY <2>2, <2>3, <2>4, <3>1, CursorsPassed
    <3>2. CASE UNCHANGED cursors
      BY <1>o, <1>s, <2>2, <3>2
    <3>. QED
      BY <2>1, <3>1, <3>2
  <2>6. Outgoing' \subseteq Outgoing \cup {c}
    <3>1. CASE outbox' = Append(outbox, c)
      BY <1>t, <3>1 DEF Outgoing
    <3>2. CASE outbox' = outbox
      BY <3>2 DEF Outgoing
    <3>. QED
      BY <2>1, <3>1, <3>2
  <2>7. On(cur)' = On(cur)
    BY <2>2 DEF On, Ids
  <2>. QED
    BY <1>o, <1>s, <2>1, <2>2, <2>4, <2>5, <2>6, <2>7 DEF OldPassed
<1>9. CASE SeedCursor
  <2>1. PICK h \in Nat : /\ SetCursor(cur, h)
                         /\ \A c \in On(cur) : c <= upto => c <= h
    BY <1>9, SeedHeight DEF SeedCursor
  <2>2. UNCHANGED <<comments, boot, late, cur, upto, outbox>>
        /\ at = "seed" /\ at' = "dispatch"
    BY <1>9 DEF SeedCursor
  <2>3. \A c \in On(cur) : c <= h \/ Excused(c)
    BY <1>o, <1>t, <2>1, <2>2 DEF Excused
  <2>4. \A p \in DOMAIN cursors' : \A d \in On(p)' : d <= cursors'[p] \/ Excused(d)'
    BY <2>1, <2>2, <2>3, CursorsPassed
  <2>5. Outgoing' = Outgoing
    BY <2>2 DEF Outgoing
  <2>. QED
    BY <1>o, <1>s, <2>2, <2>4, <2>5 DEF OldPassed
<1>10. CASE DispatchMention
  <2>1. /\ UNCHANGED <<comments, cursors, boot, late>>
        /\ at' \notin {"listed", "seed", "scan"}
    BY <1>10 DEF DispatchMention
  <2>2. Outgoing' \subseteq Outgoing
    <3>1. CASE outbox = <<>>
      BY <1>10, <3>1 DEF DispatchMention, Outgoing
    <3>2. CASE outbox # <<>>
      <4>1. outbox' = Tail(outbox)
        BY <1>10, <3>2 DEF DispatchMention
      <4>2. \A i \in 1..Len(outbox') :
              i + 1 \in 1..Len(outbox) /\ outbox'[i] = outbox[i + 1]
        BY <1>t, <3>2, <4>1
      <4>. QED
        BY <4>2 DEF Outgoing
    <3>. QED
      BY <3>1, <3>2
  <2>. QED
    BY <1>o, <1>s, <2>1, <2>2 DEF OldPassed
\* A webhook that moves a cursor below old comments is late, and excuses them.
<1>11. ASSUME NEW r \in Requests, ClaimWebhook(r) PROVE OldPassed'
  <2>1. PICK c \in Ids : c = about[r]
    BY <1>11 DEF ClaimWebhook, IntakeTypes
  <2>2. PICK k : k = comments[c].pr
    OBVIOUS
  <2>3. UNCHANGED <<comments, boot, at, cur, upto, pos, outbox>>
    BY <1>11 DEF ClaimWebhook
  <2>4. \/ SetCursor(k, c) /\ late' = late \cup ({c} \cap 1..boot)
        \/ UNCHANGED <<cursors, late>>
    BY <1>11, <2>1, <2>2 DEF ClaimWebhook
  <2>5. CASE UNCHANGED <<cursors, late>>
    BY <1>2, <2>3, <2>5
  <2>6. CASE SetCursor(k, c) /\ late' = late \cup ({c} \cap 1..boot)
    <3>1. \A d \in Ids : Excused(d) => Excused(d)'
      BY <2>3, <2>6, ExcusedStays
    <3>2. \A p : On(p)' = On(p)
      BY <2>3 DEF On, Ids
    <3>3. ASSUME NEW d \in On(k), ~(d <= c) PROVE Excused(d)'
      <4>1. d \in Nat /\ c \in Nat /\ comments[d].pr = k /\ d > c /\ c >= 1
        BY <1>t, <3>3 DEF On, Ids
      <4>2. CASE d > boot
        BY <2>3, <4>2 DEF Excused
      <4>3. CASE ~(d > boot)
        <5>1. c \in late'
          BY <1>t, <2>6, <4>1, <4>3
        <5>2. comments'[c].pr = comments'[d].pr
          BY <2>2, <2>3, <4>1
        <5>. QED
          BY <4>1, <5>1, <5>2 DEF Excused, PassedByLateWebhook
      <4>. QED
        BY <4>2, <4>3
    <3>4. \A p \in DOMAIN cursors' :
            \/ p = k /\ cursors'[p] = c
            \/ p \in DOMAIN cursors /\ cursors'[p] = cursors[p]
      BY <2>6, CursorSet
    <3>5. \A p \in DOMAIN cursors' : \A d \in On(p)' : d <= cursors'[p] \/ Excused(d)'
      BY <1>o, <1>t, <3>1, <3>2, <3>3, <3>4
    <3>6. Outgoing' = Outgoing /\ On(cur)' = On(cur)
      BY <2>3 DEF Outgoing, On, Ids
    <3>. QED
      BY <1>o, <1>t, <2>3, <3>1, <3>5, <3>6 DEF OldPassed
  <2>. QED
    BY <2>4, <2>5, <2>6
<1>12. UNCHANGED vars \/ (\E p \in PRs : RecordReview(p) \/ ForgetReview(p))
         \/ (\E r \in Requests, c \in Deliveries : Deliver(r, c))
         \/ (\E r \in Requests : HandleWebhook(r))
         => UNCHANGED <<comments, cursors, boot, late, at, cur, upto, pos, outbox>>
  BY DEF vars, RecordReview, ForgetReview, Deliver, HandleWebhook
<1>. QED
  BY <1>1, <1>2, <1>3, <1>4, <1>5, <1>6, <1>7, <1>8, <1>9, <1>10, <1>11, <1>12
     DEF Next, PollStep

(* The poller hands over a comment from before the process started only    *)
(* behind a late webhook of the same pull request, however often the       *)
(* process restarts, whatever the history forgets and however webhooks     *)
(* overlap with the poller: a pull request without a cursor is seeded      *)
(* above its list, and a scan starts above the cursor.                     *)
THEOREM ReplaysExcused == Spec => []ReplayNeedsLateWebhook
<1>1. Init => IntakeTypes /\ OldPassed
  BY InitIntake, InitOld
<1>2. IntakeTypes /\ OldPassed /\ [Next]_vars => (IntakeTypes /\ OldPassed)'
  BY NextIntake, NextOld
<1>3. IntakeTypes /\ OldPassed => ReplayNeedsLateWebhook
  BY DEF IntakeTypes, OldPassed, Outgoing, Excused, ReplayNeedsLateWebhook,
     PassedByLateWebhook
<1>. QED
  BY <1>1, <1>2, <1>3, PTL DEF Spec
=============================================================================
