------------------------ MODULE DeliveryWindowProofs ------------------------
(***************************************************************************)
(* The delivery store for every capacity, every set of deliveries and      *)
(* every order of arrivals.                                                *)
(***************************************************************************)
EXTENDS DeliveryWindow, TLAPS

(* The bounded set's queue is the end of what was let through, and all of  *)
(* it until the queue is full; the table holds all of it.                  *)
Newest ==
    ~Sqlite =>
        /\ Len(order) <= Len(passed)
        /\ Len(order) < Room => Len(order) = Len(passed)
        /\ \A i \in 1..Len(order) : order[i] = passed[Len(passed) - Len(order) + i]

Kept == Sqlite /\ ~StoreErrors => \A i \in 1..Len(passed) : passed[i] \in ids

WindowInv == WindowTypeOK /\ StoreConsistent /\ Newest /\ Kept /\ RetryOutsideWindow

LEMMA RoomType == Room \in Nat /\ Room > 0
BY DedupAssumption DEF Room

LEMMA InitWindow == WindowInit => WindowInv
<1> SUFFICES ASSUME WindowInit PROVE WindowInv
  OBVIOUS
<1>1. ids = {} /\ order = <<>> /\ passed = <<>>
  BY DEF WindowInit, StoreInit
<1>. QED
  BY <1>1, RoomType
  DEF WindowInv, WindowTypeOK, StoreConsistent, Newest, Kept, RetryOutsideWindow

LEMMA AppendFacts ==
    ASSUME NEW S, NEW s \in Seq(S), NEW e \in S
    PROVE  /\ Append(s, e) \in Seq(S)
           /\ Len(s) \in Nat
           /\ Len(Append(s, e)) = Len(s) + 1
           /\ Append(s, e)[Len(s) + 1] = e
           /\ \A i \in 1..Len(s) : Append(s, e)[i] = s[i]
           /\ \A i \in 1..(Len(s) + 1) : i \in 1..Len(s) \/ i = Len(s) + 1
OBVIOUS

LEMMA TailFacts ==
    ASSUME NEW S, NEW s \in Seq(S), Len(s) > 0
    PROVE  /\ Tail(s) \in Seq(S)
           /\ Head(s) = s[1]
           /\ Len(Tail(s)) = Len(s) - 1
           /\ \A i \in 1..(Len(s) - 1) : Tail(s)[i] = s[i + 1]
OBVIOUS

(* First sight in the bounded set: the new member is the newest, and only  *)
(* a member that leaves the queue leaves the set.                          *)
LEMMA RememberWindow ==
    ASSUME WindowInv, ~Sqlite, NEW d \in Deliveries, Remember(d),
           passed' = Append(passed, d)
    PROVE  WindowInv'
<1>0. /\ order \in Seq(Deliveries) /\ passed \in Seq(Deliveries)
      /\ ids \subseteq Deliveries
      /\ Room \in Nat /\ Room > 0 /\ Len(order) \in Nat /\ Len(passed) \in Nat
  BY RoomType DEF WindowInv, WindowTypeOK
<1>1. /\ ids = {order[i] : i \in 1..Len(order)}
      /\ \A i, k \in 1..Len(order) : order[i] = order[k] => i = k
      /\ Len(order) <= Room
      /\ Len(order) <= Len(passed)
      /\ Len(order) < Room => Len(order) = Len(passed)
      /\ \A i \in 1..Len(order) : order[i] = passed[Len(passed) - Len(order) + i]
  BY DEF WindowInv, StoreConsistent, Newest
<1>2. d \notin ids
  BY DEF Remember
<1>3. \A i \in 1..Len(order) : order[i] # d
  BY <1>1, <1>2
<1> DEFINE kept == IF Len(order) >= Room THEN Tail(order) ELSE order
           drop == IF Len(order) >= Room THEN 1 ELSE 0
<1>4. order' = Append(kept, d)
  BY DEF Remember
<1>5. /\ kept \in Seq(Deliveries)
      /\ Len(kept) = Len(order) - drop
      /\ drop \in 0..1 /\ Len(kept) < Room
      /\ \A i \in 1..Len(kept) : kept[i] = order[i + drop] /\ i + drop \in 1..Len(order)
  <2>1. CASE Len(order) >= Room
    <3>1. /\ Tail(order) \in Seq(Deliveries) /\ Len(Tail(order)) = Len(order) - 1
          /\ \A i \in 1..(Len(order) - 1) : Tail(order)[i] = order[i + 1]
      BY <1>0, <2>1, TailFacts
    <3>. QED
      BY <1>0, <1>1, <2>1, <3>1
  <2>2. CASE ~(Len(order) >= Room)
    BY <1>0, <1>1, <2>2
  <2>. QED
    BY <2>1, <2>2
<1>6. ids' = {kept[i] : i \in 1..Len(kept)} \cup {d}
  <2>1. CASE Len(order) >= Room
    <3>1. ids' = (ids \ {order[1]}) \cup {d}
      BY <1>0, <2>1, TailFacts DEF Remember
    <3>2. \A i \in 1..Len(order) : i = 1 \/ (i - 1 \in 1..Len(kept) /\ kept[i - 1] = order[i])
      BY <1>0, <1>5, <2>1
    <3>3. 1 \in 1..Len(order)
      BY <1>0, <2>1
    <3>4. \A i \in 1..Len(kept) : kept[i] \in ids /\ kept[i] # order[1]
      BY <1>0, <1>1, <1>5, <2>1, <3>3
    <3> HIDE DEF kept
    <3>5. ASSUME NEW x \in ids \ {order[1]} PROVE \E i \in 1..Len(kept) : x = kept[i]
      <4>1. PICK i \in 1..Len(order) : x = order[i]
        BY <1>1
      <4>. QED
        BY <3>2, <4>1
    <3>. QED
      BY <3>1, <3>4, <3>5
  <2>2. CASE ~(Len(order) >= Room)
    BY <1>1, <2>2 DEF Remember
  <2>. QED
    BY <2>1, <2>2
<1> HIDE DEF kept, drop
<1>7. /\ order' \in Seq(Deliveries)
      /\ Len(kept) \in Nat
      /\ Len(order') = Len(kept) + 1
      /\ order'[Len(kept) + 1] = d
      /\ \A i \in 1..Len(kept) : order'[i] = kept[i]
      /\ \A i \in 1..Len(order') : i \in 1..Len(kept) \/ i = Len(kept) + 1
  BY <1>4, <1>5, AppendFacts
<1>8. /\ passed' \in Seq(Deliveries)
      /\ Len(passed') = Len(passed) + 1
      /\ passed'[Len(passed) + 1] = d
      /\ \A i \in 1..Len(passed) : passed'[i] = passed[i]
      /\ \A i \in 1..Len(passed') : i \in 1..Len(passed) \/ i = Len(passed) + 1
  BY <1>0, AppendFacts
<1>9. WindowTypeOK'
  <2>1. ids' \subseteq Deliveries
    BY <1>0, <1>5, <1>6
  <2>. QED
    BY <1>7, <1>8, <2>1 DEF WindowTypeOK
<1>10. StoreConsistent'
  <2>1. ids' = {order'[i] : i \in 1..Len(order')}
    BY <1>6, <1>7
  <2>2. \A i \in 1..Len(kept) : kept[i] # d
    BY <1>3, <1>5
  <2>3. \A i, k \in 1..Len(kept) : kept[i] = kept[k] => i = k
    <3>1. \A i, k \in 1..Len(kept) : kept[i] = kept[k] => i + drop = k + drop
      BY SMTT(60), <1>1, <1>5
    <3>. QED
      BY <1>5, <3>1
  <2>4. \A i, k \in 1..Len(order') : order'[i] = order'[k] => i = k
    BY <1>7, <2>2, <2>3
  <2>5. Len(order') <= Room
    BY <1>0, <1>5, <1>7
  <2>. QED
    BY <2>1, <2>4, <2>5 DEF StoreConsistent, Room
<1>11. Newest'
  <2>1. Len(order') <= Len(passed')
    BY <1>0, <1>1, <1>5, <1>7, <1>8
  <2>2. Len(order') < Room => Len(order') = Len(passed')
    <3>1. Len(order') < Room => Len(order) < Room
      BY <1>0, <1>1, <1>5, <1>7 DEF drop
    <3>. QED
      BY <1>0, <1>1, <1>5, <1>7, <1>8, <3>1 DEF drop
  <2>3. ASSUME NEW i \in 1..Len(order')
        PROVE  order'[i] = passed'[Len(passed') - Len(order') + i]
    <3>1. CASE i \in 1..Len(kept)
      <4>1. order'[i] = order[i + drop] /\ i + drop \in 1..Len(order)
        BY <1>5, <1>7, <3>1
      <4>2. order'[i] = passed[Len(passed) - Len(order) + (i + drop)]
        BY <1>1, <4>1
      <4>3. /\ Len(passed) - Len(order) + (i + drop) = Len(passed') - Len(order') + i
            /\ Len(passed') - Len(order') + i \in 1..Len(passed)
        <5>1. Len(passed') = Len(passed) + 1 /\ Len(order') = Len(order) - drop + 1
          BY <1>5, <1>7, <1>8
        <5>2. drop \in Int /\ i \in Int /\ Len(order) <= Len(passed)
          BY <1>1, <1>5
        <5>3. Len(passed) - Len(order) + (i + drop) = Len(passed') - Len(order') + i
          BY <1>0, <5>1, <5>2
        <5>4. i + drop \in 1..Len(order)
          BY <4>1
        <5>. QED
          BY <1>0, <5>2, <5>3, <5>4
      <4>. QED
        BY <1>8, <4>2, <4>3
    <3>2. CASE i = Len(kept) + 1
      <4>1. Len(passed') - Len(order') + i = Len(passed) + 1
        BY <1>0, <1>7, <1>8, <3>2
      <4>. QED
        BY <1>7, <1>8, <3>2, <4>1
    <3>. QED
      BY <1>7, <3>1, <3>2
  <2>. QED
    BY <2>1, <2>2, <2>3 DEF Newest, Room
<1>12. ASSUME NEW i \in 1..Len(passed), passed[i] = d
       PROVE  Len(passed) + 1 - i > Room
  <2>1. ASSUME Len(passed) - Len(order) < i PROVE FALSE
    <3>1. i - (Len(passed) - Len(order)) \in 1..Len(order)
      BY <1>0, <1>1, <2>1
    <3>2. order[i - (Len(passed) - Len(order))] = passed[i]
      <4>1. Len(passed) - Len(order) + (i - (Len(passed) - Len(order))) = i
        BY <1>0
      <4>. QED
        BY <1>1, <3>1, <4>1
    <3>. QED
      BY <1>3, <1>12, <3>1, <3>2
  <2>2. Len(order) = Room
    BY <1>0, <1>1, <2>1
  <2>. QED
    BY <1>0, <2>1, <2>2
<1>13. RetryOutsideWindow'
  <2> SUFFICES ASSUME ~StoreErrors, NEW i \in 1..Len(passed'), NEW k \in 1..Len(passed'),
                      i < k, passed'[i] = passed'[k]
               PROVE  k - i > Room
    BY DEF RetryOutsideWindow, Room
  <2>1. i \in 1..Len(passed)
    BY <1>0, <1>8
  <2>2. CASE k \in 1..Len(passed)
    <3>1. passed[i] = passed[k]
      BY <1>8, <2>1, <2>2
    <3>. QED
      BY <2>1, <2>2, <3>1 DEF WindowInv, RetryOutsideWindow
  <2>3. CASE k = Len(passed) + 1
    <3>1. passed[i] = d
      BY <1>8, <2>1, <2>3
    <3>. QED
      BY <1>12, <2>1, <2>3, <3>1
  <2>. QED
    BY <1>8, <2>2, <2>3
<1>. QED
  BY <1>9, <1>10, <1>11, <1>13 DEF WindowInv, Kept

(* The table: what was let through is in it, so it lets nothing through    *)
(* twice.                                                                  *)
LEMMA TableWindow ==
    ASSUME WindowInv, Sqlite, NEW d \in Deliveries, Insert(d) \/ Unreachable(d),
           passed' = Append(passed, d)
    PROVE  WindowInv'
<1>0. /\ passed \in Seq(Deliveries) /\ ids \subseteq Deliveries
      /\ order \in Seq(Deliveries)
  BY DEF WindowInv, WindowTypeOK
<1>1. /\ passed' \in Seq(Deliveries)
      /\ Len(passed) \in Nat
      /\ Len(passed') = Len(passed) + 1
      /\ passed'[Len(passed) + 1] = d
      /\ \A i \in 1..Len(passed) : passed'[i] = passed[i]
      /\ \A i \in 1..Len(passed') : i \in 1..Len(passed) \/ i = Len(passed) + 1
  BY <1>0, AppendFacts
<1>2. ids \subseteq ids' /\ ids' \subseteq ids \cup {d} /\ order' = order
  BY DEF Insert, Unreachable
<1>3. WindowTypeOK'
  BY <1>0, <1>1, <1>2 DEF WindowTypeOK
<1>4. ASSUME ~StoreErrors PROVE d \notin ids /\ d \in ids'
  BY <1>4 DEF Insert, Unreachable
<1>5. Kept'
  <2> SUFFICES ASSUME ~StoreErrors, NEW i \in 1..Len(passed') PROVE passed'[i] \in ids'
    BY DEF Kept
  <2>1. CASE i \in 1..Len(passed)
    BY <1>1, <1>2, <2>1 DEF WindowInv, Kept
  <2>2. CASE i = Len(passed) + 1
    BY <1>1, <1>4, <2>2
  <2>. QED
    BY <1>1, <2>1, <2>2
<1>6. RetryOutsideWindow'
  <2> SUFFICES ASSUME ~StoreErrors, NEW i \in 1..Len(passed'), NEW k \in 1..Len(passed'),
                      i < k, passed'[i] = passed'[k]
               PROVE  FALSE
    BY DEF RetryOutsideWindow
  <2>1. i \in 1..Len(passed)
    BY <1>1
  <2>2. CASE k \in 1..Len(passed)
    <3>1. passed[i] = passed[k]
      BY <1>1, <2>1, <2>2
    <3>. QED
      BY <2>1, <2>2, <3>1 DEF WindowInv, RetryOutsideWindow
  <2>3. CASE k = Len(passed) + 1
    <3>1. passed[i] = d
      BY <1>1, <2>1, <2>3
    <3>2. passed[i] \in ids
      BY <2>1 DEF WindowInv, Kept
    <3>. QED
      BY <1>4, <3>1, <3>2
  <2>. QED
    BY <1>1, <2>2, <2>3
<1>. QED
  BY <1>3, <1>5, <1>6 DEF WindowInv, StoreConsistent, Newest

LEMMA NextWindow == WindowInv /\ [WindowNext]_windowVars => WindowInv'
<1> SUFFICES ASSUME WindowInv, [WindowNext]_windowVars PROVE WindowInv'
  OBVIOUS
<1>1. CASE UNCHANGED <<ids, order, passed>>
  BY <1>1 DEF WindowInv, WindowTypeOK, StoreConsistent, Newest, Kept, RetryOutsideWindow
<1>2. ASSUME NEW d \in Deliveries, Arrive(d) PROVE WindowInv'
  BY <1>2, RememberWindow, TableWindow DEF Arrive, Admit
<1>3. ASSUME NEW d \in Deliveries, Retry(d) PROVE WindowInv'
  BY <1>1, <1>3 DEF Retry, Bounce, store
<1>4. CASE WindowRestart
  <2>1. CASE Sqlite
    BY <1>1, <1>4, <2>1 DEF WindowRestart, StoreRestart, store
  <2>2. CASE ~Sqlite
    <3>1. ids' = {} /\ order' = <<>> /\ passed' = <<>>
      BY <1>4, <2>2 DEF WindowRestart, StoreRestart
    <3>. QED
      BY <3>1, RoomType
      DEF WindowInv, WindowTypeOK, StoreConsistent, Newest, Kept, RetryOutsideWindow, Room
  <2>. QED
    BY <2>1, <2>2
<1>. QED
  BY <1>1, <1>2, <1>3, <1>4 DEF WindowNext, windowVars, store

(* The set and the queue of the bounded store agree and stay bounded.      *)
THEOREM StoreSound == WindowSpec => []StoreConsistent
<1>1. WindowInv => StoreConsistent
  BY DEF WindowInv
<1>. QED
  BY <1>1, InitWindow, NextWindow, PTL DEF WindowSpec

(* A retry is let through again only after a store-full of other           *)
(* deliveries, and by a table that answers never.                          *)
THEOREM RetriesBounce == WindowSpec => []RetryOutsideWindow
<1>1. WindowInv => RetryOutsideWindow
  BY DEF WindowInv
<1>. QED
  BY <1>1, InitWindow, NextWindow, PTL DEF WindowSpec
=============================================================================
