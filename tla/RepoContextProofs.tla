------------------------- MODULE RepoContextProofs -------------------------
(***************************************************************************)
(* Proofs about RepoContext for every number of chat commands, reviews,    *)
(* restarts, symbols and heads, and every batch, chunk and page size.      *)
(*                                                                         *)
(* Learnings: every id in use is below the counter, an id that was         *)
(* allocated but not yet stored belongs to one command alone, and a put    *)
(* that may still land copies what its command was told.  Context: a       *)
(* build's rows are of its own head from the moment they are compared, and *)
(* what was found or embedded is the whole of what it can read as long as  *)
(* the server answered each batch with one vector per text, in order.      *)
(***************************************************************************)
EXTENDS RepoContext, FiniteSetTheorems, SequenceTheorems, WellFoundedInduction, TLAPS

ChatRec == [at : {"idle", "adding", "putting", "remembered", "forgot"},
            text : Texts \cup {"none"}, id : Nat]
RowRec == [id : Nat, text : Texts \cup {"none"}]
ItemRec == [id : Nat, text : Texts \cup {"none"}, again : BOOLEAN]

(* Commands that have an id for their text. *)
Named == {c \in Chats : chats[c].at \in {"putting", "remembered"}}

(* The ids said or about to be said to be forgotten. *)
Forgetting == forgotten \cup {chats[c].id : c \in {d \in Chats : chats[d].at = "forgot"}}

LearningTypes ==
    /\ nextId \in Nat /\ chats \in [Chats -> ChatRec]
    /\ rows \subseteq ItemRec /\ late \subseteq RowRec
    /\ told \subseteq RowRec /\ forgotten \subseteq Nat

(* Whatever has an id has one that was handed out, for its text alone.     *)
Used == {Learning(x) : x \in rows} \cup late \cup told
        \cup {Learning(chats[c]) : c \in Named}

IdsSound ==
    /\ \A x \in Used : x.id < nextId
    /\ \A x, y \in Used : x.id = y.id => x.text = y.text

(* Only DynamoDB's puts are made apart from their ids and again.           *)
BackendSound ==
    backend # "dynamodb" =>
        late = {} /\ \A c \in Chats : chats[c].at # "putting"

(* An id that is not stored yet is stored by one command, and is neither   *)
(* in the store nor forgotten before that; after it was forgotten only a   *)
(* late copy puts it there.                                                *)
PutsSound ==
    /\ \A i \in Forgetting : i < nextId
    /\ \A x \in rows : x.id \in Forgetting => x.again
    /\ \A x \in rows : x.again => backend = "dynamodb"
    /\ \A c \in Chats : chats[c].at = "putting" =>
          /\ chats[c].id \notin Forgetting
          /\ \A x \in rows \cup late : x.id # chats[c].id
          /\ \A d \in Chats : chats[d].at = "putting" /\ chats[d].id = chats[c].id =>
                d = c

LEMMA IdleChat == Idle \in ChatRec /\ Idle.at = "idle"
BY DEF Idle, ChatRec

(* What a step does to a command and to the store.                         *)
LearningStep(c, k) ==
    /\ c \in Chats /\ k \in ChatRec /\ chats' = [chats EXCEPT ![c] = k]
    /\ backend' = backend
    /\ \/ /\ k.at \in {"idle", "adding"} /\ rows' \subseteq rows
          /\ nextId' \in {nextId, nextId + 1}
          /\ UNCHANGED <<late, told, forgotten>>
       \/ /\ k.at = "remembered" /\ k.id = nextId /\ nextId' = nextId + 1
          /\ rows' = With(Learning(k), FALSE)
          /\ UNCHANGED <<late, told, forgotten>>
       \/ /\ k.at = "putting" /\ k.id = nextId /\ nextId' = nextId + 1
          /\ backend = "dynamodb"
          /\ UNCHANGED <<rows, late, told, forgotten>>
       \/ /\ chats[c].at = "putting" /\ k.at \in {"remembered", "idle"}
          /\ k.at = "remembered" => k.id = chats[c].id /\ k.text = chats[c].text
          /\ rows' \in {rows, With(Learning(chats[c]), FALSE)}
          /\ late' \in {late, late \cup {Learning(chats[c])}}
          /\ UNCHANGED <<nextId, told, forgotten>>
       \/ /\ chats[c].at = "remembered" /\ k.at = "idle"
          /\ told' = told \cup {Learning(chats[c])}
          /\ UNCHANGED <<nextId, rows, late, forgotten>>
       \/ /\ k.at = "forgot"
          /\ \E r \in rows : r.id = k.id
          /\ rows' = {r \in rows : r.id # k.id}
          /\ UNCHANGED <<nextId, late, told, forgotten>>
       \/ /\ chats[c].at = "forgot" /\ k.at = "idle"
          /\ forgotten' = forgotten \cup {chats[c].id}
          /\ UNCHANGED <<nextId, rows, late, told>>

LEMMA StepShape ==
    ASSUME NEW c, NEW k, LearningStep(c, k)
    PROVE  /\ c \in Chats /\ k \in ChatRec /\ chats' = [chats EXCEPT ![c] = k]
           /\ backend' = backend /\ nextId' \in {nextId, nextId + 1}
           /\ k.at = "putting" => backend = "dynamodb"
           /\ chats[c].at # "putting" => late' = late
BY DEF LearningStep

LearningSame == UNCHANGED <<backend, nextId, rows, late, told, forgotten, chats>>

LEMMA LearningSteps ==
    ASSUME LearningTypes, [Next]_vars
    PROVE  \/ LearningSame
           \/ \E c, k : LearningStep(c, k)
           \/ /\ UNCHANGED <<backend, nextId, late, told, chats>>
              /\ \E i \in Nat : /\ \E r \in rows : r.id = i
                                /\ rows' = {r \in rows : r.id # i}
                                /\ forgotten' = forgotten \cup {i}
           \/ LatePut /\ UNCHANGED <<backend, nextId, told, forgotten, chats>>
           \/ /\ chats' = [c \in Chats |-> Idle] /\ UNCHANGED <<backend, late>>
              /\ \/ UNCHANGED <<nextId, rows, told, forgotten>>
                 \/ /\ backend = "memory"
                    /\ nextId' = 1 /\ rows' = {} /\ told' = {} /\ forgotten' = {}
<1>1. ASSUME NEW c \in Chats, Remember(c) PROVE \E k : LearningStep(c, k)
  <2>1. PICK t \in Texts :
          \/ chats' = [chats EXCEPT ![c] = Idle]
          \/ chats' = [chats EXCEPT ![c] = [Idle EXCEPT !.at = "adding", !.text = t]]
    BY <1>1 DEF Remember, Go
  <2>2. PICK k : /\ k \in {Idle, [Idle EXCEPT !.at = "adding", !.text = t]}
                 /\ chats' = [chats EXCEPT ![c] = k]
    BY <2>1
  <2>3. k \in ChatRec /\ k.at \in {"idle", "adding"}
    <3> DEFINE a == [Idle EXCEPT !.at = "adding", !.text = t]
    <3>1. a \in ChatRec /\ a.at = "adding"
      BY IdleChat DEF ChatRec
    <3>. QED
      BY <2>2, <3>1, IdleChat
  <2>. QED
    BY <1>1, <2>2, <2>3 DEF LearningStep, Remember
<1>2. ASSUME NEW c \in Chats, Add(c) PROVE \E k : LearningStep(c, k)
  <2> DEFINE k == [chats[c] EXCEPT !.at = "remembered", !.id = nextId]
  <2>1. /\ k \in ChatRec /\ k.at = "remembered" /\ k.id = nextId
        /\ Learning(k) = [id |-> nextId, text |-> chats[c].text]
    BY DEF LearningTypes, ChatRec, Learning
  <2>2. \/ /\ chats' = [chats EXCEPT ![c] = k] /\ nextId' = nextId + 1
           /\ rows' = With(Learning(k), FALSE)
        \/ chats' = [chats EXCEPT ![c] = Idle] /\ UNCHANGED <<nextId, rows>>
    BY <1>2, <2>1 DEF Add, FreshId, Go
  <2>3. UNCHANGED <<backend, late, told, forgotten>>
    BY <1>2 DEF Add
  <2> HIDE DEF k
  <2>. QED
    BY <2>1, <2>2, <2>3, IdleChat DEF LearningStep
<1>3. ASSUME NEW c \in Chats, AllocateId(c) PROVE \E k : LearningStep(c, k)
  <2> DEFINE k == [chats[c] EXCEPT !.at = "putting", !.id = nextId]
  <2>1. k \in ChatRec /\ k.at = "putting" /\ k.id = nextId
    BY DEF LearningTypes, ChatRec
  <2>2. /\ \/ chats' = [chats EXCEPT ![c] = k] /\ nextId' = nextId + 1
           \/ chats' = [chats EXCEPT ![c] = Idle] /\ nextId' \in {nextId, nextId + 1}
        /\ backend = "dynamodb" /\ UNCHANGED <<backend, rows, late, told, forgotten>>
    BY <1>3 DEF AllocateId, FreshId, Go
  <2> HIDE DEF k
  <2>. QED
    BY <2>1, <2>2, IdleChat DEF LearningStep
<1>4. ASSUME NEW c \in Chats, PutLearning(c) PROVE \E k : LearningStep(c, k)
  <2> DEFINE k == [chats[c] EXCEPT !.at = "remembered"]
  <2>1. /\ k \in ChatRec /\ k.at = "remembered" /\ k.id = chats[c].id
        /\ k.text = chats[c].text /\ chats[c].at = "putting"
    BY <1>4 DEF LearningTypes, ChatRec, PutLearning
  <2>2. /\ \/ chats' = [chats EXCEPT ![c] = k]
           \/ chats' = [chats EXCEPT ![c] = Idle]
        /\ rows' \in {rows, With(Learning(chats[c]), FALSE)}
        /\ late' \in {late, late \cup {Learning(chats[c])}}
    BY <1>4 DEF PutLearning, Go
  <2>3. UNCHANGED <<backend, nextId, told, forgotten>>
    BY <1>4 DEF PutLearning
  <2> HIDE DEF k
  <2>. QED
    BY <2>1, <2>2, <2>3, IdleChat DEF LearningStep
<1>5. ASSUME NEW c \in Chats, ReplyRemembered(c) PROVE LearningStep(c, Idle)
  BY <1>5, IdleChat DEF LearningStep, ReplyRemembered, Go
<1>6. ASSUME NEW c \in Chats, Forget(c) PROVE \E k : LearningStep(c, k)
  <2>1. UNCHANGED <<backend, nextId, late, told, forgotten>>
    BY <1>6 DEF Forget
  <2>2. PICK i \in Ids :
          \/ Removed(i) /\ chats' = [chats EXCEPT ![c] = [Idle EXCEPT !.at = "forgot", !.id = i]]
          \/ Removed(i) /\ chats' = [chats EXCEPT ![c] = Idle]
          \/ chats' = [chats EXCEPT ![c] = Idle] /\ UNCHANGED rows
    BY <1>6 DEF Forget, Go
  <2> DEFINE k == [Idle EXCEPT !.at = "forgot", !.id = i]
  <2>3. k \in ChatRec /\ k.at = "forgot" /\ k.id = i
    <3>1. i \in Nat
      BY LearningsAssumption DEF Ids
    <3>. QED
      BY <3>1, IdleChat DEF ChatRec
  <2> HIDE DEF k
  <2>4. \/ chats' = [chats EXCEPT ![c] = k] /\ Removed(i)
        \/ chats' = [chats EXCEPT ![c] = Idle] /\ rows' \subseteq rows
    BY <2>2 DEF Removed, k
  <2>. QED
    BY <2>1, <2>3, <2>4, IdleChat DEF LearningStep, Removed
<1>7. ASSUME NEW c \in Chats, ReplyForgotten(c) PROVE LearningStep(c, Idle)
  BY <1>7, IdleChat DEF LearningStep, ReplyForgotten, Go
<1>8. CASE ForgetLearning
  BY <1>8, LearningsAssumption DEF ForgetLearning, Removed, Ids
<1>9. CASE Restart
  BY <1>9 DEF Restart, RestartLearnings
<1>10. CASE \E r \in Reviews :
              \/ IndexWorkspace(r) \/ EmbedQuery(r) \/ ComputeSnippets(r)
              \/ FetchByKeys(r) \/ EmbedBatch(r) \/ Upsert(r) \/ Score(r)
              \/ QueryLearnings(r) \/ FormatRepoContext(r)
  <2>1. ASSUME NEW r, \/ IndexWorkspace(r) \/ EmbedQuery(r) \/ ComputeSnippets(r)
                      \/ FetchByKeys(r) \/ Score(r) \/ QueryLearnings(r)
        PROVE  UNCHANGED learningVars
    BY <2>1 DEF IndexWorkspace, EmbedQuery, ComputeSnippets, FetchByKeys, Score,
                QueryLearnings, Leave
  <2>2. ASSUME NEW r, EmbedBatch(r) PROVE UNCHANGED learningVars
    BY <2>2 DEF EmbedBatch, Leave
  <2>3. ASSUME NEW r, Upsert(r) \/ FormatRepoContext(r) PROVE UNCHANGED learningVars
    BY <2>3 DEF Upsert, FormatRepoContext, Leave
  <2>4. UNCHANGED learningVars
    BY <1>10, <2>1, <2>2, <2>3
  <2>. QED
    BY <2>4 DEF learningVars, LearningSame
<1>11. CASE UNCHANGED vars
  BY <1>11 DEF vars, learningVars, LearningSame
<1>12. CASE LatePut
  BY <1>12 DEF LatePut
<1>13. CASE LearningsNext
  BY <1>1, <1>2, <1>3, <1>4, <1>5, <1>6, <1>7, <1>8, <1>12, <1>13 DEF LearningsNext
<1>. QED
  BY <1>9, <1>10, <1>11, <1>13 DEF Next

LEMMA LearningType ==
    ASSUME NEW k, k \in ChatRec \/ k \in ItemRec
    PROVE  Learning(k) \in RowRec /\ Learning(k).id = k.id /\ Learning(k).text = k.text
BY DEF Learning, RowRec, ChatRec, ItemRec

(* What With makes of the rows. *)
LEMMA WithRows ==
    ASSUME NEW x \in RowRec, NEW a \in BOOLEAN, rows \subseteq ItemRec,
           NEW y \in With(x, a)
    PROVE  /\ y \in ItemRec
           /\ \/ y \in rows /\ y.id # x.id
              \/ y.id = x.id /\ y.text = x.text /\ y.again = a /\ Learning(y) = x
<1>1. [id |-> x.id, text |-> x.text, again |-> a] \in ItemRec
  BY DEF RowRec, ItemRec
<1>2. [id |-> x.id, text |-> x.text] = x
  BY DEF RowRec
<1>. QED
  BY <1>1, <1>2 DEF With, Learning

LEMMA NextLearningTypes ==
    ASSUME LearningTypes, [Next]_vars
    PROVE  LearningTypes'
<1>1. ASSUME NEW x \in RowRec, NEW a \in BOOLEAN PROVE With(x, a) \subseteq ItemRec
  BY <1>1, WithRows DEF LearningTypes
<1>2. ASSUME NEW c, NEW k, LearningStep(c, k) PROVE LearningTypes'
  <2>1. k \in ChatRec /\ k.id \in Nat /\ chats[c] \in ChatRec /\ chats[c].id \in Nat
    BY <1>2 DEF LearningStep, LearningTypes, ChatRec
  <2>2. Learning(k) \in RowRec /\ Learning(chats[c]) \in RowRec
    BY <2>1, LearningType
  <2>3. chats' \in [Chats -> ChatRec]
    BY <1>2, <2>1 DEF LearningStep, LearningTypes
  <2>4. nextId' \in Nat
    BY <1>2, StepShape DEF LearningTypes
  <2>5. rows' \subseteq ItemRec
    BY <1>1, <1>2, <2>2 DEF LearningStep, LearningTypes
  <2>6. told' \subseteq RowRec /\ late' \subseteq RowRec
    BY <1>2, <2>2 DEF LearningStep, LearningTypes
  <2>7. forgotten' \subseteq Nat
    BY <1>2, <2>1 DEF LearningStep, LearningTypes
  <2>. QED
    BY <2>3, <2>4, <2>5, <2>6, <2>7 DEF LearningTypes
<1>3. CASE LearningSame
  BY <1>3 DEF LearningTypes, LearningSame
<1>4. CASE /\ UNCHANGED <<nextId, late, told, chats>>
           /\ \E i \in Nat : rows' = {r \in rows : r.id # i} /\ forgotten' = forgotten \cup {i}
  BY <1>4 DEF LearningTypes
<1>5. CASE /\ chats' = [c \in Chats |-> Idle] /\ late' = late
           /\ \/ UNCHANGED <<nextId, rows, told, forgotten>>
              \/ nextId' = 1 /\ rows' = {} /\ told' = {} /\ forgotten' = {}
  <2>1. chats' \in [Chats -> ChatRec]
    BY <1>5, IdleChat
  <2>2. /\ nextId' \in Nat /\ rows' \subseteq ItemRec /\ told' \subseteq RowRec
        /\ forgotten' \subseteq Nat /\ late' \subseteq RowRec
    <3>1. CASE UNCHANGED <<nextId, rows, told, forgotten>>
      BY <1>5, <3>1 DEF LearningTypes
    <3>2. CASE nextId' = 1 /\ rows' = {} /\ told' = {} /\ forgotten' = {}
      BY <1>5, <3>2 DEF LearningTypes
    <3>. QED
      BY <1>5, <3>1, <3>2
  <2>. QED
    BY <2>1, <2>2 DEF LearningTypes
<1>6. CASE LatePut /\ UNCHANGED <<nextId, told, forgotten, chats>>
  <2>1. PICK x \in late : rows' = With(x, TRUE) /\ late' = late \ {x}
    BY <1>6 DEF LatePut
  <2>2. rows' \subseteq ItemRec
    BY <1>1, <2>1 DEF LearningTypes
  <2>. QED
    BY <1>6, <2>1, <2>2 DEF LearningTypes
<1>. QED
  BY <1>2, <1>3, <1>4, <1>5, <1>6, LearningSteps

LEMMA NextBackend ==
    ASSUME LearningTypes, BackendSound, [Next]_vars
    PROVE  BackendSound'
<1>1. ASSUME NEW c, NEW k, LearningStep(c, k) PROVE BackendSound'
  <2>1. \A d \in Chats : chats'[d] = chats[d] \/ (d = c /\ chats'[d] = k)
    BY <1>1, StepShape DEF LearningTypes
  <2>2. backend # "dynamodb" => k.at # "putting" /\ late' = late
    BY <1>1, StepShape DEF BackendSound
  <2>3. backend' = backend
    BY <1>1, StepShape
  <2>. QED
    BY <2>1, <2>2, <2>3 DEF BackendSound
<1>2. CASE chats' = [c \in Chats |-> Idle] /\ UNCHANGED <<backend, late>>
  BY <1>2, IdleChat DEF BackendSound
<1>3. CASE LatePut /\ UNCHANGED <<backend, chats>>
  BY <1>3 DEF LatePut, BackendSound
<1>4. CASE UNCHANGED <<backend, late, chats>>
  BY <1>4 DEF BackendSound
<1>. QED
  BY <1>1, <1>2, <1>3, <1>4, LearningSteps DEF LearningSame

LEMMA NextIds ==
    ASSUME LearningTypes, BackendSound, IdsSound, [Next]_vars
    PROVE  IdsSound'
<1>0. LearningTypes'
  BY NextLearningTypes
<1>1. ASSUME NEW c, NEW k, LearningStep(c, k) PROVE IdsSound'
  <2>1. /\ c \in Chats /\ k \in ChatRec /\ chats[c] \in ChatRec
        /\ k.id \in Nat /\ chats[c].id \in Nat /\ nextId \in Nat
    BY <1>1 DEF LearningStep, LearningTypes, ChatRec
  <2>2. /\ Learning(k) \in RowRec /\ Learning(k).id = k.id
        /\ Learning(chats[c]) \in RowRec
        /\ k.id = chats[c].id /\ k.text = chats[c].text => Learning(k) = Learning(chats[c])
    BY <2>1, LearningType DEF Learning
  <2>3. \A x \in Used : x.id \in Nat
    <3>1. \A d \in Chats : Learning(chats[d]).id \in Nat
      BY LearningType DEF LearningTypes, RowRec
    <3>2. \A x \in rows : Learning(x).id \in Nat
      BY LearningType DEF LearningTypes, RowRec
    <3>. QED
      BY <3>1, <3>2 DEF Used, Named, LearningTypes, RowRec
  <2>4. chats[c].at \in {"putting", "remembered"} => Learning(chats[c]) \in Used
    BY <2>1 DEF Used, Named
  <2> DEFINE New == IF k.at \in {"putting", "remembered"} THEN {Learning(k)} ELSE {}
  <2>5. Used' \subseteq Used \cup {Learning(x) : x \in rows'} \cup told' \cup late' \cup New
    <3>1. ASSUME NEW d \in Named' PROVE \/ d \in Named /\ chats'[d] = chats[d]
                                        \/ k.at \in {"putting", "remembered"} /\ chats'[d] = k
      BY <1>1, <2>1 DEF Named, LearningStep, LearningTypes
    <3>. QED
      BY <3>1 DEF Used
  <2>r. ASSUME NEW x \in RowRec, rows' = With(x, FALSE)
        PROVE  \A y \in rows' : Learning(y) \in Used \cup {x}
    BY <2>r, WithRows DEF LearningTypes, Used
  <2>s. rows' \subseteq rows => \A y \in rows' : Learning(y) \in Used
    BY DEF Used
  <2>6. Used' \subseteq Used \/ /\ Used' \subseteq Used \cup {Learning(k)} /\ k.id = nextId
                                 /\ nextId' = nextId + 1
    <3>1. CASE k.id = nextId /\ nextId' = nextId + 1 /\ UNCHANGED <<late, told>>
               /\ (rows' = With(Learning(k), FALSE) \/ rows' = rows)
      <4>1. \A y \in rows' : Learning(y) \in Used \cup {Learning(k)}
        BY <2>2, <2>r, <2>s, <3>1
      <4>2. late' \subseteq Used /\ told' \subseteq Used
        BY <3>1 DEF Used
      <4>3. New \subseteq {Learning(k)}
        OBVIOUS
      <4>. QED
        BY <2>5, <3>1, <4>1, <4>2, <4>3
    <3>2. CASE rows' \subseteq rows /\ UNCHANGED <<late, told>>
               /\ k.at \notin {"putting", "remembered"}
      BY <2>5, <2>s, <3>2 DEF Used
    <3>3. CASE told' = told \cup {Learning(chats[c])} /\ UNCHANGED <<rows, late>>
               /\ chats[c].at = "remembered" /\ k.at = "idle"
      BY <2>4, <2>5, <2>s, <3>3 DEF Used
    <3>4. CASE /\ chats[c].at = "putting" /\ k.at \in {"remembered", "idle"}
               /\ k.at = "remembered" => k.id = chats[c].id /\ k.text = chats[c].text
               /\ rows' \in {rows, With(Learning(chats[c]), FALSE)} /\ told' = told
               /\ late' \in {late, late \cup {Learning(chats[c])}}
      <4>1. \A y \in rows' : Learning(y) \in Used
        BY <2>2, <2>4, <2>r, <2>s, <3>4
      <4>2. late' \subseteq Used /\ told' \subseteq Used
        BY <2>4, <3>4 DEF Used
      <4>3. New \subseteq Used
        BY <2>2, <2>4, <3>4
      <4>. QED
        BY <2>5, <4>1, <4>2, <4>3
    <3>. QED
      BY <1>1, <3>1, <3>2, <3>3, <3>4 DEF LearningStep
  <2>7. nextId' \in Nat /\ nextId <= nextId'
    BY <1>1, <2>1, StepShape
  <2>8. CASE Used' \subseteq Used
    BY <2>1, <2>3, <2>7, <2>8 DEF IdsSound
  <2>9. CASE Used' \subseteq Used \cup {Learning(k)} /\ k.id = nextId /\ nextId' = nextId + 1
    BY <2>1, <2>2, <2>3, <2>9 DEF IdsSound
  <2>. QED
    BY <2>6, <2>8, <2>9
<1>2. ASSUME Used' \subseteq Used, nextId' = nextId PROVE IdsSound'
  BY <1>2 DEF IdsSound
<1>3. CASE LearningSame
  BY <1>2, <1>3 DEF Used, Named, LearningSame
<1>4. CASE UNCHANGED <<nextId, late, told, chats>> /\ rows' \subseteq rows
  BY <1>2, <1>4 DEF Used, Named
<1>5. CASE LatePut /\ UNCHANGED <<nextId, told, chats>>
  <2>1. PICK x \in late : rows' = With(x, TRUE) /\ late' = late \ {x}
    BY <1>5 DEF LatePut
  <2>2. \A y \in rows' : Learning(y) \in Used
    BY <2>1, WithRows DEF LearningTypes, Used
  <2>3. Named' = Named /\ chats' = chats /\ told' = told /\ late' \subseteq late
    BY <1>5, <2>1 DEF Named
  <2>. QED
    BY <1>2, <1>5, <2>2, <2>3 DEF Used
<1>6. CASE chats' = [c \in Chats |-> Idle] /\ UNCHANGED <<backend, late>>
  <2>1. Named' = {}
    BY <1>6, IdleChat DEF Named
  <2>2. Used' = {Learning(x) : x \in rows'} \cup late \cup told'
    BY <1>6, <2>1 DEF Used
  <2>3. CASE UNCHANGED <<nextId, rows, told>>
    BY <1>2, <2>2, <2>3 DEF Used
  <2>4. CASE backend = "memory" /\ rows' = {} /\ told' = {}
    <3>1. Used' = {}
      BY <2>2, <2>4 DEF BackendSound
    <3>. QED
      BY <3>1 DEF IdsSound
  <2>. QED
    BY <1>1, <1>3, <1>4, <1>5, <2>3, <2>4, LearningSteps
<1>. QED
  BY <1>1, <1>3, <1>4, <1>5, <1>6, LearningSteps

LEMMA NextPuts ==
    ASSUME LearningTypes, BackendSound, IdsSound, PutsSound, [Next]_vars
    PROVE  PutsSound'
<1>0. /\ nextId \in Nat /\ \A i \in Forgetting : i \in Nat
      /\ \A x \in rows \cup late : x.id \in Nat /\ x.id < nextId
      /\ \A c \in Chats : chats[c].at = "putting" => chats[c].id \in Nat /\ chats[c].id < nextId
  <2>1. \A i \in Forgetting : i \in Nat
    BY DEF Forgetting, LearningTypes, ChatRec
  <2>2. ASSUME NEW x \in rows PROVE x.id \in Nat /\ x.id < nextId
    <3>1. Learning(x) \in Used /\ Learning(x).id = x.id /\ x.id \in Nat
      BY LearningType DEF Used, LearningTypes, ItemRec
    <3>. QED
      BY <3>1 DEF IdsSound
  <2>3. \A x \in late : x.id \in Nat /\ x.id < nextId
    BY DEF LearningTypes, RowRec, IdsSound, Used
  <2>4. ASSUME NEW c \in Chats, chats[c].at = "putting"
        PROVE  chats[c].id \in Nat /\ chats[c].id < nextId
    <3>1. Learning(chats[c]) \in Used /\ Learning(chats[c]).id = chats[c].id
      BY <2>4, LearningType DEF Used, Named, LearningTypes
    <3>. QED
      BY <3>1 DEF IdsSound, LearningTypes, ChatRec
  <2>. QED
    BY <2>1, <2>2, <2>3, <2>4 DEF LearningTypes
<1>1. ASSUME NEW c, NEW k, LearningStep(c, k) PROVE PutsSound'
  <2>1. /\ c \in Chats /\ k \in ChatRec /\ k.id \in Nat
        /\ chats[c] \in ChatRec /\ chats[c].id \in Nat
        /\ chats'[c] = k /\ \A d \in Chats : d # c => chats'[d] = chats[d]
    BY <1>1 DEF LearningStep, LearningTypes, ChatRec
  <2>2. /\ Learning(k) \in RowRec /\ Learning(k).id = k.id
        /\ Learning(chats[c]) \in RowRec /\ Learning(chats[c]).id = chats[c].id
    BY <2>1, LearningType
  <2>w. ASSUME NEW x \in RowRec, rows' = With(x, FALSE)
        PROVE  \A y \in rows' : \/ y \in rows /\ y.id # x.id
                                \/ y.id = x.id /\ y.again = FALSE
    BY <2>w, WithRows DEF LearningTypes
  <2>b. backend' = backend
    BY <1>1, StepShape
  <2>3. ASSUME NEW i \in Forgetting' PROVE
           \/ i \in Forgetting
           \/ i = k.id /\ k.at = "forgot"
    <3>1. chats[c].at = "forgot" => chats[c].id \in Forgetting
      BY <2>1 DEF Forgetting
    <3>2. \/ i \in forgotten'
          \/ \E d \in Chats : chats'[d].at = "forgot" /\ i = chats'[d].id
      BY <2>3 DEF Forgetting
    <3>3. CASE i \in forgotten'
      BY <1>1, <3>1, <3>3 DEF LearningStep, Forgetting
    <3>4. ASSUME NEW d \in Chats, chats'[d].at = "forgot", i = chats'[d].id
          PROVE  i \in Forgetting \/ (i = k.id /\ k.at = "forgot")
      <4>1. CASE d = c
        BY <2>1, <3>4, <4>1
      <4>2. CASE d # c
        <5>1. chats[d].at = "forgot" /\ i = chats[d].id
          BY <2>1, <3>4, <4>2
        <5>. QED
          BY <5>1 DEF Forgetting
      <4>. QED
        BY <4>1, <4>2
    <3>. QED
      BY <3>2, <3>3, <3>4
  <2>4. ASSUME k.at # "forgot" PROVE Forgetting' \subseteq Forgetting
    BY <2>3, <2>4
  <2>5. CASE /\ k.at \notin {"putting", "forgot"} /\ nextId' \in {nextId, nextId + 1}
             /\ rows' \subseteq rows /\ late' = late
    BY <1>0, <2>1, <2>4, <2>5, <2>b DEF PutsSound
  <2>6. CASE /\ k.at = "remembered" /\ k.id = nextId /\ nextId' = nextId + 1
             /\ rows' = With(Learning(k), FALSE) /\ late' = late
    <3>1. \A y \in rows' : y \in rows \/ (y.id = nextId /\ y.again = FALSE)
      BY <2>2, <2>6, <2>w
    <3>2. ASSUME NEW y \in rows'
          PROVE  (y.id \in Forgetting' => y.again) /\ (y.again => backend' = "dynamodb")
      <4>1. CASE y \in rows
        BY <2>4, <2>6, <2>b, <4>1 DEF PutsSound
      <4>2. CASE y.id = nextId /\ y.again = FALSE
        BY <1>0, <2>4, <2>6, <4>2 DEF PutsSound
      <4>. QED
        BY <3>1, <4>1, <4>2
    <3>3. \A i \in Forgetting' : i < nextId'
      BY <1>0, <2>4, <2>6 DEF PutsSound
    <3>4. ASSUME NEW d \in Chats, chats'[d].at = "putting"
          PROVE  /\ chats'[d] = chats[d] /\ chats[d].id \notin Forgetting'
                 /\ \A x \in rows' \cup late' : x.id # chats[d].id
                 /\ \A f \in Chats : chats'[f].at = "putting" /\ chats'[f].id = chats[d].id =>
                      f = d
      <4>1. chats'[d] = chats[d] /\ chats[d].at = "putting"
        BY <2>1, <2>6, <3>4
      <4>2. \A f \in Chats : chats'[f].at = "putting" => chats'[f] = chats[f]
        BY <2>1, <2>6
      <4>3. chats[d].id \in Nat /\ chats[d].id < nextId
        BY <1>0, <4>1
      <4>4. chats[d].id # nextId
        BY <1>0, <4>3
      <4>. QED
        BY <2>4, <2>6, <3>1, <4>1, <4>2, <4>4 DEF PutsSound
    <3>. QED
      BY <3>2, <3>3, <3>4 DEF PutsSound
  <2>7. CASE /\ k.at = "putting" /\ k.id = nextId /\ nextId' = nextId + 1
             /\ rows' = rows /\ late' = late
    BY <1>0, <2>1, <2>4, <2>7, <2>b DEF PutsSound
  <2>8. CASE /\ chats[c].at = "putting" /\ k.at \in {"remembered", "idle"}
             /\ rows' \in {rows, With(Learning(chats[c]), FALSE)}
             /\ late' \in {late, late \cup {Learning(chats[c])}} /\ nextId' = nextId
    <3>1. \A y \in rows' : y \in rows \/ (y.id = chats[c].id /\ y.again = FALSE)
      BY <2>2, <2>8, <2>w
    <3>2. \A y \in late' : y \in late \/ y.id = chats[c].id
      BY <2>2, <2>8
    <3>3. chats[c].id \notin Forgetting'
      BY <2>1, <2>4, <2>8 DEF PutsSound
    <3>. QED
      BY <2>1, <2>4, <2>8, <2>b, <3>1, <3>2, <3>3 DEF PutsSound
  <2>9. CASE /\ k.at = "forgot" /\ \E r \in rows : r.id = k.id
             /\ rows' = {r \in rows : r.id # k.id} /\ nextId' = nextId /\ late' = late
    BY <1>0, <2>1, <2>3, <2>9, <2>b DEF PutsSound
  <2>. QED
    BY <1>1, <2>5, <2>6, <2>7, <2>8, <2>9 DEF LearningStep
<1>2. CASE LearningSame
  BY <1>2 DEF PutsSound, Forgetting, LearningSame
<1>3. ASSUME NEW i \in Nat, \E r \in rows : r.id = i,
             UNCHANGED <<backend, nextId, late, chats>>,
             rows' = {r \in rows : r.id # i}, forgotten' = forgotten \cup {i}
      PROVE  PutsSound'
  <2>1. Forgetting' = Forgetting \cup {i}
    BY <1>3 DEF Forgetting
  <2>. QED
    BY <1>0, <1>3, <2>1 DEF PutsSound
<1>4. CASE LatePut /\ UNCHANGED <<backend, nextId, told, forgotten, chats>>
  <2>1. PICK x \in late : rows' = With(x, TRUE) /\ late' = late \ {x}
    BY <1>4 DEF LatePut
  <2>2. \A y \in rows' : y \in rows \/ (y.id = x.id /\ y.again = TRUE)
    BY <2>1, WithRows DEF LearningTypes
  <2>3. backend = "dynamodb" /\ Forgetting' = Forgetting
    BY <1>4, <2>1 DEF BackendSound, Forgetting
  <2>. QED
    BY <1>4, <2>1, <2>2, <2>3 DEF PutsSound
<1>5. CASE chats' = [c \in Chats |-> Idle]
           /\ UNCHANGED <<backend, late, nextId, rows, told, forgotten>>
  <2>1. \A c \in Chats : chats'[c].at = "idle"
    BY <1>5, IdleChat
  <2>2. Forgetting' \subseteq Forgetting
    BY <1>5, <2>1 DEF Forgetting
  <2>. QED
    BY <1>5, <2>1, <2>2 DEF PutsSound
<1>6. CASE chats' = [c \in Chats |-> Idle] /\ rows' = {} /\ forgotten' = {}
  <2>1. \A c \in Chats : chats'[c].at = "idle"
    BY <1>6, IdleChat
  <2>2. Forgetting' = {}
    BY <1>6, <2>1 DEF Forgetting
  <2>. QED
    BY <1>6, <2>1, <2>2 DEF PutsSound
<1>. QED
  BY <1>1, <1>2, <1>3, <1>4, <1>5, <1>6, LearningSteps

LearningsSound == LearningTypes /\ BackendSound /\ IdsSound /\ PutsSound

LEMMA LearningsAlways == Spec => []LearningsSound
<1>1. Init => LearningsSound
  <2> SUFFICES ASSUME Init PROVE LearningsSound
    OBVIOUS
  <2> USE DEF Init, LearningsInit
  <2>1. /\ LearningTypes /\ \A c \in Chats : chats[c].at = "idle"
        /\ rows = {} /\ late = {}
    BY IdleChat DEF LearningTypes
  <2>2. Used = {} /\ Forgetting = {}
    BY <2>1 DEF Used, Named, Forgetting
  <2>. QED
    BY <2>1, <2>2 DEF LearningsSound, BackendSound, IdsSound, PutsSound
<1>2. LearningsSound /\ [Next]_vars => LearningsSound'
  BY NextLearningTypes, NextBackend, NextIds, NextPuts DEF LearningsSound
<1>. QED
  BY <1>1, <1>2, PTL DEF Spec

(* An id names one text in every reply and record, whatever commands,      *)
(* failures, late copies, deletions and restarts come between, on each of  *)
(* the stores.                                                             *)
THEOREM IdsNameOneText == Spec => []IdNamesOneText
<1>1. LearningsSound => IdNamesOneText
  <2> SUFFICES ASSUME LearningsSound, NEW x \in told \cup rows, NEW y \in told \cup rows,
                      x.id = y.id
               PROVE  x.text = y.text
    BY DEF IdNamesOneText
  <2>1. ASSUME NEW z \in told \cup rows
        PROVE  \E u \in Used : u.id = z.id /\ u.text = z.text
    BY LearningType DEF LearningsSound, LearningTypes, Used
  <2>. QED
    BY <2>1 DEF LearningsSound, IdsSound
<1>. QED
  BY <1>1, LearningsAlways, PTL

(* What the bot or the operator was told is forgotten is in no record, but *)
(* for one that a late copy of its own put brought back to DynamoDB: an id *)
(* is put by one command, and can be removed only after that, so no put    *)
(* that a command is still making can bring a forgotten id back.           *)
THEOREM ForgottenForGood == Spec => []ForgottenStaysOut
<1>1. LearningsSound => ForgottenStaysOut
  BY DEF LearningsSound, PutsSound, Forgetting, ForgottenStaysOut
<1>. QED
  BY <1>1, LearningsAlways, PTL

-----------------------------------------------------------------------------
(* The context of a review.                                                *)

(* A row that only answers in order stand behind is of its own text. *)
OfItsText(row) == row.whole => row.vector.of = row.content

VectorsSound == \A s \in DOMAIN vectors : OfItsText(vectors[s])

(* What is kept of a text under a cap that is, or is not, below it.        *)
Cut(capped, text) == IF capped THEN <<text[1], "">> ELSE text

(* The locals of a build. *)
IsBuild(b) ==
    DOMAIN b = {"at", "head", "readable", "fetched", "cached", "misses", "embedded",
                "answers", "whole", "symbols", "section", "learnings"}

(* What is quoted, for one build: the body of ContextIsOfThisHead. *)
Quoted(b) ==
    /\ \A s \in DOMAIN b.symbols :
          LET own == Snippet[b.head][s] IN
          /\ b.symbols[s].content \in {own, <<own[1], "">>}
          /\ OfItsText(b.symbols[s])
    /\ b.whole => Cardinality(DOMAIN b.symbols) = Min({TopK, Cardinality(b.readable)})

(* The rows found are of the build's own text, and with the ones that were *)
(* not found they are all the build has looked up so far.                  *)
Found(b) ==
    /\ \A s \in DOMAIN b.cached :
          b.cached[s].content = Snippet[b.head][s] /\ OfItsText(b.cached[s])
    /\ b.at \in {"query", "snippets"} => b.fetched = 0 /\ DOMAIN b.cached \cup b.misses = {}
    /\ b.at = "fetching" =>
          DOMAIN b.cached \cup b.misses = {s \in b.readable : s <= b.fetched}
    /\ b.at \in {"embedding", "upserting", "scoring"} =>
          DOMAIN b.cached \cup b.misses = b.readable

(* The batches take the missing symbols from the front, and while every    *)
(* answer was in order the vectors stand in the places of their symbols.   *)
Answered(b, capped) ==
    /\ b.at \in {"query", "snippets", "fetching"} => b.embedded = {} /\ b.answers = << >>
    /\ b.at \in {"embedding", "upserting", "scoring"} =>
          /\ \A s \in b.embedded, t \in b.misses : t <= s => t \in b.embedded
          /\ \E S : b.answers \in Seq(S)
          /\ b.whole => /\ Len(b.answers) = Cardinality(b.embedded)
                        /\ \A s \in b.embedded : b.answers[Place(b.embedded, s)].of
                                                    = Cut(capped, Snippet[b.head][s])

BuildSound(b, capped) ==
    /\ IsBuild(b)
    /\ b.fetched \in Nat /\ b.readable \subseteq Symbols
    /\ b.misses \subseteq b.readable /\ b.embedded \subseteq b.misses
    /\ Found(b)
    /\ Answered(b, capped)
    /\ b.at \in {"upserting", "scoring"} => b.embedded = b.misses
    /\ b.section = "scored" => Quoted(b)

ContextSound ==
    /\ VectorsSound
    /\ DOMAIN builds = Reviews
    /\ \A r \in Reviews : BuildSound(builds[r], embedder.capped)

LEMMA NoBuildSound ==
    ASSUME NEW capped PROVE BuildSound(NoBuild, capped) /\ NoBuild.section = "none"
<1> DEFINE k == NoBuild
<1>1. /\ IsBuild(k) /\ k.at = "idle" /\ k.fetched = 0 /\ k.readable = {} /\ k.misses = {}
      /\ k.embedded = {} /\ k.cached = << >> /\ k.section = "none"
  BY DEF NoBuild, IsBuild
<1>2. DOMAIN k.cached = {}
  BY <1>1
<1> HIDE DEF k
<1>. QED
  BY <1>1, <1>2 DEF BuildSound, Found, Answered, k

(* A build that has its section, or gave it up, has nothing left to look   *)
(* up.                                                                     *)
LEMMA LaterSound ==
    ASSUME NEW b, NEW capped, BuildSound(b, capped),
           NEW k, IsBuild(k), k.at \in {"learnings", "done"},
           k.head = b.head, k.readable = b.readable, k.fetched = b.fetched,
           k.cached = b.cached, k.misses = b.misses, k.embedded = b.embedded,
           k.section = "scored" => Quoted(k)
    PROVE  BuildSound(k, capped)
BY DEF BuildSound, Found, Answered

LEMMA SkipSound ==
    ASSUME NEW b, NEW capped, BuildSound(b, capped)
    PROVE  BuildSound([b EXCEPT !.at = "learnings", !.section = "skipped"], capped)
<1> DEFINE k == [b EXCEPT !.at = "learnings", !.section = "skipped"]
<1>1. /\ IsBuild(k) /\ k.at = "learnings" /\ k.section = "skipped"
      /\ k.head = b.head /\ k.readable = b.readable /\ k.fetched = b.fetched
      /\ k.cached = b.cached /\ k.misses = b.misses /\ k.embedded = b.embedded
  BY DEF BuildSound, IsBuild
<1> HIDE DEF k
<1>. QED
  BY <1>1, LaterSound DEF k

(* The place of a symbol among those of a set.                             *)
LEMMA PlaceBounds ==
    ASSUME NEW S \in SUBSET Symbols, NEW s
    PROVE  /\ IsFiniteSet(S) /\ Cardinality(S) \in Nat
           /\ Place(S, s) \in Nat /\ Place(S, s) <= Cardinality(S)
           /\ s \in S => 1 <= Place(S, s)
<1> DEFINE P == {t \in S : t <= s}
<1>1. IsFiniteSet(S)
  <2>1. 1 \in Int /\ NSymbols \in Int
    BY ContextAssumption
  <2>2. IsFiniteSet(Symbols)
    BY <2>1, FS_Interval DEF Symbols
  <2>. QED
    BY <2>2, FS_Subset
<1>2. IsFiniteSet(P) /\ Cardinality(P) <= Cardinality(S)
  BY <1>1, FS_Subset
<1>3. Cardinality(S) \in Nat /\ Cardinality(P) \in Nat
  BY <1>1, <1>2, FS_CardinalityType
<1>4. ASSUME s \in S PROVE 1 <= Cardinality(P)
  <2>1. s \in P
    BY <1>4, ContextAssumption DEF Symbols
  <2>2. Cardinality(P) # 0
    BY <1>2, <2>1, FS_EmptySet
  <2>. QED
    BY <1>3, <2>2
<1>. QED
  BY <1>1, <1>2, <1>3, <1>4 DEF Place

LEMMA PlaceUnique ==
    ASSUME NEW S \in SUBSET Symbols, NEW s \in S, NEW t \in S, Place(S, s) = Place(S, t)
    PROVE  s = t
<1>0. \A x \in S : x \in Nat
  BY ContextAssumption DEF Symbols
<1>1. ASSUME NEW x \in S, NEW y \in S, x < y, Place(S, x) = Place(S, y) PROVE FALSE
  <2> DEFINE X == {z \in S : z <= x}
             Y == {z \in S : z <= y}
  <2>1. X \subseteq Y /\ y \in Y /\ y \notin X
    BY <1>0, <1>1
  <2>2. IsFiniteSet(Y)
    BY PlaceBounds, FS_Subset
  <2>3. Cardinality(X) = Cardinality(Y)
    BY <1>1 DEF Place
  <2>. QED
    BY <2>1, <2>2, <2>3, FS_Subset
<1>. QED
  BY <1>0, <1>1

LEMMA NthPlace ==
    ASSUME NEW S \in SUBSET Symbols, NEW s \in S
    PROVE  Nth(S, Place(S, s)) = s
BY PlaceUnique DEF Nth

(* Symbols that come after all others keep their order behind them.        *)
LEMMA PlaceAfter ==
    ASSUME NEW S \in SUBSET Symbols, NEW T \in SUBSET Symbols, \A x \in S, y \in T : x < y
    PROVE  /\ Cardinality(S \cup T) = Cardinality(S) + Cardinality(T)
           /\ \A s \in S : Place(S \cup T, s) = Place(S, s)
           /\ \A s \in T : Place(S \cup T, s) = Cardinality(S) + Place(T, s)
<1>0. /\ \A x \in S \cup T : x \in Nat
      /\ IsFiniteSet(S) /\ IsFiniteSet(T)
      /\ Cardinality(S) \in Nat /\ Cardinality(T) \in Nat
  BY PlaceBounds, ContextAssumption DEF Symbols
<1>1. S \cap T = {}
  BY <1>0
<1>2. ASSUME NEW U \in SUBSET T
      PROVE  Cardinality(S \cup U) = Cardinality(S) + Cardinality(U)
  <2>1. IsFiniteSet(U) /\ S \cap U = {}
    BY <1>0, <1>1, FS_Subset
  <2>2. Cardinality(S \cap U) = 0 /\ Cardinality(U) \in Nat
    BY <2>1, FS_EmptySet, FS_CardinalityType
  <2>3. Cardinality(S \cup U) = Cardinality(S) + Cardinality(U) - Cardinality(S \cap U)
    BY <1>0, <2>1, FS_Union
  <2>. QED
    BY <1>0, <2>2, <2>3
<1>3. ASSUME NEW s \in S PROVE Place(S \cup T, s) = Place(S, s)
  <2>1. {t \in S \cup T : t <= s} = {t \in S : t <= s}
    BY <1>0
  <2>. QED
    BY <2>1 DEF Place
<1>4. ASSUME NEW s \in T PROVE Place(S \cup T, s) = Cardinality(S) + Place(T, s)
  <2>1. {t \in S \cup T : t <= s} = S \cup {t \in T : t <= s}
    BY <1>0
  <2>2. {t \in T : t <= s} \in SUBSET T
    OBVIOUS
  <2>. QED
    BY <1>2, <2>1, <2>2 DEF Place
<1>. QED
  BY <1>2, <1>3, <1>4

(* No answers yet, and the same answers.                                   *)
LEMMA NothingAnswered ==
    ASSUME NEW k, NEW capped, k.embedded = {}, k.answers = << >>
    PROVE  Answered(k, capped)
<1>1. k.answers \in Seq({}) /\ Len(k.answers) = 0 /\ Cardinality(k.embedded) = 0
  BY FS_EmptySet
<1>. QED
  BY <1>1 DEF Answered

LEMMA SameAnswers ==
    ASSUME NEW b, NEW capped, Answered(b, capped),
           b.at \in {"embedding", "upserting", "scoring"},
           NEW k, k.at \in {"embedding", "upserting", "scoring"},
           k.head = b.head, k.misses = b.misses, k.embedded = b.embedded,
           k.answers = b.answers, k.whole = b.whole
    PROVE  Answered(k, capped)
BY DEF Answered

(* A sequence of answers grown by one.                                     *)
LEMMA Longer ==
    ASSUME NEW a, NEW S, a \in Seq(S), NEW v, NEW T, v \in Seq(T)
    PROVE  /\ a \o v \in Seq(S \cup T) /\ Len(a \o v) = Len(a) + Len(v)
           /\ Len(a) \in Nat /\ Len(v) \in Nat
           /\ \A i \in 1..Len(a) : (a \o v)[i] = a[i]
           /\ \A i \in 1..Len(v) : (a \o v)[Len(a) + i] = v[i]
<1>1. a \in Seq(S \cup T) /\ v \in Seq(S \cup T)
  OBVIOUS
<1>. QED
  BY <1>1, ConcatProperties

LEMMA LeastSymbol ==
    ASSUME NEW T \in SUBSET Nat, T # {}
    PROVE  \E m \in T : \A d \in T : m <= d
<1>1. PICK x \in T : \A y \in T : ~(<<y, x>> \in OpToRel(<, Nat))
  BY NatLessThanWellFounded, WFMin
<1>2. \A y \in T : ~(y < x)
  BY <1>1 DEF OpToRel
<1>. QED
  BY <1>2

(* While misses are left a batch has the lowest of them. *)
LEMMA BatchesFinish ==
    ASSUME NEW b, NEW capped, BuildSound(b, capped), NextBatch(b) = {}
    PROVE  b.embedded = b.misses
<1> DEFINE left == b.misses \ b.embedded
<1> SUFFICES ASSUME left # {} PROVE FALSE
  BY DEF BuildSound
<1>1. left \in SUBSET Nat
  BY ContextAssumption DEF BuildSound, Symbols
<1>2. PICK m \in left : \A d \in left : m <= d
  BY <1>1, LeastSymbol
<1>3. {t \in left : t < m} = {}
  BY <1>1, <1>2
<1>4. Cardinality({t \in left : t < m}) < Batch
  BY <1>3, FS_EmptySet, ContextAssumption
<1>. QED
  BY <1>2, <1>4 DEF NextBatch

LEMMA BuildChange ==
    ASSUME ContextSound, VectorsSound', NEW r \in Reviews,
           NEW k, BuildSound(k, embedder.capped),
           builds' = [builds EXCEPT ![r] = k], embedder' = embedder
    PROVE  ContextSound'
BY DEF ContextSound

LEMMA IndexSound ==
    ASSUME ContextSound, NEW r \in Reviews, IndexWorkspace(r)
    PROVE  ContextSound'
<1>1. PICK h \in Heads, found \in {Symbols, Symbols \ {1}, {}} :
         builds' = [builds EXCEPT ![r] =
            [NoBuild EXCEPT !.at = "query", !.head = h, !.readable = found]]
  BY DEF IndexWorkspace, GoBuild
<1> DEFINE k == [NoBuild EXCEPT !.at = "query", !.head = h, !.readable = found]
<1>2. /\ IsBuild(k) /\ k.at = "query" /\ k.readable = found /\ k.fetched = 0
      /\ k.cached = << >> /\ k.misses = {} /\ k.embedded = {} /\ k.section = "none"
      /\ k.answers = << >>
  BY DEF NoBuild, IsBuild
<1>3. DOMAIN k.cached = {}
  BY <1>2
<1> HIDE DEF k
<1>4. BuildSound(k, embedder.capped)
  BY <1>2, <1>3 DEF BuildSound, Found, Answered
<1>5. VectorsSound' /\ embedder' = embedder
  BY DEF ContextSound, VectorsSound, IndexWorkspace, Leave
<1>. QED
  BY <1>1, <1>4, <1>5, BuildChange DEF k

LEMMA QuerySound ==
    ASSUME ContextSound, NEW r \in Reviews, EmbedQuery(r)
    PROVE  ContextSound'
<1>1. PICK b : b = builds[r]
  OBVIOUS
<1>2. BuildSound(b, embedder.capped) /\ b.at = "query"
  BY <1>1 DEF ContextSound, EmbedQuery
<1> DEFINE k == [b EXCEPT !.at = "snippets"]
<1>3. /\ IsBuild(k) /\ k.at = "snippets"
      /\ k.head = b.head /\ k.readable = b.readable /\ k.fetched = b.fetched
      /\ k.cached = b.cached /\ k.misses = b.misses /\ k.embedded = b.embedded
      /\ k.symbols = b.symbols /\ k.section = b.section
      /\ k.answers = b.answers /\ k.whole = b.whole
  BY <1>2 DEF BuildSound, IsBuild
<1>4. builds' = [builds EXCEPT ![r] = k] \/ builds' = [builds EXCEPT ![r] = NoBuild]
  BY <1>1 DEF EmbedQuery, GoBuild
<1> HIDE DEF k
<1>5. BuildSound(k, embedder.capped)
  BY <1>2, <1>3 DEF BuildSound, Found, Answered, Quoted
<1>6. VectorsSound' /\ embedder' = embedder
  BY DEF ContextSound, VectorsSound, EmbedQuery, Leave
<1>. QED
  BY <1>4, <1>5, <1>6, BuildChange, NoBuildSound

LEMMA SnippetsSound ==
    ASSUME ContextSound, NEW r \in Reviews, ComputeSnippets(r)
    PROVE  ContextSound'
<1>1. PICK b : b = builds[r]
  OBVIOUS
<1>2. BuildSound(b, embedder.capped) /\ b.at = "snippets"
  BY <1>1 DEF ContextSound, ComputeSnippets
<1> DEFINE e == [b EXCEPT !.at = "learnings", !.section = "skipped"]
           l == [b EXCEPT !.at = "learnings"]
           f == [b EXCEPT !.at = "fetching"]
           m == [b EXCEPT !.at = "embedding", !.misses = b.readable]
<1>3. \/ builds' = [builds EXCEPT ![r] = e] \/ builds' = [builds EXCEPT ![r] = l]
      \/ builds' = [builds EXCEPT ![r] = f] \/ builds' = [builds EXCEPT ![r] = m]
  BY <1>1 DEF ComputeSnippets, SkipSection, GoBuild
<1>4. BuildSound(e, embedder.capped)
  BY <1>2, SkipSound
<1>5. BuildSound(l, embedder.capped)
  <2>1. /\ IsBuild(l) /\ l.at = "learnings"
        /\ l.head = b.head /\ l.readable = b.readable /\ l.fetched = b.fetched
        /\ l.cached = b.cached /\ l.misses = b.misses /\ l.embedded = b.embedded
        /\ l.symbols = b.symbols /\ l.section = b.section
        /\ l.answers = b.answers /\ l.whole = b.whole
    BY <1>2 DEF BuildSound, IsBuild
  <2> HIDE DEF l
  <2>. QED
    BY <1>2, <2>1 DEF BuildSound, Found, Answered, Quoted
<1>6. BuildSound(f, embedder.capped)
  <2>1. /\ IsBuild(f) /\ f.at = "fetching"
        /\ f.head = b.head /\ f.readable = b.readable /\ f.fetched = b.fetched
        /\ f.cached = b.cached /\ f.misses = b.misses /\ f.embedded = b.embedded
        /\ f.symbols = b.symbols /\ f.section = b.section
        /\ f.answers = b.answers /\ f.whole = b.whole
    BY <1>2 DEF BuildSound, IsBuild
  <2> HIDE DEF f
  <2>2. {s \in b.readable : s <= 0} = {}
    BY <1>2, ContextAssumption DEF BuildSound, Symbols
  <2>. QED
    BY <1>2, <2>1, <2>2 DEF BuildSound, Found, Answered, Quoted
<1>7. BuildSound(m, embedder.capped)
  <2>1. /\ IsBuild(m) /\ m.at = "embedding"
        /\ m.head = b.head /\ m.readable = b.readable /\ m.fetched = b.fetched
        /\ m.cached = b.cached /\ m.misses = b.readable /\ m.embedded = b.embedded
        /\ m.symbols = b.symbols /\ m.section = b.section
        /\ m.answers = b.answers /\ m.whole = b.whole
    BY <1>2 DEF BuildSound, IsBuild
  <2> HIDE DEF m
  <2>2. b.embedded = {} /\ b.answers = << >>
    BY <1>2 DEF BuildSound, Answered
  <2>3. Answered(m, embedder.capped)
    BY <2>1, <2>2, NothingAnswered
  <2>. QED
    BY <1>2, <2>1, <2>3 DEF BuildSound, Found, Quoted
<1>8. VectorsSound' /\ embedder' = embedder
  BY DEF ContextSound, VectorsSound, ComputeSnippets, Leave
<1> HIDE DEF e, l, f, m
<1>. QED
  BY <1>3, <1>4, <1>5, <1>6, <1>7, <1>8, BuildChange

(* The rows of one SELECT are of the build's text or count as missing.     *)
LEMMA FetchSound ==
    ASSUME ContextSound, NEW r \in Reviews, FetchByKeys(r)
    PROVE  ContextSound'
<1>1. PICK b : b = builds[r]
  OBVIOUS
<1>2. BuildSound(b, embedder.capped) /\ b.at = "fetching"
  BY <1>1 DEF ContextSound, FetchByKeys
<1>3. PICK upto, keys, hits, found, last :
        /\ upto = b.fetched + Chunk
        /\ keys = {s \in b.readable : b.fetched < s /\ s <= upto}
        /\ hits = {s \in keys : Hit(b, s)}
        /\ found = [s \in hits |-> vectors[s]]
        /\ last = (upto >= NSymbols)
  OBVIOUS
<1> DEFINE e == [b EXCEPT !.at = "learnings", !.section = "skipped"]
           k == [b EXCEPT !.fetched = IF last THEN 0 ELSE upto,
                          !.cached = Over(found, b.cached),
                          !.misses = b.misses \cup (keys \ hits),
                          !.at = IF last THEN "embedding" ELSE "fetching"]
<1>4. builds' = [builds EXCEPT ![r] = e] \/ builds' = [builds EXCEPT ![r] = k]
  BY ZenonT(60), <1>1, <1>3 DEF FetchByKeys, SkipSection, GoBuild
<1>5. BuildSound(e, embedder.capped)
  BY <1>2, SkipSound
<1>6. BuildSound(k, embedder.capped)
  <2>1. /\ IsBuild(k) /\ k.at = (IF last THEN "embedding" ELSE "fetching")
        /\ k.fetched = (IF last THEN 0 ELSE upto)
        /\ k.cached = Over(found, b.cached) /\ k.misses = b.misses \cup (keys \ hits)
        /\ k.head = b.head /\ k.readable = b.readable /\ k.embedded = b.embedded
        /\ k.symbols = b.symbols /\ k.section = b.section
        /\ k.answers = b.answers /\ k.whole = b.whole
    BY <1>2 DEF BuildSound, IsBuild
  <2> HIDE DEF k
  <2>2. /\ \A s \in b.readable : s \in Nat /\ s <= NSymbols
        /\ b.fetched \in Nat /\ upto \in Nat /\ b.fetched <= upto /\ NSymbols \in Nat
    BY <1>2, <1>3, ContextAssumption DEF BuildSound, Symbols
  <2>3. DOMAIN k.cached = hits \cup DOMAIN b.cached
    BY <1>3, <2>1 DEF Over
  <2>4. ASSUME NEW s \in DOMAIN k.cached
        PROVE  k.cached[s].content = Snippet[k.head][s] /\ OfItsText(k.cached[s])
    <3>1. k.cached[s] = IF s \in hits THEN vectors[s] ELSE b.cached[s]
      BY <1>3, <2>1, <2>3, <2>4 DEF Over
    <3>2. CASE s \in hits
      BY <1>3, <2>1, <3>1, <3>2 DEF Hit, ContextSound, VectorsSound
    <3>3. CASE s \notin hits
      BY <1>2, <2>1, <2>3, <2>4, <3>1, <3>3 DEF BuildSound, Found, Answered
    <3>. QED
      BY <3>2, <3>3
  <2>5. DOMAIN k.cached \cup k.misses = {s \in b.readable : s <= upto}
    <3>1. DOMAIN b.cached \cup b.misses = {s \in b.readable : s <= b.fetched}
      BY <1>2 DEF BuildSound, Found, Answered
    <3>2. DOMAIN k.cached \cup k.misses = {s \in b.readable : s <= b.fetched} \cup keys
      BY <1>3, <2>1, <2>3, <3>1
    <3>3. ASSUME NEW s \in b.readable
          PROVE  s <= upto <=> s <= b.fetched \/ (b.fetched < s /\ s <= upto)
      BY <2>2
    <3>. QED
      BY <1>3, <3>2, <3>3
  <2>6. last => {s \in b.readable : s <= upto} = b.readable
    <3> SUFFICES ASSUME last PROVE \A s \in b.readable : s <= upto
      OBVIOUS
    <3>1. upto >= NSymbols
      BY <1>3
    <3>. QED
      BY <2>2, <3>1
  <2>7. Found(k)
    BY <2>1, <2>4, <2>5, <2>6 DEF Found
  <2>8. k.fetched \in Nat /\ k.misses \subseteq k.readable /\ k.embedded \subseteq k.misses
    BY <1>2, <1>3, <2>1, <2>2 DEF BuildSound
  <2>9. b.embedded = {} /\ b.answers = << >>
    BY <1>2 DEF BuildSound, Answered
  <2>10. Answered(k, embedder.capped)
    BY <2>1, <2>9, NothingAnswered
  <2>. QED
    BY <1>2, <2>1, <2>7, <2>8, <2>10 DEF BuildSound, Quoted
<1>7. VectorsSound' /\ embedder' = embedder
  BY DEF ContextSound, VectorsSound, FetchByKeys, Leave
<1> HIDE DEF e, k
<1>. QED
  BY <1>4, <1>5, <1>6, <1>7, BuildChange

LEMMA BatchPlaces ==
    ASSUME NEW b, NEW capped, BuildSound(b, capped), b.at = "embedding"
    PROVE  LET B == NextBatch(b) IN
           /\ b.embedded \in SUBSET Symbols /\ B \in SUBSET Symbols /\ B \subseteq b.misses
           /\ \A x \in b.embedded, y \in B : x < y
           /\ \A x \in B, y \in b.misses : y <= x => y \in b.embedded \cup B
<1> DEFINE left == b.misses \ b.embedded
           B == NextBatch(b)
           Below(x) == {t \in left : t < x}
<1>1. /\ b.misses \subseteq Symbols /\ b.embedded \subseteq b.misses
      /\ \A x \in Symbols : x \in Nat
      /\ \A s \in b.embedded, t \in b.misses : t <= s => t \in b.embedded
  BY ContextAssumption DEF BuildSound, Answered, Symbols
<1>2. B = {x \in left : Cardinality(Below(x)) < Batch}
  BY DEF NextBatch
<1>3. ASSUME NEW x \in b.embedded, NEW y \in B PROVE x < y
  <2>1. y \in b.misses /\ y \notin b.embedded
    BY <1>2
  <2>2. ~(y <= x)
    BY <1>1, <2>1
  <2>. QED
    BY <1>1, <2>1, <2>2
<1>4. ASSUME NEW x \in B, NEW y \in b.misses, y <= x PROVE y \in b.embedded \cup B
  <2>1. SUFFICES ASSUME y \in left PROVE y \in B
    OBVIOUS
  <2>2. Below(y) \subseteq Below(x) /\ Below(x) \in SUBSET Symbols
    BY <1>1, <1>2, <1>4
  <2>3. IsFiniteSet(Below(x))
    BY <2>2, PlaceBounds
  <2>4. /\ Cardinality(Below(y)) <= Cardinality(Below(x)) /\ IsFiniteSet(Below(y))
        /\ Cardinality(Below(x)) \in Nat
    BY <2>2, <2>3, FS_Subset, FS_CardinalityType
  <2>5. Cardinality(Below(y)) \in Nat
    BY <2>4, FS_CardinalityType
  <2>6. Cardinality(Below(x)) < Batch
    BY <1>2
  <2> HIDE DEF Below
  <2>7. Cardinality(Below(y)) < Batch
    BY <2>4, <2>5, <2>6, ContextAssumption
  <2>. QED
    BY <1>2, <2>1, <2>7
<1>. QED
  BY <1>1, <1>2, <1>3, <1>4

(* An answer in order has the vector of each symbol in its place.          *)
LEMMA InOrderPlaces ==
    ASSUME NEW b, NextBatch(b) \in SUBSET Symbols
    PROVE  /\ Len(InOrder(b)) = Cardinality(NextBatch(b))
           /\ \E S : InOrder(b) \in Seq(S)
           /\ \A s \in NextBatch(b) : InOrder(b)[Place(NextBatch(b), s)] = VectorOf(b, s)
<1>1. PICK B, n : B = NextBatch(b) /\ n = Cardinality(B)
  OBVIOUS
<1>2. n \in Nat
  BY <1>1, PlaceBounds
<1>3. InOrder(b) = [i \in 1..n |-> VectorOf(b, Nth(B, i))]
  BY <1>1 DEF InOrder
<1>4. InOrder(b) \in [1..n -> {VectorOf(b, Nth(B, i)) : i \in 1..n}]
  BY <1>3
<1>5. InOrder(b) \in Seq({VectorOf(b, Nth(B, i)) : i \in 1..n})
  BY <1>2, <1>4, SeqDef
<1>6. Len(InOrder(b)) = n
  BY <1>2, <1>4, <1>5
<1>7. ASSUME NEW s \in B PROVE InOrder(b)[Place(B, s)] = VectorOf(b, s)
  <2>1. Place(B, s) \in 1..n /\ Nth(B, Place(B, s)) = s
    BY <1>1, <1>2, PlaceBounds, NthPlace
  <2>. QED
    BY <1>3, <2>1
<1>. QED
  BY <1>1, <1>5, <1>6, <1>7

LEMMA CappedCut ==
    ASSUME NEW text PROVE Capped(text) = Cut(embedder.capped, text)
BY DEF Capped, Cut

(* The answers the model takes into account are sequences.                 *)
LEMMA AnswersAre ==
    ASSUME NEW S, NEW vs \in Seq(S), vs # << >>, NEW a \in Answers(vs)
    PROVE  a \in Seq(S)
<1>1. Len(vs) \in Nat \ {0} /\ \A i \in 1..Len(vs) : vs[i] \in S
  OBVIOUS
<1>2. Tail(vs) \in Seq(S)
  BY <1>1
<1>3. SubSeq(vs, 1, Len(vs) - 1) \in Seq(S)
  BY <1>1, SubSeqProperties
<1>4. Append(vs, vs[1]) \in Seq(S)
  BY <1>1
<1>5. [i \in 1..Len(vs) |-> vs[Len(vs) + 1 - i]] \in Seq(S)
  <2>1. \A i \in 1..Len(vs) : Len(vs) + 1 - i \in 1..Len(vs)
    BY <1>1
  <2>2. [i \in 1..Len(vs) |-> vs[Len(vs) + 1 - i]] \in [1..Len(vs) -> S]
    BY <1>1, <2>1
  <2>. QED
    BY <1>1, <2>2, SeqDef
<1>. QED
  BY <1>2, <1>3, <1>4, <1>5 DEF Answers

LEMMA BatchSound ==
    ASSUME ContextSound, NEW r \in Reviews, EmbedBatch(r)
    PROVE  ContextSound'
<1>1. PICK b, B : b = builds[r] /\ B = NextBatch(b)
  OBVIOUS
<1>2. BuildSound(b, embedder.capped) /\ b.at = "embedding"
  BY <1>1 DEF ContextSound, EmbedBatch
<1>3. PICK place : place = IF embedder.shared /\ DOMAIN Newly(b) # {}
                           THEN "upserting" ELSE "scoring"
  OBVIOUS
<1> DEFINE e == [b EXCEPT !.at = "learnings", !.section = "skipped"]
           n(a) == [b EXCEPT !.embedded = b.embedded \cup B, !.answers = b.answers \o a,
                             !.whole = b.whole /\ a = InOrder(b)]
           d == [b EXCEPT !.at = place]
<1>4. \/ builds' = [builds EXCEPT ![r] = e]
      \/ /\ B # {}
         /\ \E a \in Answers(InOrder(b)) : builds' = [builds EXCEPT ![r] = n(a)]
      \/ B = {} /\ builds' = [builds EXCEPT ![r] = d]
  BY <1>1, <1>3 DEF EmbedBatch, SkipSection, GoBuild
<1>5. BuildSound(e, embedder.capped)
  BY <1>2, SkipSound
<1>6. ASSUME NEW a \in Answers(InOrder(b)), B # {} PROVE BuildSound(n(a), embedder.capped)
  <2>0. PICK k : k = n(a)
    OBVIOUS
  <2>1. /\ IsBuild(k) /\ k.at = b.at /\ k.embedded = b.embedded \cup B
        /\ k.answers = b.answers \o a /\ k.whole = (b.whole /\ a = InOrder(b))
        /\ k.head = b.head /\ k.readable = b.readable /\ k.fetched = b.fetched
        /\ k.cached = b.cached /\ k.misses = b.misses
        /\ k.symbols = b.symbols /\ k.section = b.section
    BY <1>2, <2>0 DEF BuildSound, IsBuild
  <2> HIDE DEF n
  <2>2. /\ b.embedded \in SUBSET Symbols /\ B \in SUBSET Symbols /\ B \subseteq b.misses
        /\ \A x \in b.embedded, y \in B : x < y
        /\ \A x \in B, y \in b.misses : y <= x => y \in b.embedded \cup B
    BY <1>1, <1>2, BatchPlaces
  <2>3. /\ Len(InOrder(b)) = Cardinality(B) /\ \E S : InOrder(b) \in Seq(S)
        /\ \A s \in B : InOrder(b)[Place(B, s)] = VectorOf(b, s)
    BY <1>1, <2>2, InOrderPlaces
  <2>4. PICK S : b.answers \in Seq(S)
    BY <1>2 DEF BuildSound, Answered
  <2>5. PICK T : a \in Seq(T)
    <3>1. Cardinality(B) # 0
      BY <1>6, <2>2, PlaceBounds, FS_EmptySet
    <3>2. InOrder(b) # << >>
      BY <2>3, <3>1
    <3>. QED
      BY <2>3, <3>2, AnswersAre
  <2>6. /\ b.answers \o a \in Seq(S \cup T)
        /\ Len(b.answers \o a) = Len(b.answers) + Len(a)
        /\ Len(b.answers) \in Nat /\ Len(a) \in Nat
        /\ \A i \in 1..Len(b.answers) : (b.answers \o a)[i] = b.answers[i]
        /\ \A i \in 1..Len(a) : (b.answers \o a)[Len(b.answers) + i] = a[i]
    BY <2>4, <2>5, Longer
  <2>7. \A s \in k.embedded, t \in k.misses : t <= s => t \in k.embedded
    BY <1>2, <2>1, <2>2 DEF BuildSound, Answered
  <2>8. ASSUME k.whole
        PROVE  /\ Len(k.answers) = Cardinality(k.embedded)
               /\ \A s \in k.embedded : k.answers[Place(k.embedded, s)].of
                                         = Cut(embedder.capped, Snippet[k.head][s])
    <3>1. /\ b.whole /\ a = InOrder(b) /\ Len(b.answers) = Cardinality(b.embedded)
          /\ \A s \in b.embedded : b.answers[Place(b.embedded, s)].of
                                    = Cut(embedder.capped, Snippet[b.head][s])
      BY <1>2, <2>1, <2>8 DEF BuildSound, Answered
    <3>2. /\ Cardinality(b.embedded \cup B) = Cardinality(b.embedded) + Cardinality(B)
          /\ \A s \in b.embedded : Place(b.embedded \cup B, s) = Place(b.embedded, s)
          /\ \A s \in B : Place(b.embedded \cup B, s)
                           = Cardinality(b.embedded) + Place(B, s)
      BY <2>2, PlaceAfter
    <3>3. ASSUME NEW s \in b.embedded
          PROVE  k.answers[Place(k.embedded, s)].of = Cut(embedder.capped, Snippet[k.head][s])
      <4>1. Place(b.embedded, s) \in 1..Len(b.answers)
        BY <2>2, <2>6, <3>1, PlaceBounds
      <4>. QED
        <5>1. /\ Place(k.embedded, s) = Place(b.embedded, s)
              /\ k.answers[Place(b.embedded, s)] = b.answers[Place(b.embedded, s)]
          BY <2>1, <2>6, <3>2, <4>1
        <5>. QED
          BY <2>1, <3>1, <5>1
    <3>4. ASSUME NEW s \in B
          PROVE  k.answers[Place(k.embedded, s)].of = Cut(embedder.capped, Snippet[k.head][s])
      <4>1. Place(B, s) \in 1..Len(a)
        <5>1. Place(B, s) \in Nat /\ 1 <= Place(B, s) /\ Place(B, s) <= Cardinality(B)
          BY <2>2, PlaceBounds
        <5>2. Len(a) = Cardinality(B)
          BY <2>3, <3>1
        <5>. QED
          BY <2>6, <5>1, <5>2
      <4>2. k.answers[Place(k.embedded, s)] = VectorOf(b, s)
        <5>1. Place(k.embedded, s) = Len(b.answers) + Place(B, s)
          BY <2>1, <3>1, <3>2
        <5>2. k.answers[Len(b.answers) + Place(B, s)] = a[Place(B, s)]
          BY <2>1, <2>6, <4>1
        <5>. QED
          BY <2>3, <3>1, <5>1, <5>2
      <4>. QED
        BY <2>1, <4>2, CappedCut DEF VectorOf
    <3>. QED
      BY <2>1, <2>3, <2>6, <3>1, <3>2, <3>3, <3>4
  <2>9. Answered(k, embedder.capped)
    <3>1. k.at = "embedding" /\ \E U : k.answers \in Seq(U)
      BY <1>2, <2>1, <2>6
    <3>. QED
      BY <2>7, <2>8, <3>1 DEF Answered
  <2>10. BuildSound(k, embedder.capped)
    BY <1>2, <2>1, <2>2, <2>9 DEF BuildSound, Found, Quoted
  <2>. QED
    BY <2>0, <2>10
<1>7. ASSUME B = {} PROVE BuildSound(d, embedder.capped)
  <2>1. /\ IsBuild(d) /\ d.at = place
        /\ d.head = b.head /\ d.readable = b.readable /\ d.fetched = b.fetched
        /\ d.cached = b.cached /\ d.misses = b.misses /\ d.embedded = b.embedded
        /\ d.symbols = b.symbols /\ d.section = b.section
        /\ d.answers = b.answers /\ d.whole = b.whole
    BY <1>2 DEF BuildSound, IsBuild
  <2> HIDE DEF d
  <2>2. b.embedded = b.misses
    BY <1>1, <1>2, <1>7, BatchesFinish
  <2>3. d.at \in {"upserting", "scoring"}
    BY <1>3, <2>1
  <2>. QED
    <3>1. Answered(b, embedder.capped)
      BY <1>2 DEF BuildSound
    <3>2. Answered(d, embedder.capped)
      BY <1>2, <2>1, <2>3, <3>1, SameAnswers
    <3>. QED
      BY <1>2, <2>1, <2>2, <2>3, <3>2 DEF BuildSound, Found, Quoted
<1>8. VectorsSound' /\ embedder' = embedder
  BY DEF ContextSound, VectorsSound, EmbedBatch, Leave
<1> HIDE DEF e, n, d
<1>. QED
  BY <1>4, <1>5, <1>6, <1>7, <1>8, BuildChange

(* The rows that are made of all answers.                                  *)
LEMMA NewlyRows ==
    ASSUME NEW b, BuildSound(b, embedder.capped), b.at \in {"upserting", "scoring"}
    PROVE  /\ DOMAIN Newly(b) \subseteq b.embedded
           /\ b.whole => DOMAIN Newly(b) = b.embedded
           /\ \A s \in DOMAIN Newly(b) :
                 LET own == Snippet[b.head][s] IN
                 /\ OfItsText(Newly(b)[s])
                 /\ Newly(b)[s].content \in {own, <<own[1], "">>}
<1>1. /\ DOMAIN Newly(b) = {t \in b.embedded : Place(b.misses, t) <= Len(b.answers)}
      /\ \A s \in DOMAIN Newly(b) :
            /\ Newly(b)[s].content = Capped(Snippet[b.head][s])
            /\ Newly(b)[s].vector = b.answers[Place(b.misses, s)]
            /\ Newly(b)[s].whole = b.whole
  BY DEF Newly
<1>2. /\ b.embedded = b.misses /\ b.embedded \in SUBSET Symbols
      /\ b.whole => /\ Len(b.answers) = Cardinality(b.embedded)
                    /\ \A s \in b.embedded : b.answers[Place(b.embedded, s)].of
                                              = Cut(embedder.capped, Snippet[b.head][s])
  BY DEF BuildSound, Answered
<1>3. b.whole => DOMAIN Newly(b) = b.embedded
  BY <1>1, <1>2, PlaceBounds
<1>4. ASSUME NEW s \in DOMAIN Newly(b)
      PROVE  /\ OfItsText(Newly(b)[s])
             /\ Newly(b)[s].content \in {Snippet[b.head][s], <<Snippet[b.head][s][1], "">>}
  <2>1. s \in b.embedded
    BY <1>1
  <2>2. Newly(b)[s].content = Cut(embedder.capped, Snippet[b.head][s])
    BY <1>1, CappedCut
  <2>. QED
    <3>1. Newly(b)[s].content \in {Snippet[b.head][s], <<Snippet[b.head][s][1], "">>}
      BY <2>2 DEF Cut
    <3>2. ASSUME b.whole PROVE Newly(b)[s].vector.of = Newly(b)[s].content
      <4>1. Newly(b)[s].vector = b.answers[Place(b.embedded, s)]
        BY <1>1, <1>2
      <4>. QED
        BY <1>2, <2>1, <2>2, <3>2, <4>1
    <3>3. Newly(b)[s].whole = b.whole
      BY <1>1
    <3>. QED
      BY <3>1, <3>2, <3>3 DEF OfItsText
<1>. QED
  BY <1>1, <1>3, <1>4

LEMMA UpsertSound ==
    ASSUME ContextSound, NEW r \in Reviews, Upsert(r)
    PROVE  ContextSound'
<1>1. PICK b : b = builds[r]
  OBVIOUS
<1>2. BuildSound(b, embedder.capped) /\ b.at = "upserting"
  BY <1>1 DEF ContextSound, Upsert
<1> DEFINE e == [b EXCEPT !.at = "learnings", !.section = "skipped"]
           k == [b EXCEPT !.at = "scoring"]
<1>3. \/ /\ builds' = [builds EXCEPT ![r] = e] /\ vectors' = vectors
      \/ /\ builds' = [builds EXCEPT ![r] = k]
         /\ vectors' = Over(Newly(b), vectors)
  BY <1>1 DEF Upsert, SkipSection, GoBuild
<1>4. BuildSound(e, embedder.capped)
  BY <1>2, SkipSound
<1>5. BuildSound(k, embedder.capped)
  <2>1. /\ IsBuild(k) /\ k.at = "scoring"
        /\ k.head = b.head /\ k.readable = b.readable /\ k.fetched = b.fetched
        /\ k.cached = b.cached /\ k.misses = b.misses /\ k.embedded = b.embedded
        /\ k.symbols = b.symbols /\ k.section = b.section
        /\ k.answers = b.answers /\ k.whole = b.whole
    BY <1>2 DEF BuildSound, IsBuild
  <2> HIDE DEF k
  <2>. QED
    <3>1. Answered(b, embedder.capped)
      BY <1>2 DEF BuildSound
    <3>2. Answered(k, embedder.capped)
      BY <1>2, <2>1, <3>1, SameAnswers
    <3>. QED
      BY <1>2, <2>1, <3>2 DEF BuildSound, Found, Quoted
<1>6. VectorsSound' /\ embedder' = embedder
  <2>0. embedder' = embedder
    BY DEF Upsert
  <2>1. CASE vectors' = vectors
    BY <2>0, <2>1 DEF ContextSound, VectorsSound
  <2>2. CASE vectors' = Over(Newly(b), vectors)
    <3>1. ASSUME NEW s \in DOMAIN vectors'
          PROVE  \/ s \in DOMAIN Newly(b) /\ vectors'[s] = Newly(b)[s]
                 \/ s \in DOMAIN vectors /\ vectors'[s] = vectors[s]
      BY <2>2, <3>1 DEF Over
    <3>. QED
      BY <1>2, <2>0, <3>1, NewlyRows DEF ContextSound, VectorsSound
  <2>. QED
    BY <1>3, <2>0, <2>1, <2>2
<1> HIDE DEF e, k
<1>. QED
  BY <1>3, <1>4, <1>5, <1>6, BuildChange

LEMMA ScoreSound ==
    ASSUME ContextSound, NEW r \in Reviews, Score(r)
    PROVE  ContextSound'
<1>1. PICK b : b = builds[r]
  OBVIOUS
<1>2. BuildSound(b, embedder.capped) /\ b.at = "scoring"
  BY <1>1 DEF ContextSound, Score
<1>3. PICK all : all = Candidates(b)
  OBVIOUS
<1>4. b.whole => DOMAIN all = b.readable
  <2>1. DOMAIN all = DOMAIN Newly(b) \cup DOMAIN b.cached
    BY <1>3 DEF Candidates, Over
  <2>2. b.embedded = b.misses /\ DOMAIN b.cached \cup b.misses = b.readable
    BY <1>2 DEF BuildSound, Found
  <2>3. b.whole => DOMAIN Newly(b) = b.embedded
    BY <1>2, NewlyRows
  <2>. QED
    BY <2>1, <2>2, <2>3
<1>5. ASSUME NEW s \in DOMAIN all
      PROVE  LET own == Snippet[b.head][s] IN
             all[s].content \in {own, <<own[1], "">>} /\ OfItsText(all[s])
  <2>1. \/ s \in DOMAIN Newly(b) /\ all[s] = Newly(b)[s]
        \/ s \in DOMAIN b.cached /\ all[s] = b.cached[s]
    BY <1>3, <1>5 DEF Candidates, Over
  <2>2. CASE s \in DOMAIN Newly(b) /\ all[s] = Newly(b)[s]
    BY <1>2, <2>2, NewlyRows
  <2>3. CASE s \in DOMAIN b.cached /\ all[s] = b.cached[s]
    BY <1>2, <2>3 DEF BuildSound, Found
  <2>. QED
    BY <2>1, <2>2, <2>3
<1> DEFINE k(top) == [NoBuild EXCEPT !.at = "learnings", !.section = "scored",
                         !.head = b.head, !.readable = b.readable,
                         !.whole = b.whole, !.symbols = Restrict(all, top)]
<1>6. PICK top \in kSubset(Min({TopK, Cardinality(DOMAIN all)}), DOMAIN all) :
        builds' = [builds EXCEPT ![r] = k(top)]
  BY <1>1, <1>3 DEF Score, GoBuild
<1>7. top \subseteq DOMAIN all /\ Cardinality(top) = Min({TopK, Cardinality(DOMAIN all)})
  BY <1>6 DEF kSubset
<1>8. PICK m : m = k(top)
  OBVIOUS
<1>9. /\ IsBuild(m) /\ m.at = "learnings" /\ m.section = "scored"
      /\ m.symbols = Restrict(all, top) /\ m.whole = b.whole
      /\ m.head = b.head /\ m.readable = b.readable /\ m.fetched = 0
      /\ m.cached = << >> /\ m.misses = {} /\ m.embedded = {}
  BY <1>8 DEF NoBuild, IsBuild
<1> HIDE DEF k
<1>10. DOMAIN m.symbols = top /\ \A s \in top : m.symbols[s] = all[s]
  BY <1>9 DEF Restrict
<1>11. Quoted(m)
  BY <1>4, <1>5, <1>7, <1>9, <1>10 DEF Quoted
<1>12. DOMAIN m.cached = {}
  BY <1>9
<1>13. BuildSound(m, embedder.capped)
  BY <1>2, <1>9, <1>11, <1>12 DEF BuildSound, Found, Answered
<1>14. VectorsSound' /\ embedder' = embedder
  BY DEF ContextSound, VectorsSound, Score, Leave
<1>. QED
  BY <1>6, <1>8, <1>13, <1>14, BuildChange

LEMMA QueryLearningsSound ==
    ASSUME ContextSound, NEW r \in Reviews, QueryLearnings(r)
    PROVE  ContextSound'
<1>1. PICK b : b = builds[r]
  OBVIOUS
<1>2. BuildSound(b, embedder.capped)
  BY <1>1 DEF ContextSound
<1>3. PICK top : builds' = [builds EXCEPT ![r] = [b EXCEPT !.at = "done", !.learnings = top]]
  BY <1>1 DEF QueryLearnings, GoBuild
<1> DEFINE k == [b EXCEPT !.at = "done", !.learnings = top]
<1>4. /\ IsBuild(k) /\ k.at = "done" /\ k.section = b.section /\ k.symbols = b.symbols
      /\ k.answers = b.answers /\ k.whole = b.whole
      /\ k.head = b.head /\ k.readable = b.readable /\ k.fetched = b.fetched
      /\ k.cached = b.cached /\ k.misses = b.misses /\ k.embedded = b.embedded
  BY <1>2 DEF BuildSound, IsBuild
<1> HIDE DEF k
<1>5. BuildSound(k, embedder.capped)
  BY <1>2, <1>4 DEF BuildSound, Found, Answered, Quoted
<1>6. VectorsSound' /\ embedder' = embedder
  BY DEF ContextSound, VectorsSound, QueryLearnings, Leave
<1>. QED
  BY <1>3, <1>5, <1>6, BuildChange DEF k

(* A review's prompt quotes its own head whatever the other reviews write  *)
(* into the shared rows between its lookup, its upsert and its scoring,    *)
(* whatever the process's earlier models and caps left there, and whatever *)
(* the embedding server answers; the vector of a row is that of the row's  *)
(* own text, and no readable symbol is missing below TopK, unless such an  *)
(* answer came between.                                                    *)
THEOREM ContextsOwnHead == Spec => []ContextIsOfThisHead
<1>1. Init => ContextSound
  BY NoBuildSound DEF Init, ContextSound, VectorsSound
<1>2. ContextSound /\ [Next]_vars => ContextSound'
  <2> SUFFICES ASSUME ContextSound, [Next]_vars PROVE ContextSound'
    OBVIOUS
  <2>1. CASE UNCHANGED <<embedder, vectors, builds>>
    BY <2>1 DEF ContextSound, VectorsSound
  <2>2. ASSUME NEW r \in Reviews, FormatRepoContext(r) PROVE ContextSound'
    <3>1. /\ VectorsSound' /\ builds' = [builds EXCEPT ![r] = NoBuild]
          /\ embedder' = embedder
      BY <2>2 DEF ContextSound, VectorsSound, FormatRepoContext, GoBuild, Leave
    <3>. QED
      BY <3>1, NoBuildSound, BuildChange
  <2>3. CASE Restart
    BY <2>3, NoBuildSound DEF Restart, ContextSound, VectorsSound
  <2>4. CASE (LearningsNext /\ UNCHANGED contextVars) \/ UNCHANGED vars
    BY <2>1, <2>4 DEF contextVars, vars
  <2>5. ASSUME NEW r \in Reviews,
               \/ IndexWorkspace(r) \/ EmbedQuery(r) \/ ComputeSnippets(r)
               \/ FetchByKeys(r) \/ EmbedBatch(r) \/ Upsert(r) \/ Score(r)
               \/ QueryLearnings(r) \/ FormatRepoContext(r)
        PROVE  ContextSound'
    BY <2>2, <2>5, IndexSound, QuerySound, SnippetsSound, FetchSound, BatchSound,
       UpsertSound, ScoreSound, QueryLearningsSound
  <2>. QED
    BY <2>3, <2>4, <2>5 DEF Next
<1>3. ContextSound => ContextIsOfThisHead
  BY DEF ContextSound, BuildSound, Quoted, OfItsText, ContextIsOfThisHead
<1>. QED
  BY <1>1, <1>2, <1>3, PTL DEF Spec
=============================================================================
