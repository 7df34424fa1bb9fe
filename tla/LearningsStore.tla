--------------------------- MODULE LearningsStore ---------------------------
(***************************************************************************)
(* What the bot was told to remember: the learnings stores of ar-index     *)
(* (learnings.rs, sqlite_learnings.rs, dynamodb_learnings.rs), the chat    *)
(* commands `remember` and `forget` that change them (ar-chat handler.rs)  *)
(* and `auto-review learnings forget` (ar-cli commands.rs), which works on *)
(* the SQLite file beside the running gateway.                             *)
(*                                                                         *)
(* Chat commands run concurrently.  The in-memory and the SQLite store add *)
(* a learning in one step, DynamoDB allocates the id in one call and puts  *)
(* the item in another; the AWS client sends a call again whose answer it  *)
(* did not get, and the first copy may arrive long after.                  *)
(***************************************************************************)
EXTENDS Naturals, FiniteSets, FiniteSetsExt

CONSTANTS
    Backends,       \* the stores an operator may configure
    Chats,          \* chat commands in flight
    Texts,          \* what people ask the bot to remember
    TooLong,        \* those texts over REMEMBER_MAX_BYTES
    MaxId,          \* bound: ids 1..MaxId are handed out
    ScanPage,       \* learnings that fit one page of a DynamoDB scan
    MaxJobs         \* bound: chat commands and reviews that are started

ASSUME LearningsAssumption ==
    /\ Backends \subseteq {"memory", "sqlite", "dynamodb"}
    /\ TooLong \subseteq Texts
    /\ MaxId \in Nat /\ ScanPage \in Nat /\ MaxJobs \in Nat

VARIABLES
    backend,    \* the store in use
    nextId,     \* next_id, sqlite_sequence + 1, or the __counter item + 1
    rows,       \* the records: [id, text, again]; `again` is history: put
                \* there by a copy that arrived late
    late,       \* puts of which another copy may still arrive: [id, text]
    chats,      \* chats[c]: the command's place and locals
    told,       \* history variable: [id, text] the bot has named in a reply
    forgotten,  \* history variable: ids the bot has said it forgot
    started     \* chat commands and reviews started

learningVars == <<backend, nextId, rows, late, chats, told, forgotten>>

Ids == 1..MaxId
Idle == [at |-> "idle", text |-> "none", id |-> 0]

LearningsInit ==
    /\ backend \in Backends
    /\ nextId = 1
    /\ rows = {} /\ late = {} /\ told = {} /\ forgotten = {}
    /\ chats = [c \in Chats |-> Idle]

Go(c, chat) == chats' = [chats EXCEPT ![c] = chat]
(* What a command remembers, and the store with it. *)
Learning(chat) == [id |-> chat.id, text |-> chat.text]
With(learning, again) ==
    {r \in rows : r.id # learning.id}
    \cup {[id |-> learning.id, text |-> learning.text, again |-> again]}

Begin == started < MaxJobs /\ started' = started + 1

(* What list() returns.  DynamoDbLearningsStore scans one page and never   *)
(* asks for the next, whatever LastEvaluatedKey says.                      *)
Listings ==
    IF backend = "dynamodb" /\ Cardinality(rows) > ScanPage
    THEN kSubset(ScanPage, rows)
    ELSE {rows}

(***************************************************************************)
(* remember                                                                *)
(***************************************************************************)
(* handle_remember refuses a text that is too long; embed may fail, and a  *)
(* missing Embedding tier gives an empty vector.                           *)
Remember(c) ==
    /\ chats[c].at = "idle"
    /\ Begin
    /\ \E t \in Texts :
          \/ t \in TooLong /\ Go(c, Idle)
          \/ t \notin TooLong
             /\ Go(c, [Idle EXCEPT !.at = "adding", !.text = t])
          \/ t \notin TooLong /\ Go(c, Idle)    \* embed failed
    /\ UNCHANGED <<backend, nextId, rows, late, told, forgotten>>

(* next_id under the lock, AUTOINCREMENT, or ADD next_id :one returning    *)
(* the updated value: never an id that was handed out before.              *)
FreshId == nextId

(* LearningsStore::add of the in-memory and the SQLite store: one step. *)
Add(c) ==
    /\ chats[c].at = "adding" /\ backend # "dynamodb"
    /\ FreshId <= MaxId
    /\ \/ /\ rows' = With([id |-> FreshId, text |-> chats[c].text], FALSE)
          /\ nextId' = nextId + 1
          /\ Go(c, [chats[c] EXCEPT !.at = "remembered", !.id = FreshId])
       \/ Go(c, Idle) /\ UNCHANGED <<nextId, rows>>   \* LearningsError::Storage
    /\ UNCHANGED <<backend, late, told, forgotten, started>>

(* Mutant: the counter read by one call and written back by another, whose *)
(* update is lost.                                                         *)
AllocateIdReadOnly(c) ==
    /\ chats[c].at = "adding" /\ backend = "dynamodb"
    /\ FreshId <= MaxId
    /\ Go(c, [chats[c] EXCEPT !.at = "putting", !.id = FreshId])
    /\ UNCHANGED <<backend, nextId, rows, late, told, forgotten, started>>

(* DynamoDbLearningsStore::add, its first call.  It may fail before or     *)
(* after it took effect; a copy that is sent again skips an id.            *)
AllocateId(c) ==
    /\ chats[c].at = "adding" /\ backend = "dynamodb"
    /\ FreshId <= MaxId
    /\ \/ /\ nextId' = nextId + 1
          /\ Go(c, [chats[c] EXCEPT !.at = "putting", !.id = FreshId])
       \/ Go(c, Idle) /\ nextId' \in {nextId, nextId + 1}
    /\ UNCHANGED <<backend, rows, late, told, forgotten, started>>

(* put_item replaces an item with the same key.  The call may fail before  *)
(* or after the item is there, and whether it fails or not, a copy whose   *)
(* answer was not received may be still on its way.                        *)
PutLearning(c) ==
    LET item == Learning(chats[c]) IN
    /\ chats[c].at = "putting"
    /\ \/ rows' = With(item, FALSE) /\ Go(c, [chats[c] EXCEPT !.at = "remembered"])
       \/ rows' \in {rows, With(item, FALSE)} /\ Go(c, Idle)
    /\ late' \in {late, late \cup {item}}
    /\ UNCHANGED <<backend, nextId, told, forgotten, started>>

(* Such a copy arrives; it puts the item whatever happened since. *)
LatePut ==
    /\ \E item \in late : rows' = With(item, TRUE) /\ late' = late \ {item}
    /\ UNCHANGED <<backend, nextId, chats, told, forgotten, started>>

(* "Remembered as learning #id": posted, or lost with the failed call. *)
ReplyRemembered(c) ==
    /\ chats[c].at = "remembered"
    /\ Go(c, Idle)
    /\ told' \in {told, told \cup {Learning(chats[c])}}
    /\ UNCHANGED <<backend, nextId, rows, late, forgotten, started>>

(***************************************************************************)
(* forget                                                                  *)
(***************************************************************************)
(* Mutant: DeleteItem reported as done whether or not it removed an item. *)
RemovedAlways(id) == rows' = {r \in rows : r.id # id}

(* LearningsStore::remove, when it returns Ok: a row was there. *)
Removed(id) ==
    /\ \E r \in rows : r.id = id
    /\ rows' = {r \in rows : r.id # id}

(* handle_forget: removed, not found (answered, nothing to forget), or a   *)
(* storage error.  DynamoDB may have removed the item in a call that then  *)
(* failed, or whose repeat found nothing.                                  *)
Forget(c) ==
    /\ chats[c].at = "idle"
    /\ Begin
    /\ \E id \in Ids :
          \/ Removed(id) /\ Go(c, [Idle EXCEPT !.at = "forgot", !.id = id])
          \/ Removed(id) /\ backend = "dynamodb" /\ Go(c, Idle)
          \/ Go(c, Idle) /\ UNCHANGED rows
    /\ UNCHANGED <<backend, nextId, late, told, forgotten>>

ReplyForgotten(c) ==
    /\ chats[c].at = "forgot"
    /\ Go(c, Idle)
    /\ forgotten' \in {forgotten, forgotten \cup {chats[c].id}}
    /\ UNCHANGED <<backend, nextId, rows, late, told, started>>

(* `auto-review learnings forget`, printed on the operator's terminal. *)
ForgetLearning ==
    /\ backend = "sqlite"
    /\ Begin
    /\ \E id \in Ids :
          Removed(id) /\ forgotten' = forgotten \cup {id}
    /\ UNCHANGED <<backend, nextId, late, chats, told>>

(***************************************************************************)
(* A restart drops the commands in flight.  The in-memory store starts     *)
(* again at id 1, and what was told before it is void.  A copy of a put    *)
(* that is on its way arrives all the same.                                *)
(***************************************************************************)
RestartLearnings ==
    /\ chats' = [c \in Chats |-> Idle]
    /\ UNCHANGED <<backend, late>>
    /\ IF backend = "memory"
       THEN nextId' = 1 /\ rows' = {} /\ told' = {} /\ forgotten' = {}
       ELSE UNCHANGED <<nextId, rows, told, forgotten>>

LearningsNext ==
    \/ \E c \in Chats :
          \/ Remember(c) \/ Add(c) \/ AllocateId(c) \/ PutLearning(c)
          \/ ReplyRemembered(c) \/ Forget(c) \/ ReplyForgotten(c)
    \/ ForgetLearning \/ LatePut

(* An id names one learning for as long as the store lives: no two replies,*)
(* and no reply and stored record, use one id for different texts, so a    *)
(* `forget` of the id a user was given can only remove what they meant,    *)
(* whatever was remembered, forgotten or lost in between                   *)
(* (handler.rs handle_remember; sqlite_learnings.rs AUTOINCREMENT;         *)
(* dynamodb_learnings.rs allocate_id apart from put_learning).             *)
IdNamesOneText ==
    \A x, y \in told \cup rows : x.id = y.id => x.text = y.text

(* What the bot said it forgot does not come back through any command: a   *)
(* stored record whose id was answered as forgotten was put there by a     *)
(* late copy of the put of that id, which DynamoDB's client sent again;    *)
(* the memory and the SQLite store have no such record at all, and nor has *)
(* any store through a put that was merely under way while the id was      *)
(* forgotten (handler.rs handle_forget; dynamodb_learnings.rs              *)
(* remove_learning reports whether an item was there).                     *)
ForgottenStaysOut ==
    \A r \in rows : r.id \in forgotten => r.again /\ backend = "dynamodb"
=============================================================================
