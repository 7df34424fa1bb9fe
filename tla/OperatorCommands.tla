-------------------------- MODULE OperatorCommands --------------------------
(***************************************************************************)
(* `auto-review webhook register`, `list` and `unregister`                *)
(* (ar-cli/src/commands.rs) against a repository whose webhooks others     *)
(* change as well.  Module HostCalls has the paging of the listing.        *)
(***************************************************************************)
EXTENDS HostCalls, SequencesExt

CONSTANTS
    Operators,      \* invocations of the command line
    FirstHooks,     \* webhooks on the repository at the start: [id, ours]
    MaxHooks        \* bound: webhooks ever registered

ASSUME OperatorAssumption ==
    /\ FirstHooks \in Seq([id : Nat, ours : BOOLEAN])
    /\ \A i \in 1..Len(FirstHooks) : FirstHooks[i].id = i
    /\ MaxHooks \in Nat

VARIABLES
    hooks,      \* the repository's webhooks, oldest first
    nextHook,   \* the id the forge gives the next one
    cmd         \* cmd[o]: the command's place and locals

hookVars == <<hooks, nextHook, cmd>>

(* `ours`: the URL contains the needle of --match-url. *)
Ours(list) == {list[i].id : i \in {k \in 1..Len(list) : list[k].ours}}
IdsOf(list) == {list[i].id : i \in 1..Len(list)}

NoCommand == [name |-> "none", pc |-> "idle", page |-> 1, found |-> <<>>,
              todo |-> <<>>, began |-> {}, ours |-> {}, raced |-> FALSE,
              exit |-> "none"]

(* The process is gone; what it set out to do is kept for the properties. *)
Ended(c, code) ==
    [NoCommand EXCEPT !.pc = "ended", !.exit = code, !.name = c.name,
        !.ours = IF code = "ok" THEN c.ours ELSE {}, !.raced = c.raced]

Exit(o, code) == cmd' = [cmd EXCEPT ![o] = Ended(@, code)]

(* The forge forgets a webhook; whoever is reading pages may miss the one  *)
(* that moves up.                                                          *)
Dropped(id) ==
    \E i \in 1..Len(hooks) : hooks[i].id = id /\ hooks' = RemoveAt(hooks, i)
Listing(o) == cmd[o].pc = "listing"
Raced(cmds) == [o \in Operators |->
                  IF Listing(o) THEN [cmds[o] EXCEPT !.raced = TRUE] ELSE cmds[o]]

(* register_webhook: an empty or short secret is refused; an existing      *)
(* webhook is not looked for.  The answer may be lost.                     *)
RegisterWebhook(o) ==
    /\ cmd[o].pc = "idle"
    /\ \E secret \in {"blank", "short", "long"} :
          \/ /\ secret # "long"
             /\ Exit(o, "refused") /\ UNCHANGED <<hooks, nextHook>>
          \/ /\ secret = "long" /\ nextHook <= MaxHooks
             /\ hooks' = Append(hooks, [id |-> nextHook, ours |-> TRUE])
             /\ nextHook' = nextHook + 1
             /\ Exit(o, "ok") \/ Exit(o, "error")
          \/ /\ secret = "long"
             /\ Exit(o, "error") /\ UNCHANGED <<hooks, nextHook>>

(* list_webhooks, and unregister_webhook with --match-url or with --id. *)
StartListing(o, name) ==
    /\ cmd[o].pc = "idle"
    /\ cmd' = [cmd EXCEPT ![o] = [NoCommand EXCEPT !.name = name, !.pc = "listing",
                  !.began = IdsOf(hooks), !.ours = Ours(hooks)]]
    /\ UNCHANGED <<hooks, nextHook>>

UnregisterById(o) ==
    /\ cmd[o].pc = "idle"
    /\ \E id \in 1..MaxHooks :
          cmd' = [cmd EXCEPT ![o] = [NoCommand EXCEPT !.name = "id",
                     !.pc = "deleting", !.todo = <<id>>]]
    /\ UNCHANGED <<hooks, nextHook>>

(* The ids of the webhooks that matched, in the order of the list. *)
MatchedIds(found) ==
    LET ids[n \in 0..Len(found)] ==
            IF n = 0 THEN <<>>
            ELSE IF found[n].ours THEN Append(ids[n - 1], found[n].id) ELSE ids[n - 1]
    IN  ids[Len(found)]

(* What a command does with the whole list. *)
Listed(c, found) ==
    LET matched == MatchedIds(found)
    IN  CASE c.name = "list" ->
               [Ended(c, "ok") EXCEPT !.found = found, !.began = c.began]
          [] c.name = "match" /\ matched = <<>> ->
               Ended(c, "error")
          [] OTHER ->
               [c EXCEPT !.pc = "deleting", !.found = <<>>, !.began = {}, !.page = 1,
                         !.todo = matched]

(* Mutant: the first page taken for the whole list. *)
ListPageFirstOnly(o) ==
    /\ Listing(o)
    /\ cmd' = [cmd EXCEPT ![o] = Listed(@, Page(hooks, 1))]
    /\ UNCHANGED <<hooks, nextHook>>

(* One page of Client::list_webhooks; a failed one fails the command. *)
ListPage(o) ==
    /\ Listing(o)
    /\ LET c == cmd[o]
           chunk == Page(hooks, c.page)
           found == c.found \o chunk
       IN \/ cmd' = [cmd EXCEPT ![o] =
                IF LastPage(chunk, c.page) THEN Listed(c, found)
                ELSE [c EXCEPT !.found = found, !.page = c.page + 1]]
          \/ Exit(o, "error")
    /\ UNCHANGED <<hooks, nextHook>>

(* Client::delete_webhook: one that is gone is an error, which ends the    *)
(* command with the rest undone; so does a lost answer.                    *)
DeleteWebhook(o) ==
    /\ cmd[o].pc = "deleting" /\ cmd[o].todo # <<>>
    /\ LET id == Head(cmd[o].todo)
           next == [cmd EXCEPT ![o].todo = Tail(@)]
           lost == [cmd EXCEPT ![o] = Ended(@, "error")]
       IN \/ /\ Dropped(id)
             /\ \E after \in {next, lost} : cmd' = Raced(after)
          \/ Exit(o, "error") /\ UNCHANGED hooks
    /\ UNCHANGED nextHook

FinishDeleting(o) ==
    /\ cmd[o].pc = "deleting" /\ cmd[o].todo = <<>>
    /\ Exit(o, "ok")
    /\ UNCHANGED <<hooks, nextHook>>

(* Other people, in the forge's settings page. *)
OthersDelete ==
    /\ \E id \in IdsOf(hooks) : Dropped(id)
    /\ cmd' = Raced(cmd)
    /\ UNCHANGED nextHook

OthersAdd ==
    /\ nextHook <= MaxHooks
    /\ hooks' = Append(hooks, [id |-> nextHook, ours |-> FALSE])
    /\ nextHook' = nextHook + 1
    /\ UNCHANGED cmd

HookStep ==
    \/ \E o \in Operators :
          \/ RegisterWebhook(o) \/ UnregisterById(o)
          \/ \E name \in {"list", "match"} : StartListing(o, name)
          \/ ListPage(o) \/ DeleteWebhook(o) \/ FinishDeleting(o)
    \/ OthersDelete \/ OthersAdd

HookInit ==
    /\ hooks = FirstHooks /\ nextHook = Len(FirstHooks) + 1
    /\ cmd = [o \in Operators |-> NoCommand]

(* Unless someone deleted a webhook between two of its pages, a listing    *)
(* shows every webhook that was there from its start to its end, webhooks  *)
(* being added meanwhile or not, and each once; and an unregister that     *)
(* exits with success has left none of those that matched when it started  *)
(* (client.rs:201-240, commands.rs:645-683).                               *)
HooksAccounted ==
    \A o \in Operators : LET c == cmd[o] IN
        c.pc = "ended" /\ c.exit = "ok" /\ ~c.raced =>
            /\ c.name = "list" =>
                  /\ c.began \subseteq IdsOf(c.found)
                  /\ Cardinality(IdsOf(c.found)) = Len(c.found)
            /\ c.name = "match" => c.ours \cap IdsOf(hooks) = {}
=============================================================================
