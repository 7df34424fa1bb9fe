--------------------------- MODULE MCPullRequest ---------------------------
(***************************************************************************)
(* Instances of ChatCommands for TLC.  Head 1 changes an ordinary and an   *)
(* ignored file, head 2 only the ignored one and a lockfile.  The findings *)
(* are an error on the ordinary file, a warning with the same words on the *)
(* ignored one, and a note below the floor, which comes with the error.    *)
(***************************************************************************)
EXTENDS ChatCommands, TLC

MCPaths == <<"a", "gen", "lock">>
MCSize == [a |-> 2, gen |-> 2, lock |-> 1]
MCFilesAt == <<{"a", "gen"}, {"gen", "lock"}>>
MCDeltaAt == <<{"a"}, {"gen"}>>
Error   == [path |-> "a", severity |-> 3, message |-> "m"]
Warning == [path |-> "gen", severity |-> 2, message |-> "m"]
Note    == [path |-> "a", severity |-> 1, message |-> "m"]
MCContexts == {{}, {"gen"}}
MCReports == (SUBSET {Error, Warning}) \cup {{Error, Note}}
MCPatches == {[path |-> "a", usable |-> TRUE], [path |-> "b", usable |-> TRUE]}
FirstText == {<<[form |-> "imperative", length |-> "short"], "good">>}
NearText == {<<[form |-> "imperative", length |-> "near"], "good">>}
TwoTexts == FirstText \cup {<<[form |-> "accented", length |-> "short"], "poor">>}
=============================================================================
