--------------------------- MODULE OverrideMarker ---------------------------
(***************************************************************************)
(* What the bot promises about a pull request's title and body, without    *)
(* reviews, commands or snapshots: it leaves them alone until somebody has *)
(* overridden it; then it may put the marker on or take it off, title and  *)
(* body at once, around words that people have written.  ChatCommands with *)
(* its reviews implements it.                                              *)
(***************************************************************************)
CONSTANT Texts

VARIABLES
    words,      \* the title's and the body's words
    marker,     \* the title's marker and the body's section
    known,      \* every text people have shown
    overridden  \* an authorised override has been posted

promise == <<words, marker, known, overridden>>

Whole  == <<TRUE, TRUE>>
Absent == <<FALSE, FALSE>>

Init ==
    /\ words \in Texts /\ known = {words}
    /\ \/ overridden = TRUE /\ marker = Whole
       \/ overridden = FALSE /\ marker = Absent

(* People edit around the marker.  Their words are new ones: whatever      *)
(* brings old words back is the bot's doing.                               *)
Say(t) ==
    /\ t \notin known
    /\ words' = t /\ known' = known \cup {t}
    /\ UNCHANGED <<marker, overridden>>

(* The override is posted before the marker is, and stays posted. *)
Override ==
    /\ overridden' = TRUE
    /\ UNCHANGED <<words, marker, known>>

(* The bot writes; it may bring back words that were edited away. *)
Write(t, m) ==
    /\ overridden
    /\ words' = t /\ marker' = m
    /\ UNCHANGED <<known, overridden>>

Next ==
    \/ \E t \in Texts : Say(t)
    \/ Override
    \/ \E t \in known, m \in {Whole, Absent} : Write(t, m)

Spec == Init /\ [][Next]_promise
=============================================================================
