---------------------------- MODULE PullRequest ----------------------------
(***************************************************************************)
(* One pull request as the forge keeps it and as the bot edits it: its     *)
(* head, its title and body with the reversible override marker            *)
(* (ar-review/src/override_marker.rs), and the reviews posted on it.       *)
(*                                                                         *)
(* Text is abstracted to what the code asks of it.  A title is its words   *)
(* and whether it starts with the marker; the words are known by their     *)
(* form and by their length against the 72 characters the metadata check   *)
(* allows ("near": within the limit, but not with the marker in front).    *)
(* A body is its words and whether it has the override section.            *)
(***************************************************************************)
EXTENDS Naturals, Sequences, FiniteSets

CONSTANTS
    Texts,          \* what people write: pairs of a title's and a body's words
    FirstTexts,     \* those the pull request can start with
    MaxHead,        \* bound: commits 1..MaxHead are pushed in this order
    MaxEdits        \* bound: edits of the title or the body by people

Forms   == {"imperative", "conventional", "release", "vague", "accented"}
Lengths == {"short", "near", "long"}
Titles  == {t[1] : t \in Texts}
Bodies  == {t[2] : t \in Texts}

ASSUME PullRequestAssumption ==
    /\ Texts \subseteq [form : Forms, length : Lengths]
                       \X {"empty", "poor", "good"}
    /\ FirstTexts # {} /\ FirstTexts \subseteq Texts
    /\ MaxHead \in Nat \ {0}
    /\ MaxEdits \in Nat

VARIABLES
    pr,         \* [head, open, title, marked, body, section]
    reviews,    \* the reviews on the pull request, in the order of their ids
    versions    \* history variable: <<title, body>> pairs people have shown

prVars == <<pr, reviews, versions>>

(* title_has_marker, body_has_section *)
HasMarker(text) == text.marked \/ text.section

(* apply_title_marker and apply_body_section: idempotent, whatever was there. *)
ApplyMarker(text) == [text EXCEPT !.marked = TRUE, !.section = TRUE]

(* strip_title_marker and strip_body_section *)
StripMarker(text) == [text EXCEPT !.marked = FALSE, !.section = FALSE]

(* What get_pull_request returns; jobs and commands keep it as a snapshot. *)
Snapshot == pr

(* update_pull_request with both fields set: one PATCH of title and body. *)
UpdatePullRequest(text) ==
    pr' = [pr EXCEPT !.title = text.title, !.marked = text.marked,
                     !.body = text.body, !.section = text.section]

CreateReview(r) == reviews' = Append(reviews, r)

Review(by, event) == [by |-> by, event |-> event, errors |-> {},
                      over |-> FALSE, authorised |-> FALSE]

(* The pull request is new, carries the bot's objection alone or under     *)
(* someone else's approval, or the objection and the override of it.       *)
Histories ==
    LET objection == Review("pipeline", "REQUEST_CHANGES")
        override == [Review("chat", "APPROVED") EXCEPT
                        !.over = TRUE, !.authorised = TRUE]
    IN  {<<>>, <<objection>>, <<objection, Review("human", "APPROVED")>>,
         <<objection, override>>}

(* Draft and closed are told apart only by the wording of a refusal.       *)
PRInit ==
    /\ reviews \in Histories
    /\ \E t \in FirstTexts, open \in BOOLEAN,
          overridden \in {\E i \in 1..Len(reviews) : reviews[i].authorised} :
          pr = [head |-> 1, open |-> open, title |-> t[1], body |-> t[2],
                marked |-> overridden, section |-> overridden]
    /\ versions = {<<pr.title, pr.body>>}

(* People push, and edit the words around the marker. *)
Push ==
    /\ pr.head < MaxHead
    /\ pr' = [pr EXCEPT !.head = @ + 1]
    /\ UNCHANGED <<reviews, versions>>

Edit ==
    /\ Cardinality(versions) <= MaxEdits
    /\ \E t \in Texts \ versions :
          /\ pr' = [pr EXCEPT !.title = t[1], !.body = t[2]]
          /\ versions' = versions \cup {t}
    /\ UNCHANGED reviews
=============================================================================
