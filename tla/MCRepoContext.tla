--------------------------- MODULE MCRepoContext ---------------------------
(***************************************************************************)
(* RepoContext for TLC.  Learnings and symbols meet nowhere but in the     *)
(* prompt, so a behaviour is about one or the other: chat commands, an     *)
(* operator and a review without symbols on every learnings store; or two  *)
(* reviews on the shared cache, without learnings.                         *)
(*                                                                         *)
(* Two heads differ in their first symbol only past the cap; the third has *)
(* a symbol that ends past its file.                                       *)
(***************************************************************************)
EXTENDS RepoContext, TLC

MCSnippet ==
    [h1 |-> <<<<"p", "x">>, <<"q", "">>, <<"s", "">>>>,
     h2 |-> <<<<"p", "">>, <<"r", "x">>, <<"s", "">>>>,
     h3 |-> <<<<"p", "y">>, OutOfRange, <<"s", "">>>>]
Symmetry == Permutations(Chats) \cup Permutations(Reviews)
            \cup Permutations(Models)

MaxBuilds == 2      \* bound: reviews started beside each other

VARIABLE about      \* which of the two a behaviour is about

LearningsOnly ==
    /\ UNCHANGED embedder
    /\ \A r \in Reviews : builds'[r].readable = {} /\ builds'[r].head = "h1"
    /\ Cardinality({r \in Reviews : builds'[r].at # "idle"}) <= 1

SymbolsOnly ==
    /\ UNCHANGED <<chats, rows>>
    /\ started' <= MaxBuilds

MCInit ==
    /\ Init
    /\ \/ about = "learnings" /\ ~embedder.capped /\ ~embedder.shared
       \/ about = "symbols" /\ backend = "sqlite"

MCNext ==
    /\ Next
    /\ UNCHANGED about
    /\ IF about = "learnings" THEN LearningsOnly ELSE SymbolsOnly

MCSpec == MCInit /\ [][MCNext]_<<vars, about>>
=============================================================================
