-------------------------- MODULE MCReviewDispatch --------------------------
(***************************************************************************)
(* Instances of ReviewDispatch for TLC.  Commits are numbers; a branch is  *)
(* either a line of commits or a fork of two that replace each other.      *)
(***************************************************************************)
EXTENDS ReviewDispatch, TLC

LineAnc == [c \in Commits |-> {d \in Commits : d <= c}]

(* Commit 1 is common; 2 and 3 are alternatives on top of it. *)
ForkAnc == [c \in Commits |-> {1, c}]

JobSymmetry == Permutations(Jobs)
=============================================================================
