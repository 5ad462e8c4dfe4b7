---------------------------- MODULE MCChangeset ----------------------------
(***************************************************************************)
(* Instances of Changeset for TLC, and of its refinement: one object of    *)
(* each kind.                                                              *)
(***************************************************************************)
EXTENDS ChangesetRefinement, TLC

CONSTANTS v1, v2

Versions == Permutations({v1, v2})
=============================================================================
