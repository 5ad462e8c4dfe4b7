-------------------------- MODULE MCClusterStatus --------------------------
(***************************************************************************)
(* The status check of pods that change while they are looked at, and of   *)
(* nodes with all distributions of data.                                   *)
(***************************************************************************)
EXTENDS ClusterStatus, TLC

\* Addresses are only compared.
Renaming == Permutations(Addr)
=============================================================================
