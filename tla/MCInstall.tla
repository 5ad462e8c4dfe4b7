----------------------------- MODULE MCInstall -----------------------------
(* The installation with two objects per file and two replicas. *)
EXTENDS Install
=============================================================================
