----------------------------- MODULE MCWorkload -----------------------------
(* One workload of each kind on three nodes. *)
EXTENDS Workload
=============================================================================
