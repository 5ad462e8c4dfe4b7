--------------------------- MODULE MCReplication ---------------------------
(* Up to five nodes, the larger flavor of app.yaml. *)
EXTENDS Replication
=============================================================================
