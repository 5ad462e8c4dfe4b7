---------------------------- MODULE MCUpdateHook ----------------------------
(* The hooks on one object of each sort that entrypoint.sh deals with. *)
EXTENDS UpdateHook
=============================================================================
