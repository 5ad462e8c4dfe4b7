------------------------------ MODULE MCServe ------------------------------
(* A process with two requests and two signals. *)
EXTENDS Serve
=============================================================================
