---------------------------- MODULE MCAccessKeys ----------------------------
(* Commands that draw, write and read the keys, with edits in between. *)
EXTENDS AccessKeys
=============================================================================
