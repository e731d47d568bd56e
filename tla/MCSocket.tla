------------------------------ MODULE MCSocket ------------------------------
(* Two daemons on one path, whose starts and stops overlap. *)
EXTENDS Socket
=============================================================================
