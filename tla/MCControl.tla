----------------------------- MODULE MCControl -----------------------------
(* Control on small instances. *)
EXTENDS Control, TLC

\* Connections are interchangeable.
ConnSymmetry == Permutations(Conn)
=============================================================================
