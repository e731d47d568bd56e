----------------------------- MODULE MCHyprland -----------------------------
(* The Hyprland source with two overlapping ranges of backoff. *)
EXTENDS Hyprland

MCConfig == {[min |-> 1, max |-> 5], [min |-> 2, max |-> 3]}
=============================================================================
