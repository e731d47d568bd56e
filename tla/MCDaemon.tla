------------------------------ MODULE MCDaemon ------------------------------
(* The daemon with a remote, a local blocking and a periodic source. *)
EXTENDS Daemon

MCReloadOrder == <<"github", "hyprland", "system">>
=============================================================================
