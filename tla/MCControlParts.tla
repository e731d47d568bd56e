--------------------------- MODULE MCControlParts ---------------------------
(* The two parts of src/control.c that Control takes for granted, side by *)
(* side: a ring of three slots, which wraps around with any load, and      *)
(* three daemons on one path, of which one is live, one starts, one stops. *)
EXTENDS ActionRing, Socket, TLC

DaemonSymmetry == Permutations(Daemon)

PartsInit == Init /\ SocketInit
PartsNext ==
    \/ Next /\ UNCHANGED socketVars
    \/ SocketNext /\ UNCHANGED vars
PartsSpec == PartsInit /\ [][PartsNext]_<<vars, socketVars>>
=============================================================================
