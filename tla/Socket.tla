------------------------------- MODULE Socket -------------------------------
(***************************************************************************)
(* How daemons take and give up the control socket (src/control.c:         *)
(* prepare_socket, connect_socket, lstart, lstop).  Several daemons are    *)
(* started on the same path; each system call on the path is one step.     *)
(* The path names nothing, a file that is not a socket, a stale socket     *)
(* left by an earlier process, or the socket of one of the daemons, which  *)
(* is stale too once that daemon is dead.                                  *)
(***************************************************************************)
EXTENDS Naturals

CONSTANTS
    Daemon,    \* the daemons, each started once
    Overlap    \* whether daemons may start and stop at the same time

ASSUME OverlapAssumption == Overlap \in BOOLEAN
ASSUME DaemonAssumption == Daemon \cap {"nothing", "file", "stale"} = {}

VARIABLES
    path,     \* what the socket path names
    phase,    \* each daemon's point in lstart and lstop
    fd        \* its socket: "none", "bound", "listening" or "closed"

socketVars == <<path, phase, fd>>

\* Points inside prepare_socket, lstart and lstop.
Section == {"lstat", "connect", "unlink", "bind", "listen", "thread",
            "undo", "close", "remove"}
\* refused: another instance listens; error: what is at the path stopped
\* prepare_socket; failed: a system call failed by itself, and what was done
\* is undone.
Final == {"refused", "failed", "error", "stopped", "dead"}

SocketInit ==
    /\ path \in {"nothing", "file", "stale"}
    /\ phase = [d \in Daemon |-> "off"]
    /\ fd = [d \in Daemon |-> "none"]

Goto(d, p) == phase' = [phase EXCEPT ![d] = p]
SetFd(d, s) == fd' = [fd EXCEPT ![d] = s]

\* Without Overlap nobody else is inside a section when d enters one.
MayEnter(d) == Overlap \/ \A e \in Daemon \ {d} : phase[e] \notin Section

-----------------------------------------------------------------------------
(* prepare_socket.                                                         *)

Begin(d) ==
    /\ phase[d] = "off"
    /\ MayEnter(d)
    /\ Goto(d, "lstat")
    /\ UNCHANGED <<path, fd>>

Lstat(d) ==
    /\ phase[d] = "lstat"
    /\ Goto(d, CASE path = "nothing" -> "bind"
                 [] path = "file"    -> "error"
                 [] OTHER            -> "connect")
    /\ UNCHANGED <<path, fd>>

\* connect_socket succeeds only on a listening socket.  A bound socket that
\* does not listen yet refuses like one whose process is gone.
ConnectsMutant == FALSE
Connects == path \in Daemon /\ fd[path] = "listening"

Connect(d) ==
    /\ phase[d] = "connect"
    /\ Goto(d, IF Connects THEN "refused" ELSE "unlink")
    /\ UNCHANGED <<path, fd>>

\* unlink(path) of what was taken for stale; fails when it is gone by now.
UnlinkMutant(d) ==
    /\ phase[d] = "unlink"
    /\ Goto(d, "bind")
    /\ UNCHANGED <<path, fd>>

Unlink(d) ==
    /\ phase[d] = "unlink"
    /\ Goto(d, IF path = "nothing" THEN "error" ELSE "bind")
    /\ path' = "nothing"
    /\ UNCHANGED fd

Bind(d) ==
    /\ phase[d] = "bind"
    /\ IF path = "nothing"
       THEN path' = d /\ SetFd(d, "bound") /\ Goto(d, "listen")
       ELSE Goto(d, "error") /\ UNCHANGED <<path, fd>>

\* lstat, connect (any error but ECONNREFUSED and ENOENT: "cannot verify
\* existing control socket"), unlink, socket or bind fails by itself; nothing
\* has been created yet.
PrepareFails(d) ==
    /\ phase[d] \in {"lstat", "connect", "unlink", "bind"}
    /\ Goto(d, "failed")
    /\ UNCHANGED <<path, fd>>

\* chmod(path) needs something at the path; then listen.  On failure the
\* socket is closed and whatever is at the path is unlinked.
Listen(d) ==
    /\ phase[d] = "listen"
    /\ IF path # "nothing"
       THEN SetFd(d, "listening") /\ Goto(d, "thread")
       ELSE SetFd(d, "closed") /\ Goto(d, "undo")
    /\ UNCHANGED path

-----------------------------------------------------------------------------
(* lstart and lstop.                                                       *)

\* The wake pipe and the control thread are created.
ThreadCreated(d) ==
    /\ phase[d] = "thread"
    /\ Goto(d, "running")
    /\ UNCHANGED <<path, fd>>

\* listen, the pipe or the thread fails: close, then unlink.
StartFails(d) ==
    /\ phase[d] \in {"listen", "thread"}
    /\ SetFd(d, "closed")
    /\ Goto(d, "undo")
    /\ UNCHANGED path

Undo(d) ==
    /\ phase[d] = "undo"
    /\ path' = "nothing"
    /\ Goto(d, "failed")
    /\ UNCHANGED fd

\* lstop joins the thread, closes the listener and then unlinks the path.
BeginStop(d) ==
    /\ phase[d] = "running"
    /\ MayEnter(d)
    /\ Goto(d, "close")
    /\ UNCHANGED <<path, fd>>

Close(d) ==
    /\ phase[d] = "close"
    /\ SetFd(d, "closed")
    /\ Goto(d, "remove")
    /\ UNCHANGED path

Remove(d) ==
    /\ phase[d] = "remove"
    /\ path' = "nothing"
    /\ Goto(d, "stopped")
    /\ UNCHANGED fd

\* The process is killed (SIGTERM keeps its default action, see host.c) or
\* crashes: the kernel closes its socket, the path stays.
Die(d) ==
    /\ phase[d] \in Section \cup {"running"}
    /\ fd' = [fd EXCEPT ![d] = IF @ = "none" THEN @ ELSE "closed"]
    /\ Goto(d, "dead")
    /\ UNCHANGED path

Terminated == (\A d \in Daemon : phase[d] \in Final) /\ UNCHANGED socketVars

SocketNext ==
    \/ \E d \in Daemon :
         \/ Begin(d) \/ Lstat(d) \/ Connect(d) \/ Unlink(d) \/ Bind(d)
         \/ PrepareFails(d) \/ Listen(d) \/ ThreadCreated(d) \/ StartFails(d) \/ Undo(d)
         \/ BeginStop(d) \/ Close(d) \/ Remove(d) \/ Die(d)
    \/ Terminated

SocketSpec == SocketInit /\ [][SocketNext]_socketVars

-----------------------------------------------------------------------------
\* Type correctness.
SocketTypeOK ==
    /\ path \in {"nothing", "file", "stale"} \cup Daemon
    /\ phase \in [Daemon -> Section \cup Final \cup {"off", "running"}]
    /\ fd \in [Daemon -> {"none", "bound", "listening", "closed"}]

\* README, "State and Eww data flow": "A second daemon refuses to take over a
\* live socket".  The path of a running daemon always leads to that daemon.
LiveSocketKept == \A d \in Daemon : phase[d] = "running" => path = d

\* README, same paragraph: "a stale socket left by an abnormal exit is
\* recovered safely on the next start".  Whatever dead daemons left behind,
\* start fails only for a file that is not a socket, a live daemon or a
\* system call that fails by itself.
StaleRecovered == \A d \in Daemon : phase[d] = "error" => path = "file"
=============================================================================
