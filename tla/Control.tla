------------------------------ MODULE Control ------------------------------
(***************************************************************************)
(* The control server of the daemon (src/control.c).                       *)
(*                                                                         *)
(* Two threads share struct control_server under one mutex:                *)
(*   - the state service, which calls start, publish and stop (spc is its  *)
(*     point in lstart, lpublish and lstop);                               *)
(*   - the control thread (tpc is its point in control_thread), which owns *)
(*     the array of clients and every socket.                              *)
(* A third one, the actions service, calls pop_action.  The environment is *)
(* the client end of each connection.                                      *)
(*                                                                         *)
(* An action is one critical section or one system call together with the  *)
(* thread-local code around it.  Snapshots are abstracted to the revision  *)
(* they carry (0 is the empty snapshot), actions to the connection that    *)
(* asked for them, the bytes of a command to "nothing", "part" (some bytes *)
(* but no newline) and "line".                                             *)
(***************************************************************************)
EXTENDS Integers, Sequences, FiniteSets

CONSTANTS
    Conn,         \* the connections clients may open, each used once
    Command,      \* the kinds of command line clients may send
    MaxClients,   \* CONTROL_MAX_CLIENTS
    MaxActions,   \* CONTROL_MAX_ACTIONS
    MaxBacklog,   \* the argument of listen()
    PipeSize,     \* bytes the wake pipe holds
    SocketSize,   \* lines a client socket holds before send() fails
    MaxRevision,  \* bound: publications of one behaviour
    PollMayFail   \* whether poll() may fail with an error other than EINTR

StatusCommand    == {"status", "status eww", "doctor"}
SubscribeCommand == {"subscribe", "subscribe eww"}
ActionCommand    == {"reload", "dispatch"}
\* "bogus" is any other line; "oversized" fills the command buffer before
\* its newline.
AnyCommand == StatusCommand \cup SubscribeCommand \cup ActionCommand
                \cup {"bogus", "oversized"}

ASSUME CommandAssumption == Command \subseteq AnyCommand
ASSUME SizeAssumption ==
    /\ MaxClients \in Nat \ {0}
    /\ MaxActions \in Nat \ {0}
    /\ MaxBacklog \in Nat \ {0}
    /\ PipeSize \in Nat \ {0}
    /\ SocketSize \in Nat \ {0}
    /\ MaxRevision \in Nat
    /\ PollMayFail \in BOOLEAN

Format == {"default", "eww", "doctor"}
Revision == 0..MaxRevision

\* The format handle_command stores for a status or subscribe command.
FormatOf(command) ==
    CASE command = "doctor" -> "doctor"
      [] command \in {"status eww", "subscribe eww"} -> "eww"
      [] OTHER -> "default"

\* What the server writes: a snapshot of some revision or a fixed reply.
\* A line is whole unless the socket took only its beginning.
Line == [text : {"snapshot", "accepted", "busy", "unknown"},
         rev : Revision, whole : BOOLEAN]
SnapshotLine(r) == [text |-> "snapshot", rev |-> r, whole |-> TRUE]
Torn(line) == [text |-> line.text, rev |-> line.rev, whole |-> FALSE]
ReplyLine(text) == [text |-> text, rev |-> 0, whole |-> TRUE]

VARIABLES
    \* struct control_server
    running, stopping,
    snapshot,          \* the three stored snapshots, by format
    actions,           \* the action ring as a queue (see ActionRing)
    wake,              \* bytes in the wake pipe
    \* the state service and the actions service
    spc, revision,     \* revision: the last one handed to publish
    popped,            \* the actions pop_action has returned, in order
    \* locals of control_thread
    tpc, clients, pollfds, index, should_broadcast,
    \* the server's side of each connection
    sock, backlog, buffer, subscribed, format,
    last,              \* history: the last whole line written
    \* the client's side
    peer, command, input,
    output             \* what was written to it and it has not read

\* pollfds, index and should_broadcast between the rounds of the loop.
NoPollfds == [listener |-> FALSE, client |-> <<>>]

serverVars  == <<running, stopping, snapshot, actions, wake>>
serviceVars == <<spc, revision, popped>>
threadVars  == <<tpc, clients, pollfds, index, should_broadcast>>
connVars    == <<sock, backlog, buffer, subscribed, format, last>>
peerVars    == <<peer, command, input, output>>
vars == <<serverVars, serviceVars, threadVars, connVars, peerVars>>

Init ==
    /\ running = FALSE
    /\ stopping = FALSE
    /\ snapshot = [f \in Format |-> 0]
    /\ actions = <<>>
    /\ wake = 0
    /\ spc = "new"
    /\ revision = 0
    /\ popped = <<>>
    /\ tpc = "none"
    /\ clients = <<>>
    /\ pollfds = NoPollfds
    /\ index = 0
    /\ should_broadcast = FALSE
    /\ sock = [c \in Conn |-> "none"]
    /\ backlog = <<>>
    /\ buffer = [c \in Conn |-> "nothing"]
    /\ subscribed = [c \in Conn |-> FALSE]
    /\ format = [c \in Conn |-> "default"]
    /\ last = [c \in Conn |-> [text |-> "none", rev |-> 0]]
    /\ peer = [c \in Conn |-> "new"]
    /\ command = [c \in Conn |-> "none"]
    /\ input = [c \in Conn |-> "nothing"]
    /\ output = [c \in Conn |-> <<>>]

-----------------------------------------------------------------------------
(* The state service: control.start, control.publish, control.stop.        *)

WriteWakeByteMutant == UNCHANGED wake

\* A write to the nonblocking pipe; the result is ignored when it is full.
WriteWakeByte == wake' = IF wake < PipeSize THEN wake + 1 ELSE wake

\* lstart: the socket listens, the thread runs.
Start ==
    /\ spc = "new"
    /\ ~running
    /\ running' = TRUE
    /\ stopping' = FALSE
    /\ actions' = <<>>
    /\ wake' = 0
    /\ spc' = "idle"
    /\ tpc' = "top"
    /\ UNCHANGED <<snapshot, revision, popped, clients, pollfds, index,
                   should_broadcast, connVars, peerVars>>

\* lstart when pthread_create fails: nothing is left running.
StartFails ==
    /\ spc = "new"
    /\ ~running
    /\ running' = FALSE
    /\ stopping' = TRUE
    /\ spc' = "off"
    /\ UNCHANGED <<snapshot, actions, wake, revision, popped, threadVars,
                   connVars, peerVars>>

\* The three snapshots lpublish stores, all of the same revision.
StoredSnapshotsMutant(r) == [snapshot EXCEPT !["default"] = r]
StoredSnapshots(r) == [f \in Format |-> r]

\* lpublish, under the mutex: all three formats are replaced together.
PublishStore ==
    /\ spc = "idle"
    /\ running /\ ~stopping
    /\ revision < MaxRevision
    /\ revision' = revision + 1
    /\ snapshot' = StoredSnapshots(revision + 1)
    /\ spc' = "wake"
    /\ UNCHANGED <<running, stopping, actions, wake, popped, threadVars,
                   connVars, peerVars>>

\* lpublish, after the unlock: wake the control thread.
PublishWake ==
    /\ spc = "wake"
    /\ WriteWakeByte
    /\ spc' = "idle"
    /\ UNCHANGED <<running, stopping, snapshot, actions, revision, popped,
                   threadVars, connVars, peerVars>>

\* lstop, under the mutex.
StopRequest ==
    /\ spc = "idle"
    /\ running
    /\ stopping' = TRUE
    /\ spc' = "stop wake"
    /\ UNCHANGED <<running, snapshot, actions, wake, revision, popped,
                   threadVars, connVars, peerVars>>

StopWake ==
    /\ spc = "stop wake"
    /\ WriteWakeByte
    /\ spc' = "join"
    /\ UNCHANGED <<running, stopping, snapshot, actions, revision, popped,
                   threadVars, connVars, peerVars>>

\* lstop after pthread_join: closing the listener resets the connections
\* nobody accepted.
StopJoin ==
    /\ spc = "join"
    /\ tpc = "done"
    /\ running' = FALSE
    /\ snapshot' = [f \in Format |-> 0]
    /\ actions' = <<>>
    /\ wake' = 0
    /\ sock' = [c \in Conn |-> IF sock[c] = "backlog" THEN "closed" ELSE sock[c]]
    /\ backlog' = <<>>
    /\ spc' = "off"
    /\ UNCHANGED <<stopping, revision, popped, threadVars, buffer, subscribed,
                   format, last, peerVars>>

\* lpop_action, called by the loop of the actions service.
PopAction ==
    /\ running /\ ~stopping
    /\ actions # <<>>
    /\ popped' = Append(popped, Head(actions))
    /\ actions' = Tail(actions)
    /\ UNCHANGED <<running, stopping, snapshot, wake, spc, revision,
                   threadVars, connVars, peerVars>>

-----------------------------------------------------------------------------
(* The control thread.                                                     *)

\* The head of the loop: is_stopping, then the pollfds are laid out from
\* the clients of this moment.
LoopTop ==
    /\ tpc = "top"
    /\ IF stopping
       THEN /\ tpc' = "exit"
            /\ UNCHANGED pollfds
       ELSE /\ tpc' = "poll"
            /\ pollfds' = [listener |-> FALSE,
                           client |-> [i \in 1..Len(clients) |->
                                         [fd |-> clients[i], revents |-> "none"]]]
    /\ UNCHANGED <<serverVars, serviceVars, clients, index, should_broadcast,
                   connVars, peerVars>>

ReventsMutant(c) ==
    IF peer[c] = "closed" THEN "hup"
    ELSE IF ~subscribed[c] /\ input[c] # "nothing" /\ buffer[c] = "nothing" THEN "in"
    ELSE "none"

\* What poll() reports for a connection: hangup whatever was asked for,
\* input only for a client that is not subscribed.
Revents(c) ==
    IF peer[c] = "closed" THEN "hup"
    ELSE IF ~subscribed[c] /\ input[c] # buffer[c] THEN "in"
    ELSE "none"

\* polled_client_count
PolledClientCountMutant == Len(pollfds.client) + 1
PolledClientCount == Len(pollfds.client)

\* poll(-1) returns once some descriptor is ready; the wake pipe is then
\* the first one looked at.
Poll ==
    /\ tpc = "poll"
    /\ \/ backlog # <<>>
       \/ wake > 0
       \/ \E i \in 1..Len(pollfds.client) : Revents(pollfds.client[i].fd) # "none"
    /\ pollfds' = [listener |-> backlog # <<>>,
                   client |-> [i \in 1..Len(pollfds.client) |->
                                 [fd |-> pollfds.client[i].fd,
                                  revents |-> Revents(pollfds.client[i].fd)]]]
    /\ index' = PolledClientCount
    /\ tpc' = IF wake > 0 THEN "drain" ELSE "clients"
    /\ UNCHANGED <<serverVars, serviceVars, clients, should_broadcast, connVars,
                   peerVars>>

PollError ==
    /\ PollMayFail
    /\ tpc = "poll"
    /\ tpc' = "exit"
    /\ pollfds' = NoPollfds
    /\ UNCHANGED <<serverVars, serviceVars, clients, index,
                   should_broadcast, connVars, peerVars>>

DrainWakePipe ==
    /\ tpc = "drain"
    /\ wake' = 0
    /\ tpc' = "check"
    /\ UNCHANGED <<running, stopping, snapshot, actions, serviceVars, clients,
                   pollfds, index, should_broadcast, connVars, peerVars>>

CheckStopping ==
    /\ tpc = "check"
    /\ should_broadcast' = ~stopping
    /\ tpc' = "clients"
    /\ UNCHANGED <<serverVars, serviceVars, clients, pollfds, index, connVars,
                   peerVars>>

\* remove_client: the last client takes the freed slot i.
RemoveSlotMutant(s, i) == SubSeq(s, 1, Len(s) - 1)
RemoveSlot(s, i) ==
    [j \in 1..(Len(s) - 1) |-> IF j = i THEN s[Len(s)] ELSE s[j]]

RemoveClientMutant(i) ==
    /\ clients' = RemoveSlot(clients, i)
    /\ sock' = [sock EXCEPT ![clients[Len(clients)]] = "closed"]

RemoveClient(i) ==
    /\ clients' = RemoveSlot(clients, i)
    /\ sock' = [sock EXCEPT ![clients[i]] = "closed"]

KeepClients == UNCHANGED <<clients, sock>>

WriteAllMutant(c, line) ==
    IF peer[c] = "closed"
    THEN {[ok |-> FALSE, output |-> output[c]]}
    ELSE IF Len(output[c]) < SocketSize
    THEN {[ok |-> TRUE, output |-> Append(output[c], line)]}
    ELSE {[ok |-> TRUE, output |-> Append(output[c], Torn(line))]}

\* write_all on the nonblocking socket of c: the line is taken whole, or,
\* when the socket is full, not at all or only in part.
WriteAll(c, line) ==
    IF peer[c] = "closed"
    THEN {[ok |-> FALSE, output |-> output[c]]}
    ELSE IF Len(output[c]) < SocketSize
    THEN {[ok |-> TRUE, output |-> Append(output[c], line)]}
    ELSE {[ok |-> FALSE, output |-> output[c]],
          [ok |-> FALSE, output |-> Append(output[c], Torn(line))]}

\* The write w of line to c, and the history of what was written whole.
Written(c, line, w) ==
    /\ output' = [output EXCEPT ![c] = w.output]
    /\ last' = IF w.ok
               THEN [last EXCEPT ![c] = [text |-> line.text, rev |-> line.rev]]
               ELSE last

EnqueueActionMutant(c, ok) ==
    /\ ok = (running /\ ~stopping)
    /\ actions' = IF ok /\ Len(actions) < MaxActions
                  THEN Append(actions, c) ELSE actions

\* enqueue_action, under the mutex; the result is whether there was room.
EnqueueAction(c, ok) ==
    /\ ok = (running /\ ~stopping /\ Len(actions) < MaxActions)
    /\ actions' = IF ok THEN Append(actions, c) ELSE actions

\* The branches of handle_command for the complete line of client i.
HandleStatus(i) == LET c == clients[i] IN
    /\ command[c] \in StatusCommand
    /\ format' = [format EXCEPT ![c] = FormatOf(command[c])]
    /\ LET line == SnapshotLine(snapshot[FormatOf(command[c])]) IN
         \E w \in WriteAll(c, line) : Written(c, line, w)
    /\ RemoveClient(i)
    /\ UNCHANGED <<actions, subscribed>>

\* send_snapshot copies under the mutex and writes after it, as in
\* broadcast_snapshot.
HandleSubscribe(i) == LET c == clients[i] IN
    /\ command[c] \in SubscribeCommand
    /\ format' = [format EXCEPT ![c] = FormatOf(command[c])]
    /\ subscribed' = [subscribed EXCEPT ![c] = TRUE]
    /\ LET line == SnapshotLine(snapshot[FormatOf(command[c])]) IN
         \E w \in WriteAll(c, line) :
           /\ Written(c, line, w)
           /\ IF w.ok THEN KeepClients ELSE RemoveClient(i)
    /\ UNCHANGED actions

HandleAction(i) == LET c == clients[i] IN
    /\ command[c] \in ActionCommand
    /\ \E ok \in BOOLEAN :
         /\ EnqueueAction(c, ok)
         /\ LET line == ReplyLine(IF ok THEN "accepted" ELSE "busy") IN
              \E w \in WriteAll(c, line) : Written(c, line, w)
    /\ RemoveClient(i)
    /\ UNCHANGED <<subscribed, format>>

HandleUnknown(i) == LET c == clients[i] IN
    /\ command[c] = "bogus"
    /\ LET line == ReplyLine("unknown") IN
         \E w \in WriteAll(c, line) : Written(c, line, w)
    /\ RemoveClient(i)
    /\ UNCHANGED <<actions, subscribed, format>>

HandleCommand(i) ==
    \/ HandleStatus(i)
    \/ HandleSubscribe(i)
    \/ HandleAction(i)
    \/ HandleUnknown(i)

\* read_command reads until the socket is empty: a complete line is
\* handled; a full buffer or the end of the stream drops the client; part
\* of a line is kept for the next round.
ReadCommand(i) == LET c == clients[i] IN
    /\ buffer' = [buffer EXCEPT ![c] = input[c]]
    /\ IF command[c] # "oversized" /\ input[c] = "line"
       THEN HandleCommand(i)
       ELSE /\ IF command[c] = "oversized" \/ peer[c] = "closed"
               THEN RemoveClient(i)
               ELSE KeepClients
            /\ UNCHANGED <<actions, subscribed, format, last, output>>

\* One round of the loop over the polled clients, from the last to the
\* first.
ServeClient ==
    /\ tpc = "clients"
    /\ index > 0
    /\ index' = index - 1
    /\ LET events == pollfds.client[index].revents IN
         \/ /\ events = "hup"
            /\ RemoveClient(index)
            /\ UNCHANGED <<actions, buffer, subscribed, format, last, output>>
         \/ /\ events = "in"
            /\ ReadCommand(index)
         \/ /\ events = "none"
            /\ KeepClients
            /\ UNCHANGED <<actions, buffer, subscribed, format, last, output>>
    /\ UNCHANGED <<running, stopping, snapshot, wake, serviceVars, tpc,
                   pollfds, should_broadcast, backlog, peer, command, input>>

\* accept_clients, after the pass over the polled clients, takes the whole
\* backlog; what does not fit into the array is closed at once.
AcceptClients ==
    /\ tpc = "clients"
    /\ index = 0
    /\ IF pollfds.listener
       THEN LET room  == MaxClients - Len(clients)
                taken == IF Len(backlog) <= room THEN Len(backlog) ELSE room
                slot  == [c \in Conn |->
                            \E i \in 1..taken : backlog[i] = c]
            IN /\ clients' = clients \o SubSeq(backlog, 1, taken)
               /\ sock' = [c \in Conn |->
                             IF sock[c] # "backlog" THEN sock[c]
                             ELSE IF slot[c] THEN "open" ELSE "closed"]
               /\ backlog' = <<>>
       ELSE UNCHANGED <<clients, sock, backlog>>
    /\ tpc' = IF should_broadcast THEN "broadcast" ELSE "top"
    /\ index' = IF should_broadcast THEN 1 ELSE 0
    /\ should_broadcast' = FALSE
    /\ pollfds' = NoPollfds
    /\ UNCHANGED <<serverVars, serviceVars, buffer, subscribed, format, last,
                   peerVars>>

\* The slot broadcast_snapshot looks at after slot i.
NextSlotMutant(i, kept) == i + 1
NextSlot(i, kept) == IF kept THEN i + 1 ELSE i

\* One round of broadcast_snapshot: copy_snapshot under the mutex and the
\* write of the copy after it, in one step.  Only this thread writes to the
\* client, so that a snapshot published in between comes after.  A client
\* that cannot be written to is removed and the one moved into its slot is
\* next.
BroadcastClient ==
    /\ tpc = "broadcast"
    /\ index <= Len(clients)
    /\ LET c    == clients[index]
           line == SnapshotLine(snapshot[format[c]])
       IN \/ /\ ~subscribed[c]
             /\ index' = NextSlot(index, TRUE)
             /\ KeepClients
             /\ UNCHANGED <<last, output>>
          \/ /\ subscribed[c]
             /\ \E w \in WriteAll(c, line) :
                  /\ Written(c, line, w)
                  /\ index' = NextSlot(index, w.ok)
                  /\ IF w.ok THEN KeepClients ELSE RemoveClient(index)
    /\ UNCHANGED <<serverVars, serviceVars, tpc, pollfds, should_broadcast,
                   backlog, buffer, subscribed, format, peer, command, input>>

BroadcastDone ==
    /\ tpc = "broadcast"
    /\ index > Len(clients)
    /\ index' = 0
    /\ tpc' = "top"
    /\ UNCHANGED <<serverVars, serviceVars, clients, pollfds,
                   should_broadcast, connVars, peerVars>>

\* The thread returns after it has closed every client.
ThreadExit ==
    /\ tpc = "exit"
    /\ sock' = [c \in Conn |-> IF sock[c] = "open" THEN "closed" ELSE sock[c]]
    /\ clients' = <<>>
    /\ tpc' = "done"
    /\ UNCHANGED <<serverVars, serviceVars, pollfds, index, should_broadcast,
                   backlog, buffer, subscribed, format, last, peerVars>>

-----------------------------------------------------------------------------
(* The client end: lrequest, or any program that speaks to the socket.     *)

\* connect() succeeds while the server listens and its backlog has room.
ClientConnect(c) ==
    /\ peer[c] = "new"
    /\ running
    /\ Len(backlog) < MaxBacklog
    /\ peer' = [peer EXCEPT ![c] = "open"]
    /\ sock' = [sock EXCEPT ![c] = "backlog"]
    /\ backlog' = Append(backlog, c)
    /\ UNCHANGED <<serverVars, serviceVars, threadVars, buffer, subscribed,
                   format, last, command, input, output>>

\* The command and its newline are two writes.
ClientSend(c) ==
    /\ peer[c] = "open"
    /\ sock[c] # "closed"
    /\ \/ /\ input[c] = "nothing"
          /\ input' = [input EXCEPT ![c] = "part"]
          /\ \E k \in Command : command' = [command EXCEPT ![c] = k]
       \/ /\ input[c] = "part"
          /\ input' = [input EXCEPT ![c] = "line"]
          /\ UNCHANGED command
    /\ UNCHANGED <<serverVars, serviceVars, threadVars, connVars, peer,
                   output>>

ClientRead(c) ==
    /\ peer[c] = "open"
    /\ output[c] # <<>>
    /\ output' = [output EXCEPT ![c] = Tail(@)]
    /\ UNCHANGED <<serverVars, serviceVars, threadVars, connVars, peer,
                   command, input>>

\* A client closes when it has read to the end, or at any earlier moment;
\* what it has not read is discarded.
ClientClose(c) ==
    /\ peer[c] = "open"
    /\ peer' = [peer EXCEPT ![c] = "closed"]
    /\ output' = [output EXCEPT ![c] = <<>>]
    /\ UNCHANGED <<serverVars, serviceVars, threadVars, connVars, command,
                   input>>

\* Nothing is left to do once the server is off and every client is gone.
Terminated ==
    /\ spc = "off"
    /\ \A c \in Conn : peer[c] # "open"
    /\ UNCHANGED vars

StateService == Start \/ StartFails \/ PublishStore \/ PublishWake
                  \/ StopRequest \/ StopWake \/ StopJoin
ControlThread == LoopTop \/ Poll \/ PollError \/ DrainWakePipe
                   \/ CheckStopping \/ ServeClient
                   \/ AcceptClients \/ BroadcastClient \/ BroadcastDone
                   \/ ThreadExit
Client(c) == ClientConnect(c) \/ ClientSend(c) \/ ClientRead(c)
               \/ ClientClose(c)

Next ==
    \/ StateService
    \/ PopAction
    \/ ControlThread
    \/ \E c \in Conn : Client(c)
    \/ Terminated

Spec == Init /\ [][Next]_vars

\* The threads keep running.  Nothing is assumed of clients, of when the
\* state service publishes or stops, or of poll() failing.
Fairness ==
    /\ WF_vars(ControlThread)
    /\ WF_vars(PublishWake)
    /\ WF_vars(StopWake)
    /\ WF_vars(StopJoin)
    /\ WF_vars(PopAction)

FairSpec == Spec /\ Fairness

-----------------------------------------------------------------------------
(* Properties.                                                             *)

LastLine == [text : {"none", "snapshot", "accepted", "busy", "unknown"},
             rev : Revision]
Polled == [fd : Conn, revents : {"none", "in", "hup"}]
Received == {"nothing", "part", "line"}

ServerType ==
    /\ running \in BOOLEAN
    /\ stopping \in BOOLEAN
    /\ snapshot \in [Format -> Revision]
    /\ actions \in Seq(Conn)
    /\ wake \in 0..PipeSize

ServiceType ==
    /\ spc \in {"new", "idle", "wake", "stop wake", "join", "off"}
    /\ revision \in Revision
    /\ popped \in Seq(Conn)

ThreadType ==
    /\ tpc \in {"none", "top", "poll", "drain", "check", "clients", "broadcast",
                "exit", "done"}
    /\ clients \in Seq(Conn)
    /\ pollfds \in [listener : BOOLEAN, client : Seq(Polled)]
    /\ index \in Nat
    /\ should_broadcast \in BOOLEAN

ConnType ==
    /\ sock \in [Conn -> {"none", "backlog", "open", "closed"}]
    /\ backlog \in Seq(Conn)
    /\ buffer \in [Conn -> Received]
    /\ subscribed \in [Conn -> BOOLEAN]
    /\ format \in [Conn -> Format]
    /\ last \in [Conn -> LastLine]

PeerType ==
    /\ peer \in [Conn -> {"new", "open", "closed"}]
    /\ command \in [Conn -> Command \cup {"none"}]
    /\ input \in [Conn -> Received]
    /\ output \in [Conn -> Seq(Line)]

\* Type correctness of the server, its threads and its connections.
TypeOK == ServerType /\ ServiceType /\ ThreadType /\ ConnType /\ PeerType

\* The elements of s are pairwise distinct.
Distinct(s) == \A i, j \in 1..Len(s) : s[i] = s[j] => i = j
Holds(s, c) == \E i \in 1..Len(s) : s[i] = c

\* The client array never outgrows CONTROL_MAX_CLIENTS and holds exactly the
\* open descriptors, each once: remove_client's move of the last client into
\* the freed slot neither leaks a descriptor nor closes one twice.
SlotsConsistent ==
    /\ Len(clients) <= MaxClients
    /\ Distinct(clients)
    /\ Distinct(backlog)
    /\ \A c \in Conn : /\ sock[c] = "open" <=> Holds(clients, c)
                       /\ sock[c] = "backlog" <=> Holds(backlog, c)

\* The events of control_thread's pass over the polled clients belong to the
\* client in the same slot, although slots move while the pass runs.
PollfdsAligned ==
    /\ tpc = "poll" =>
         /\ Len(pollfds.client) = Len(clients)
         /\ \A i \in 1..Len(clients) : pollfds.client[i].fd = clients[i]
    /\ tpc \in {"drain", "check", "clients"} =>
         /\ index <= Len(clients)
         /\ index <= Len(pollfds.client)
         /\ \A i \in 1..index : pollfds.client[i].fd = clients[i]

\* The broadcast that is under way or promised will still write to the
\* client in slot i.
BroadcastAhead(i) ==
    \/ tpc = "check"
    \/ should_broadcast /\ tpc = "clients"
    \/ tpc = "broadcast" /\ i >= index

\* No lost wakeup: a subscriber that has not been sent the current snapshot
\* of its format is owed a broadcast, because the state service has yet to
\* write its wake byte, or a byte is in the pipe, or the control thread has
\* drained it and not yet come to this subscriber.
NoLostSnapshot ==
    \A i \in 1..Len(clients) : LET c == clients[i] IN
        (subscribed[c] /\ last[c].rev # snapshot[format[c]]) =>
            \/ spc = "wake"
            \/ wake > 0
            \/ BroadcastAhead(i)
            \/ stopping
            \/ tpc = "exit"

\* README, "State and Eww data flow": "Every line is complete JSON".  write_all
\* gives up in the middle of a line when the nonblocking socket is full: the
\* fragment is the last thing the client is sent, and its connection is
\* closed, so that every line it can read to the end is complete.
TornIsLast ==
    \A c \in Conn : \A i \in 1..Len(output[c]) :
        ~output[c][i].whole => i = Len(output[c]) /\ sock[c] = "closed"

\* An action whose client was told "accepted" is in the queue or was handed
\* to the actions service, once, unless the server has been torn down; one
\* whose client was told "busy" never runs; the queue stays in its ring.
AcceptedOnce ==
    LET known == popped \o actions IN
    /\ Distinct(known)
    /\ Len(actions) <= MaxActions
    /\ \A c \in Conn :
         /\ last[c].text = "accepted" => spc = "off" \/ Holds(known, c)
         /\ last[c].text = "busy" => ~Holds(known, c)

\* A subscriber that is still there and reads its socket is closed only when
\* the thread ends: the removal of other clients never takes it along.
NoInnocentDropped ==
    [][\A c \in Conn :
         (/\ sock[c] = "open" /\ sock'[c] = "closed" /\ subscribed[c]
          /\ peer[c] = "open" /\ Len(output[c]) < SocketSize)
         => tpc = "exit"]_vars

\* Every subscriber is eventually sent a snapshot at least as new as each
\* one published, or it is disconnected.
CatchesUp ==
    \A c \in Conn : \A r \in Revision :
        (subscribed[c] /\ revision >= r)
          ~> (last[c].rev >= r \/ sock[c] = "closed")

\* A client that has sent a complete line is eventually answered or
\* disconnected.
Answered ==
    \A c \in Conn : (sock[c] # "none" /\ input[c] = "line")
                      ~> (last[c].text # "none" \/ sock[c] = "closed")

\* control.stop returns: the wake byte reaches the thread even when the pipe
\* is full, and pthread_join ends.
StopReturns == (spc = "stop wake") ~> (spc = "off")

-----------------------------------------------------------------------------
(* What the server promises subscribers, as a specification.               *)

FeedStatus == [c \in Conn |-> IF sock[c] = "closed" THEN "gone"
                              ELSE IF subscribed[c] THEN "subscribed"
                              ELSE "outside"]
FeedGot == [c \in Conn |-> IF subscribed[c] THEN last[c].rev ELSE 0]

F == INSTANCE Feed WITH Reader <- Conn, latest <- revision,
                        status <- FeedStatus, got <- FeedGot

\* The server implements a latest-value feed: the two formats subscribers
\* ask for are always of the revision published last, a subscription starts
\* with that revision, and each later line carries the revision current when
\* broadcast_snapshot writes it.
ImplementsFeed == F!Spec
=============================================================================
