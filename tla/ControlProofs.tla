--------------------------- MODULE ControlProofs ---------------------------
(***************************************************************************)
(* Safety of the control server, for every number of connections and every *)
(* size of the client array, the pipe, the backlog and the sockets.        *)
(***************************************************************************)
EXTENDS Control, TLAPS

\* What remove_client leaves: one client less, the last one in slot i.
LEMMA RemoveSlotIsSeq ==
    ASSUME NEW S, NEW s \in Seq(S), NEW i \in 1..Len(s)
    PROVE  /\ RemoveSlot(s, i) \in Seq(S)
           /\ Len(RemoveSlot(s, i)) = Len(s) - 1
           /\ \A j \in 1..(Len(s) - 1) :
                RemoveSlot(s, i)[j] = IF j = i THEN s[Len(s)] ELSE s[j]
<1>1. Len(s) \in Nat /\ Len(s) - 1 \in Nat /\ Len(s) \in 1..Len(s)
  OBVIOUS
<1>2. \A j \in 1..(Len(s) - 1) : (IF j = i THEN s[Len(s)] ELSE s[j]) \in S
  BY <1>1
<1>3. RemoveSlot(s, i) \in [1..(Len(s) - 1) -> S]
  BY <1>2 DEF RemoveSlot
<1>4. RemoveSlot(s, i) \in Seq(S) /\ Len(RemoveSlot(s, i)) = Len(s) - 1
  BY <1>1, <1>3
<1>5. QED
  BY <1>4 DEF RemoveSlot

\* The elements of a concatenation, by position.
LEMMA ConcatElements ==
    ASSUME NEW S, NEW s \in Seq(S), NEW t \in Seq(S)
    PROVE  /\ Len(s \o t) = Len(s) + Len(t)
           /\ \A i \in 1..Len(s) : (s \o t)[i] = s[i]
           /\ \A i \in 1..Len(t) : (s \o t)[Len(s) + i] = t[i]
  OBVIOUS

\* The program counters of the two threads, and what they imply.
Phases ==
    /\ spc = "new" => tpc = "none" /\ clients = <<>>
    /\ tpc \notin {"none", "done"} => spc \notin {"new", "off"}
    /\ spc \in {"stop wake", "join"} => stopping
    /\ spc # "off" => \A f \in Format : snapshot[f] = revision
    /\ tpc = "broadcast" => index >= 1

\* The life of a connection: not in the backlog before its client has
\* connected, not subscribed before it is accepted, sent no snapshot and
\* still open only if it is subscribed.
Lifecycle ==
    \A c \in Conn :
        /\ peer[c] = "new" => sock[c] = "none"
        /\ sock[c] \in {"none", "backlog"} => ~subscribed[c]
        /\ sock[c] # "closed" /\ ~subscribed[c] => last[c].rev = 0

\* A client whose input the pass is going to read is not subscribed: poll is
\* not asked for the input of subscribers.
ReadsUnsubscribed ==
    tpc \in {"drain", "check", "clients"} =>
        \A i \in 1..index :
            pollfds.client[i].revents = "in" => ~subscribed[clients[i]]

\* The inductive invariant.
Inv == /\ TypeOK
       /\ Phases
       /\ SlotsConsistent
       /\ PollfdsAligned
       /\ Lifecycle
       /\ ReadsUnsubscribed

\* The arrays, without the rest of the types.
LEMMA ArrayTypes ==
    ASSUME TypeOK
    PROVE  /\ clients \in Seq(Conn)
           /\ backlog \in Seq(Conn)
           /\ index \in Nat
           /\ Len(clients) \in Nat
           /\ Len(backlog) \in Nat
<1>1. clients \in Seq(Conn) /\ backlog \in Seq(Conn) /\ index \in Nat
  BY DEF TypeOK, ThreadType, ConnType
<1>2. QED
  BY <1>1

\* A slot of the array holds a connection.
LEMMA ClientAt ==
    ASSUME TypeOK, NEW i \in 1..Len(clients)
    PROVE  clients[i] \in Conn
<1>1. clients \in Seq(Conn)
  BY ArrayTypes
<1>2. QED
  BY <1>1

\* The three outcomes of write_all.
LEMMA WriteAllCases ==
    ASSUME NEW c, NEW line, NEW w \in WriteAll(c, line)
    PROVE  \/ w = [ok |-> FALSE, output |-> output[c]]
           \/ w = [ok |-> TRUE, output |-> Append(output[c], line)]
           \/ w = [ok |-> FALSE, output |-> Append(output[c], Torn(line))]
  BY Zenon DEF WriteAll

\* What write_all leaves in a socket is a sequence of lines.
LEMMA WriteAllType ==
    ASSUME TypeOK, NEW c \in Conn, NEW line \in Line, NEW w \in WriteAll(c, line)
    PROVE  w.ok \in BOOLEAN /\ w.output \in Seq(Line)
<1>1. Torn(line) \in Line
  BY DEF Torn, Line
<1>2. output[c] \in Seq(Line)
  BY DEF TypeOK, PeerType
<1>3. Append(output[c], line) \in Seq(Line)
  BY <1>2
<1>4. Append(output[c], Torn(line)) \in Seq(Line)
  BY <1>1, <1>2
<1>5. CASE w = [ok |-> FALSE, output |-> output[c]]
  BY <1>5, <1>2
<1>6. CASE w = [ok |-> TRUE, output |-> Append(output[c], line)]
  BY <1>6, <1>3
<1>7. CASE w = [ok |-> FALSE, output |-> Append(output[c], Torn(line))]
  BY <1>7, <1>4
<1>8. QED
  BY <1>5, <1>6, <1>7, WriteAllCases

\* Snapshots and replies are lines.
LEMMA LineTypes ==
    /\ \A r \in Revision : SnapshotLine(r) \in Line
    /\ \A t \in {"accepted", "busy", "unknown"} : ReplyLine(t) \in Line
  BY SizeAssumption DEF SnapshotLine, ReplyLine, Line, Revision

\* handle_command stores a format.
LEMMA FormatOfType == \A k : FormatOf(k) \in Format
  BY DEF FormatOf, Format

-----------------------------------------------------------------------------
(* Type correctness.                                                       *)

\* A write keeps output and last in their types.
LEMMA WrittenType ==
    ASSUME TypeOK, NEW c \in Conn, NEW line \in Line,
           NEW w \in WriteAll(c, line), Written(c, line, w)
    PROVE  /\ output' \in [Conn -> Seq(Line)]
           /\ last' \in [Conn -> LastLine]
<1>1. w.ok \in BOOLEAN /\ w.output \in Seq(Line)
  BY WriteAllType
<1>2. output' \in [Conn -> Seq(Line)]
  BY <1>1 DEF Written, TypeOK, PeerType
<1>3. last \in [Conn -> LastLine]
  BY DEF TypeOK, ConnType
<1>4. [text |-> line.text, rev |-> line.rev] \in LastLine
  BY DEF LastLine, Line
<1>5. last' \in [Conn -> LastLine]
  BY <1>3, <1>4 DEF Written
<1>6. QED
  BY <1>2, <1>5

\* What removing the client in slot i does to the types.
LEMMA RemoveClientType ==
    ASSUME TypeOK, NEW i \in 1..Len(clients), RemoveClient(i)
    PROVE  /\ clients' \in Seq(Conn)
           /\ sock' \in [Conn -> {"none", "backlog", "open", "closed"}]
<1>1. clients \in Seq(Conn)
  BY DEF TypeOK, ThreadType
<1>2. clients' = RemoveSlot(clients, i)
  BY DEF RemoveClient
<1>3. clients' \in Seq(Conn)
  BY <1>1, <1>2, RemoveSlotIsSeq
<1>4. sock' = [sock EXCEPT ![clients[i]] = "closed"]
  BY DEF RemoveClient
<1>5. sock' \in [Conn -> {"none", "backlog", "open", "closed"}]
  BY <1>4 DEF TypeOK, ConnType
<1>6. QED
  BY <1>3, <1>5

\* The variables a client's command may change.
ServedType ==
    /\ actions \in Seq(Conn)
    /\ clients \in Seq(Conn)
    /\ sock \in [Conn -> {"none", "backlog", "open", "closed"}]
    /\ buffer \in [Conn -> Received]
    /\ subscribed \in [Conn -> BOOLEAN]
    /\ format \in [Conn -> Format]
    /\ last \in [Conn -> LastLine]
    /\ output \in [Conn -> Seq(Line)]

\* handle_command keeps every variable in its type.
LEMMA HandleType ==
    ASSUME TypeOK, NEW i \in 1..Len(clients), HandleCommand(i),
           buffer' \in [Conn -> Received]
    PROVE  ServedType'
<1> DEFINE c == clients[i]
<1>c. c \in Conn
  BY ClientAt
<1>t. ServedType
  BY DEF TypeOK, ServerType, ThreadType, ConnType, PeerType, ServedType
<1>f. FormatOf(command[c]) \in Format
  BY FormatOfType
<1>s. SnapshotLine(snapshot[FormatOf(command[c])]) \in Line
  <2>1. snapshot \in [Format -> Revision]
    BY DEF TypeOK, ServerType
  <2>2. snapshot[FormatOf(command[c])] \in Revision
    BY <1>f, <2>1
  <2>3. QED
    BY <2>2, LineTypes
<1> HIDE DEF c
<1>1. CASE HandleStatus(i)
  <2>1. PICK w \in WriteAll(c, SnapshotLine(snapshot[FormatOf(command[c])])) :
          Written(c, SnapshotLine(snapshot[FormatOf(command[c])]), w)
    BY <1>1 DEF HandleStatus, c
  <2>2. output' \in [Conn -> Seq(Line)] /\ last' \in [Conn -> LastLine]
    BY <2>1, <1>c, <1>s, WrittenType
  <2>3. format' \in [Conn -> Format]
    BY <1>1, <1>f, <1>t, <1>c DEF HandleStatus, c, ServedType
  <2>4. clients' \in Seq(Conn) /\ sock' \in [Conn -> {"none", "backlog", "open", "closed"}]
    BY <1>1, RemoveClientType DEF HandleStatus
  <2>5. actions' = actions /\ subscribed' = subscribed
    BY <1>1 DEF HandleStatus
  <2>6. QED
    BY <2>2, <2>3, <2>4, <2>5, <1>t DEF ServedType
<1>2. CASE HandleSubscribe(i)
  <2>1. PICK w \in WriteAll(c, SnapshotLine(snapshot[FormatOf(command[c])])) :
          /\ Written(c, SnapshotLine(snapshot[FormatOf(command[c])]), w)
          /\ IF w.ok THEN KeepClients ELSE RemoveClient(i)
    BY <1>2 DEF HandleSubscribe, c
  <2>2. output' \in [Conn -> Seq(Line)] /\ last' \in [Conn -> LastLine]
    BY <2>1, <1>c, <1>s, WrittenType
  <2>3. /\ format' \in [Conn -> Format]
        /\ subscribed' \in [Conn -> BOOLEAN]
        /\ actions' = actions
    BY <1>2, <1>f, <1>t, <1>c DEF HandleSubscribe, c, ServedType
  <2>4. clients' \in Seq(Conn) /\ sock' \in [Conn -> {"none", "backlog", "open", "closed"}]
    <3>1. CASE KeepClients
      BY <3>1, <1>t DEF KeepClients, ServedType
    <3>2. CASE RemoveClient(i)
      BY <3>2, RemoveClientType
    <3>3. QED
      BY <2>1, <3>1, <3>2
  <2>5. QED
    BY <2>2, <2>3, <2>4, <1>t DEF ServedType
<1>3. CASE HandleAction(i)
  <2>1. PICK ok \in BOOLEAN :
          /\ EnqueueAction(c, ok)
          /\ \E w \in WriteAll(c, ReplyLine(IF ok THEN "accepted" ELSE "busy")) :
               Written(c, ReplyLine(IF ok THEN "accepted" ELSE "busy"), w)
    BY <1>3 DEF HandleAction, c
  <2>2. ReplyLine(IF ok THEN "accepted" ELSE "busy") \in Line
    BY LineTypes
  <2>3. output' \in [Conn -> Seq(Line)] /\ last' \in [Conn -> LastLine]
    BY <2>1, <2>2, <1>c, WrittenType
  <2>4. actions' \in Seq(Conn)
    BY <2>1, <1>c, <1>t DEF EnqueueAction, ServedType
  <2>5. clients' \in Seq(Conn) /\ sock' \in [Conn -> {"none", "backlog", "open", "closed"}]
    BY <1>3, RemoveClientType DEF HandleAction
  <2>6. subscribed' = subscribed /\ format' = format
    BY <1>3 DEF HandleAction
  <2>7. QED
    BY <2>3, <2>4, <2>5, <2>6, <1>t DEF ServedType
<1>4. CASE HandleUnknown(i)
  <2>1. PICK w \in WriteAll(c, ReplyLine("unknown")) :
          Written(c, ReplyLine("unknown"), w)
    BY <1>4 DEF HandleUnknown, c
  <2>2. output' \in [Conn -> Seq(Line)] /\ last' \in [Conn -> LastLine]
    BY <2>1, <1>c, LineTypes, WrittenType
  <2>3. clients' \in Seq(Conn) /\ sock' \in [Conn -> {"none", "backlog", "open", "closed"}]
    BY <1>4, RemoveClientType DEF HandleUnknown
  <2>4. actions' = actions /\ subscribed' = subscribed /\ format' = format
    BY <1>4 DEF HandleUnknown
  <2>5. QED
    BY <2>2, <2>3, <2>4, <1>t DEF ServedType
<1>5. QED
  BY <1>1, <1>2, <1>3, <1>4 DEF HandleCommand

\* In the pass over the polled clients index is a slot of the array.
LEMMA PassIndex ==
    ASSUME TypeOK, PollfdsAligned, tpc = "clients", index > 0
    PROVE  /\ index \in 1..Len(clients)
           /\ index \in 1..Len(pollfds.client)
           /\ clients[index] \in Conn
<1>1. index <= Len(clients) /\ index <= Len(pollfds.client)
  BY DEF PollfdsAligned
<1>2. index \in 1..Len(clients)
  BY <1>1, ArrayTypes
<1>3. Len(pollfds.client) \in Nat
  <2>1. pollfds.client \in Seq(Polled)
    BY DEF TypeOK, ThreadType
  <2>2. QED
    BY <2>1
<1>4. index \in 1..Len(pollfds.client)
  BY <1>1, <1>2, <1>3
<1>5. QED
  BY <1>2, <1>4, ClientAt

\* So does one round of the loop over the polled clients.
LEMMA ServeClientType ==
    ASSUME TypeOK, PollfdsAligned, ServeClient
    PROVE  ServedType'
<1>1. tpc = "clients" /\ index > 0
  BY DEF ServeClient
<1>2. index \in 1..Len(clients) /\ clients[index] \in Conn
  BY <1>1, PassIndex
<1>3. ServedType
  BY DEF TypeOK, ServerType, ThreadType, ConnType, PeerType, ServedType
<1>4. CASE RemoveClient(index)
           /\ UNCHANGED <<actions, buffer, subscribed, format, last, output>>
  BY <1>2, <1>3, <1>4, RemoveClientType DEF ServedType
<1>5. CASE KeepClients
           /\ UNCHANGED <<actions, buffer, subscribed, format, last, output>>
  BY <1>3, <1>5 DEF KeepClients, ServedType
<1>6. CASE ReadCommand(index)
  <2>1. buffer' \in [Conn -> Received]
    <3>1. buffer' = [buffer EXCEPT ![clients[index]] = input[clients[index]]]
      BY <1>6 DEF ReadCommand
    <3>2. input[clients[index]] \in Received
      BY <1>2 DEF TypeOK, PeerType
    <3>3. QED
      BY <3>1, <3>2, <1>3 DEF ServedType
  <2>2. CASE HandleCommand(index)
    BY <2>1, <2>2, <1>2, HandleType
  <2>3. CASE /\ RemoveClient(index) \/ KeepClients
             /\ UNCHANGED <<actions, subscribed, format, last, output>>
    <3>1. clients' \in Seq(Conn) /\ sock' \in [Conn -> {"none", "backlog", "open", "closed"}]
      <4>1. CASE RemoveClient(index)
        BY <4>1, <1>2, RemoveClientType
      <4>2. CASE KeepClients
        BY <4>2, <1>3 DEF KeepClients, ServedType
      <4>3. QED
        BY <2>3, <4>1, <4>2
    <3>2. QED
      BY <3>1, <2>1, <2>3, <1>3 DEF ServedType
  <2>4. QED
    BY <1>6, <2>2, <2>3 DEF ReadCommand
<1>7. QED
  BY <1>4, <1>5, <1>6 DEF ServeClient

\* accept_clients: the slots taken from the head of the backlog.
Room == MaxClients - Len(clients)
Taken == IF Len(backlog) <= Room THEN Len(backlog) ELSE Room

\* accept_clients takes no more than the backlog has and the array can hold.
LEMMA TakenBounds ==
    ASSUME TypeOK, Len(clients) <= MaxClients
    PROVE  /\ Taken \in 0..Len(backlog)
           /\ Len(clients) + Taken <= MaxClients
           /\ SubSeq(backlog, 1, Taken) \in Seq(Conn)
           /\ Len(SubSeq(backlog, 1, Taken)) = Taken
           /\ \A i \in 1..Taken : SubSeq(backlog, 1, Taken)[i] = backlog[i]
<1>1. Len(clients) \in Nat /\ Len(backlog) \in Nat /\ MaxClients \in Nat
  BY SizeAssumption, ArrayTypes
<1>2. Taken \in 0..Len(backlog) /\ Len(clients) + Taken <= MaxClients
  BY <1>1 DEF Taken, Room
<1>3. backlog \in Seq(Conn)
  BY ArrayTypes
<1>4. QED
  BY <1>2, <1>3

\* The initial values.
LEMMA Zeroes == /\ 0 \in 0..PipeSize /\ 0 \in Revision /\ 0 \in Nat
                /\ [f \in Format |-> 0] \in [Format -> Revision]
                /\ <<>> \in Seq(Conn)
                /\ NoPollfds \in [listener : BOOLEAN, client : Seq(Polled)]
<1>1. 0 \in 0..PipeSize /\ 0 \in Revision /\ 0 \in Nat
  BY SizeAssumption DEF Revision
<1>2. [f \in Format |-> 0] \in [Format -> Revision]
  BY <1>1
<1>3. <<>> \in Seq(Conn) /\ <<>> \in Seq(Polled)
  OBVIOUS
<1>4. NoPollfds \in [listener : BOOLEAN, client : Seq(Polled)]
  BY <1>3 DEF NoPollfds
<1>5. QED
  BY <1>1, <1>2, <1>3, <1>4

\* The initial state is well typed.
LEMMA TypeInit == Init => TypeOK
<1> SUFFICES ASSUME Init PROVE TypeOK
  OBVIOUS
<1>1. ServerType
  BY Zeroes, Zenon DEF Init, ServerType
<1>2. ServiceType
  BY SizeAssumption DEF Init, ServiceType, Revision
<1>3. ThreadType
  BY Zeroes, Zenon DEF Init, ThreadType
<1>4. ConnType
  <2>1. [text |-> "none", rev |-> 0] \in LastLine
    BY SizeAssumption DEF LastLine, Revision
  <2>2. QED
    BY <2>1 DEF Init, ConnType, Received, Format
<1>5. PeerType
  BY DEF Init, PeerType, Received
<1>6. QED
  BY <1>1, <1>2, <1>3, <1>4, <1>5 DEF TypeOK

\* A part whose variables a step leaves alone keeps its type.
LEMMA UntouchedTypes ==
    ASSUME TypeOK
    PROVE  /\ UNCHANGED serverVars => ServerType'
           /\ UNCHANGED serviceVars => ServiceType'
           /\ UNCHANGED threadVars => ThreadType'
           /\ UNCHANGED connVars => ConnType'
           /\ UNCHANGED peerVars => PeerType'
<1>1. UNCHANGED serverVars => ServerType'
  BY DEF TypeOK, ServerType, serverVars
<1>2. UNCHANGED serviceVars => ServiceType'
  BY DEF TypeOK, ServiceType, serviceVars
<1>3. UNCHANGED threadVars => ThreadType'
  BY DEF TypeOK, ThreadType, threadVars
<1>4. UNCHANGED connVars => ConnType'
  BY DEF TypeOK, ConnType, connVars
<1>5. UNCHANGED peerVars => PeerType'
  BY DEF TypeOK, PeerType, peerVars
<1>6. QED
  BY <1>1, <1>2, <1>3, <1>4, <1>5

\* start, publish and stop keep the types.
LEMMA StateServiceType ==
    ASSUME TypeOK, StateService
    PROVE  TypeOK'
<1>u. PeerType' /\ (ThreadType' \/ Start) /\ (ConnType' \/ StopJoin)
  BY UntouchedTypes DEF StateService, Start, StartFails, PublishStore, PublishWake,
     StopRequest, StopWake, StopJoin
<1>w. WriteWakeByte => wake' \in 0..PipeSize
  BY SizeAssumption DEF WriteWakeByte, TypeOK, ServerType
<1>1. CASE Start
  <2>1. ServerType' /\ ServiceType'
    BY <1>1, Zeroes, Zenon DEF Start, TypeOK, ServerType, ServiceType
  <2>2. ThreadType'
    BY <1>1 DEF Start, TypeOK, ThreadType
  <2>3. ConnType'
    BY <1>1, UntouchedTypes DEF Start
  <2>4. QED
    BY <2>1, <2>2, <2>3, <1>u DEF TypeOK
<1>2. CASE StartFails
  <2>1. ServerType' /\ ServiceType' /\ ThreadType' /\ ConnType'
    <3>1. ServerType' /\ ServiceType'
      BY <1>2 DEF StartFails, TypeOK, ServerType, ServiceType
    <3>2. QED
      BY <1>2, <3>1, UntouchedTypes DEF StartFails
  <2>2. QED
    BY <2>1, <1>u DEF TypeOK
<1>3. CASE PublishStore
  <2>1. revision + 1 \in Revision
    BY <1>3, SizeAssumption DEF PublishStore, TypeOK, ServiceType, Revision
  <2>2. ServerType' /\ ServiceType'
    BY <1>3, <2>1 DEF PublishStore, StoredSnapshots, TypeOK, ServerType, ServiceType
  <2>3. ThreadType' /\ ConnType'
    BY <1>3, UntouchedTypes DEF PublishStore
  <2>4. QED
    BY <2>2, <2>3, <1>u DEF TypeOK
<1>4. CASE PublishWake
  <2>1. ServerType' /\ ServiceType'
    BY <1>4, <1>w DEF PublishWake, TypeOK, ServerType, ServiceType
  <2>2. ThreadType' /\ ConnType'
    BY <1>4, UntouchedTypes DEF PublishWake
  <2>3. QED
    BY <2>1, <2>2, <1>u DEF TypeOK
<1>5. CASE StopRequest
  <2>1. ServerType' /\ ServiceType'
    BY <1>5 DEF StopRequest, TypeOK, ServerType, ServiceType
  <2>2. ThreadType' /\ ConnType'
    BY <1>5, UntouchedTypes DEF StopRequest
  <2>3. QED
    BY <2>1, <2>2, <1>u DEF TypeOK
<1>6. CASE StopWake
  <2>1. ServerType' /\ ServiceType'
    BY <1>6, <1>w DEF StopWake, TypeOK, ServerType, ServiceType
  <2>2. ThreadType' /\ ConnType'
    BY <1>6, UntouchedTypes DEF StopWake
  <2>3. QED
    BY <2>1, <2>2, <1>u DEF TypeOK
<1>7. CASE StopJoin
  <2>1. ServerType' /\ ServiceType'
    BY <1>7, Zeroes, Zenon DEF StopJoin, TypeOK, ServerType, ServiceType
  <2>2. ConnType'
    BY <1>7 DEF StopJoin, TypeOK, ConnType
  <2>3. ThreadType'
    BY <1>7, UntouchedTypes DEF StopJoin
  <2>4. QED
    BY <2>1, <2>2, <2>3, <1>u DEF TypeOK
<1>8. QED
  BY <1>1, <1>2, <1>3, <1>4, <1>5, <1>6, <1>7 DEF StateService

\* Laying out the pollfds keeps the types.
LEMMA LoopTopType ==
    ASSUME TypeOK, LoopTop
    PROVE  ThreadType'
<1>1. ASSUME NEW i \in 1..Len(clients)
      PROVE  [fd |-> clients[i], revents |-> "none"] \in Polled
  BY ClientAt DEF Polled
<1> DEFINE q == [i \in 1..Len(clients) |-> [fd |-> clients[i], revents |-> "none"]]
<1>2. q \in Seq(Polled)
  BY <1>1, ArrayTypes
<1>3. pollfds' \in [listener : BOOLEAN, client : Seq(Polled)]
  <2>1. CASE stopping
    BY <2>1 DEF LoopTop, TypeOK, ThreadType
  <2>2. CASE ~stopping
    <3>1. pollfds' = [listener |-> FALSE, client |-> q]
      BY <2>2 DEF LoopTop
    <3> HIDE DEF q
    <3>2. QED
      BY <3>1, <1>2
  <2>3. QED
    BY <2>1, <2>2
<1>4. tpc' \in {"exit", "poll"}
  BY DEF LoopTop
<1>5. QED
  BY <1>3, <1>4 DEF LoopTop, TypeOK, ThreadType

\* poll() keeps the types.
LEMMA PollType ==
    ASSUME TypeOK, Poll
    PROVE  ThreadType'
<1> DEFINE n == Len(pollfds.client)
           q == [i \in 1..n |-> [fd |-> pollfds.client[i].fd,
                                 revents |-> Revents(pollfds.client[i].fd)]]
<1>1. pollfds.client \in Seq(Polled)
  BY DEF TypeOK, ThreadType
<1>2. n \in Nat
  BY <1>1
<1>3. ASSUME NEW i \in 1..n
      PROVE  [fd |-> pollfds.client[i].fd,
              revents |-> Revents(pollfds.client[i].fd)] \in Polled
  <2>1. pollfds.client[i] \in Polled
    BY <1>1
  <2>2. pollfds.client[i].fd \in Conn
    BY <2>1 DEF Polled
  <2>3. Revents(pollfds.client[i].fd) \in {"none", "in", "hup"}
    BY DEF Revents
  <2>4. QED
    BY <2>2, <2>3 DEF Polled
<1>4. q \in Seq(Polled)
  BY <1>2, <1>3
<1>5. pollfds' = [listener |-> backlog # <<>>, client |-> q]
  BY DEF Poll
<1>6. pollfds' \in [listener : BOOLEAN, client : Seq(Polled)]
  BY <1>4, <1>5
<1>7. index' \in Nat
  BY <1>2 DEF Poll, PolledClientCount
<1>8. tpc' \in {"drain", "clients"}
  BY DEF Poll
<1>9. QED
  BY <1>6, <1>7, <1>8 DEF Poll, TypeOK, ThreadType

\* accept_clients keeps the types.
LEMMA AcceptType ==
    ASSUME TypeOK, SlotsConsistent, AcceptClients
    PROVE  ThreadType' /\ ConnType'
<1>1. clients' \in Seq(Conn) /\ backlog' \in Seq(Conn)
      /\ sock' \in [Conn -> {"none", "backlog", "open", "closed"}]
  <2>1. CASE pollfds.listener
    <3>1. /\ clients' = clients \o SubSeq(backlog, 1, Taken)
          /\ backlog' = <<>>
          /\ sock' = [c \in Conn |->
                        IF sock[c] # "backlog" THEN sock[c]
                        ELSE IF [d \in Conn |-> \E i \in 1..Taken : backlog[i] = d][c]
                             THEN "open" ELSE "closed"]
      BY <2>1 DEF AcceptClients, Taken, Room
    <3>2. SubSeq(backlog, 1, Taken) \in Seq(Conn)
      BY TakenBounds DEF SlotsConsistent
    <3>3. clients' \in Seq(Conn)
      BY <3>1, <3>2, ArrayTypes
    <3>4. sock' \in [Conn -> {"none", "backlog", "open", "closed"}]
      BY <3>1 DEF TypeOK, ConnType
    <3>5. QED
      BY <3>1, <3>3, <3>4
  <2>2. CASE ~pollfds.listener
    BY <2>2 DEF AcceptClients, TypeOK, ThreadType, ConnType
  <2>3. QED
    BY <2>1, <2>2
<1>2. /\ index' \in Nat
      /\ tpc' \in {"broadcast", "top"}
      /\ should_broadcast' = FALSE
      /\ pollfds' = NoPollfds
  BY DEF AcceptClients
<1>3. ThreadType'
  BY <1>1, <1>2, Zeroes DEF ThreadType
<1>4. ConnType'
  BY <1>1 DEF AcceptClients, TypeOK, ConnType
<1>5. QED
  BY <1>3, <1>4

\* One round of broadcast_snapshot: a client that is skipped, written to or
\* removed.
LEMMA BroadcastCases ==
    ASSUME TypeOK, Phases, BroadcastClient
    PROVE  /\ index \in 1..Len(clients)
           /\ clients[index] \in Conn
           /\ SnapshotLine(snapshot[format[clients[index]]]) \in Line
           /\ \/ /\ ~subscribed[clients[index]]
                 /\ index' = index + 1
                 /\ KeepClients
                 /\ UNCHANGED <<last, output>>
              \/ /\ subscribed[clients[index]]
                 /\ \E w \in WriteAll(clients[index],
                         SnapshotLine(snapshot[format[clients[index]]])) :
                      /\ Written(clients[index],
                           SnapshotLine(snapshot[format[clients[index]]]), w)
                      /\ \/ w.ok = TRUE /\ index' = index + 1 /\ KeepClients
                         \/ w.ok = FALSE /\ index' = index /\ RemoveClient(index)
<1>1. index \in 1..Len(clients)
  <2>1. index <= Len(clients) /\ tpc = "broadcast"
    BY Zenon DEF BroadcastClient
  <2>2. index >= 1
    BY <2>1, Zenon DEF Phases
  <2>3. QED
    BY <2>1, <2>2, ArrayTypes
<1>2. clients[index] \in Conn
  BY <1>1, ClientAt
<1> DEFINE c == clients[index]
           line == SnapshotLine(snapshot[format[c]])
<1>3. line \in Line
  <2>1. format \in [Conn -> Format] /\ snapshot \in [Format -> Revision]
    BY DEF TypeOK, ServerType, ConnType
  <2>2. snapshot[format[c]] \in Revision
    BY <2>1, <1>2
  <2>3. QED
    BY <2>2, LineTypes
<1>4. \/ /\ ~subscribed[c]
         /\ index' = NextSlot(index, TRUE)
         /\ KeepClients
         /\ UNCHANGED <<last, output>>
      \/ /\ subscribed[c]
         /\ \E w \in WriteAll(c, line) :
              /\ Written(c, line, w)
              /\ index' = NextSlot(index, w.ok)
              /\ IF w.ok THEN KeepClients ELSE RemoveClient(index)
  BY Zenon DEF BroadcastClient
<1> HIDE DEF c, line
<1>5. CASE /\ ~subscribed[c]
           /\ index' = NextSlot(index, TRUE)
           /\ KeepClients
           /\ UNCHANGED <<last, output>>
  BY <1>1, <1>2, <1>3, <1>5 DEF NextSlot, c, line
<1>6. ASSUME subscribed[c], NEW w \in WriteAll(c, line), Written(c, line, w),
             index' = NextSlot(index, w.ok),
             IF w.ok THEN KeepClients ELSE RemoveClient(index)
      PROVE  \/ w.ok = TRUE /\ index' = index + 1 /\ KeepClients
             \/ w.ok = FALSE /\ index' = index /\ RemoveClient(index)
  <2>1. w.ok \in BOOLEAN
    BY <1>2, <1>3, WriteAllType DEF c
  <2>2. QED
    BY <2>1, <1>6 DEF NextSlot
<1>7. QED
  BY <1>1, <1>2, <1>3, <1>4, <1>5, <1>6, Zenon DEF c, line

\* broadcast_snapshot keeps the types.
LEMMA BroadcastType ==
    ASSUME TypeOK, Phases, BroadcastClient
    PROVE  ThreadType' /\ ConnType' /\ PeerType'
<1> DEFINE c == clients[index]
           line == SnapshotLine(snapshot[format[c]])
<1>1. index \in 1..Len(clients) /\ c \in Conn /\ line \in Line
  BY BroadcastCases
<1>2. /\ output' \in [Conn -> Seq(Line)] /\ last' \in [Conn -> LastLine]
      /\ index' \in Nat
      /\ KeepClients \/ RemoveClient(index)
  <2>1. CASE KeepClients /\ index' = index + 1 /\ UNCHANGED <<last, output>>
    BY <2>1, <1>1 DEF TypeOK, ConnType, PeerType
  <2>2. ASSUME NEW w \in WriteAll(c, line), Written(c, line, w),
               \/ index' = index + 1 /\ KeepClients
               \/ index' = index /\ RemoveClient(index)
        PROVE  <1>2!:
    BY <2>2, <1>1, WrittenType
  <2>3. QED
    BY <2>1, <2>2, BroadcastCases, Zenon
<1>3. clients' \in Seq(Conn) /\ sock' \in [Conn -> {"none", "backlog", "open", "closed"}]
  <2>1. CASE KeepClients
    BY <2>1 DEF KeepClients, TypeOK, ThreadType, ConnType
  <2>2. CASE RemoveClient(index)
    BY <2>2, <1>1, RemoveClientType
  <2>3. QED
    BY <1>2, <2>1, <2>2
<1>4. ThreadType'
  BY <1>2, <1>3 DEF BroadcastClient, TypeOK, ThreadType
<1>5. ConnType'
  BY <1>2, <1>3 DEF BroadcastClient, TypeOK, ConnType
<1>6. PeerType'
  BY <1>2 DEF BroadcastClient, TypeOK, PeerType
<1>7. QED
  BY <1>4, <1>5, <1>6

\* What clients do keeps the types.
LEMMA ClientType ==
    ASSUME TypeOK, NEW c \in Conn, Client(c)
    PROVE  ConnType' /\ PeerType'
<1>1. CASE ClientConnect(c)
  <2>1. backlog' \in Seq(Conn)
    BY <1>1, ArrayTypes DEF ClientConnect
  <2>2. ConnType'
    BY <2>1, <1>1 DEF ClientConnect, TypeOK, ConnType
  <2>3. PeerType'
    BY <1>1 DEF ClientConnect, TypeOK, PeerType
  <2>4. QED
    BY <2>2, <2>3
<1>2. CASE ClientSend(c)
  <2>1. PeerType'
    BY <1>2 DEF ClientSend, TypeOK, PeerType, Received
  <2>2. QED
    BY <2>1, <1>2, UntouchedTypes DEF ClientSend
<1>3. CASE ClientRead(c)
  <2>1. output[c] \in Seq(Line) /\ output[c] # <<>>
    BY <1>3 DEF ClientRead, TypeOK, PeerType
  <2>2. Tail(output[c]) \in Seq(Line)
    BY <2>1
  <2>3. output' \in [Conn -> Seq(Line)]
    BY <2>2, <1>3 DEF ClientRead, TypeOK, PeerType
  <2>4. PeerType'
    BY <2>3, <1>3 DEF ClientRead, TypeOK, PeerType
  <2>5. QED
    BY <2>4, <1>3, UntouchedTypes DEF ClientRead
<1>4. CASE ClientClose(c)
  <2>1. output' \in [Conn -> Seq(Line)]
    BY <1>4 DEF ClientClose, TypeOK, PeerType
  <2>2. PeerType'
    BY <2>1, <1>4 DEF ClientClose, TypeOK, PeerType
  <2>3. QED
    BY <2>2, <1>4, UntouchedTypes DEF ClientClose
<1>5. QED
  BY <1>1, <1>2, <1>3, <1>4 DEF Client

\* Every step keeps the types.
LEMMA TypeStep ==
    ASSUME TypeOK, Phases, PollfdsAligned, SlotsConsistent, [Next]_vars
    PROVE  TypeOK'
<1>1. CASE StateService
  BY <1>1, StateServiceType
<1>2. CASE PopAction
  <2>1. actions \in Seq(Conn) /\ popped \in Seq(Conn) /\ actions # <<>>
    BY <1>2 DEF PopAction, TypeOK, ServerType, ServiceType
  <2>2. actions' \in Seq(Conn) /\ popped' \in Seq(Conn)
    BY <2>1, <1>2 DEF PopAction
  <2>3. ServerType' /\ ServiceType'
    BY <2>2, <1>2 DEF PopAction, TypeOK, ServerType, ServiceType
  <2>4. QED
    BY <2>3, <1>2, UntouchedTypes DEF PopAction, TypeOK
<1>3. CASE LoopTop
  BY <1>3, LoopTopType, UntouchedTypes DEF LoopTop, TypeOK
<1>4. CASE Poll
  BY <1>4, PollType, UntouchedTypes DEF Poll, TypeOK
<1>5. CASE PollError
  <2>1. ThreadType'
    BY <1>5, Zeroes DEF PollError, TypeOK, ThreadType
  <2>2. QED
    BY <2>1, <1>5, UntouchedTypes DEF PollError, TypeOK
<1>6. CASE DrainWakePipe
  <2>1. ServerType'
    BY <1>6, Zeroes DEF DrainWakePipe, TypeOK, ServerType
  <2>2. ThreadType'
    BY <1>6 DEF DrainWakePipe, TypeOK, ThreadType
  <2>3. QED
    BY <2>1, <2>2, <1>6, UntouchedTypes DEF DrainWakePipe, TypeOK
<1>7. CASE CheckStopping
  <2>1. ThreadType'
    BY <1>7 DEF CheckStopping, TypeOK, ServerType, ThreadType
  <2>2. QED
    BY <2>1, <1>7, UntouchedTypes DEF CheckStopping, TypeOK
<1>8. CASE ServeClient
  <2>1. ServedType'
    BY <1>8, ServeClientType
  <2>2. index' \in Nat
    BY <1>8, ArrayTypes DEF ServeClient
  <2>3. ServerType'
    BY <2>1, <1>8 DEF ServeClient, TypeOK, ServerType, ServedType
  <2>4. ThreadType'
    BY <2>1, <2>2, <1>8 DEF ServeClient, TypeOK, ThreadType, ServedType
  <2>5. ConnType'
    BY <2>1, <1>8 DEF ServeClient, TypeOK, ConnType, ServedType
  <2>6. PeerType'
    BY <2>1, <1>8 DEF ServeClient, TypeOK, PeerType, ServedType
  <2>7. QED
    BY <2>3, <2>4, <2>5, <2>6, <1>8, UntouchedTypes DEF ServeClient, TypeOK
<1>9. CASE AcceptClients
  BY <1>9, AcceptType, UntouchedTypes DEF AcceptClients, TypeOK
<1>10. CASE BroadcastClient
  BY <1>10, BroadcastType, UntouchedTypes DEF BroadcastClient, TypeOK
<1>11. CASE BroadcastDone
  <2>1. ThreadType'
    BY <1>11 DEF BroadcastDone, TypeOK, ThreadType
  <2>2. QED
    BY <2>1, <1>11, UntouchedTypes DEF BroadcastDone, TypeOK
<1>12. CASE ThreadExit
  <2>1. ThreadType'
    BY <1>12, Zeroes DEF ThreadExit, TypeOK, ThreadType
  <2>2. ConnType'
    BY <1>12 DEF ThreadExit, TypeOK, ConnType
  <2>3. QED
    BY <2>1, <2>2, <1>12, UntouchedTypes DEF ThreadExit, TypeOK
<1>13. ASSUME NEW c \in Conn, Client(c)
       PROVE  TypeOK'
  <2>1. UNCHANGED <<serverVars, serviceVars, threadVars>>
    BY <1>13 DEF Client, ClientConnect, ClientSend, ClientRead, ClientClose
  <2>2. QED
    BY <2>1, <1>13, ClientType, UntouchedTypes DEF TypeOK
<1>14. CASE UNCHANGED vars
  BY <1>14, UntouchedTypes DEF vars, TypeOK
<1>15. QED
  BY <1>1, <1>2, <1>3, <1>4, <1>5, <1>6, <1>7, <1>8, <1>9, <1>10, <1>11, <1>12,
     <1>13, <1>14 DEF Next, ControlThread, Terminated

-----------------------------------------------------------------------------
(* The program counters.                                                   *)

\* Every step keeps the relation between the two program counters and the
\* flags.
LEMMA PhasesStep ==
    ASSUME TypeOK, Phases, [Next]_vars
    PROVE  Phases'
<1> USE DEF serverVars, serviceVars, threadVars
<1>1. CASE Start
  BY <1>1 DEF Start, Phases
<1>2. CASE StartFails
  BY <1>2 DEF StartFails, Phases
<1>3. CASE PublishStore
  BY <1>3 DEF PublishStore, StoredSnapshots, Phases
<1>4. CASE PublishWake
  BY <1>4 DEF PublishWake, Phases
<1>5. CASE StopRequest
  BY <1>5 DEF StopRequest, Phases
<1>6. CASE StopWake
  BY <1>6 DEF StopWake, Phases
<1>7. CASE StopJoin
  BY <1>7 DEF StopJoin, Phases
<1>8. CASE PopAction
  BY <1>8 DEF PopAction, Phases
<1>9. CASE LoopTop
  BY <1>9 DEF LoopTop, Phases
<1>10. CASE Poll
  BY <1>10 DEF Poll, Phases
<1>11. CASE PollError
  BY <1>11 DEF PollError, Phases
<1>12. CASE DrainWakePipe
  BY <1>12 DEF DrainWakePipe, Phases
<1>13. CASE CheckStopping
  BY <1>13 DEF CheckStopping, Phases
<1>14. CASE ServeClient
  BY <1>14 DEF ServeClient, Phases
<1>15. CASE AcceptClients
  <2>1. /\ UNCHANGED <<stopping, snapshot, spc, revision>>
        /\ tpc = "clients"
        /\ tpc' \in {"broadcast", "top"}
        /\ tpc' = "broadcast" => index' = 1
    BY <1>15, Zenon DEF AcceptClients
  <2>2. tpc' = "broadcast" => index' >= 1
    BY <2>1
  <2>3. spc \notin {"new", "off"} /\ (spc # "off" => \A f \in Format : snapshot[f] = revision)
        /\ (spc \in {"stop wake", "join"} => stopping)
    BY <2>1, Zenon DEF Phases
  <2>4. QED
    BY <2>1, <2>2, <2>3, Zenon DEF Phases
<1>16. CASE BroadcastClient
  <2>1. index' \in {index, index + 1} /\ index \in Nat /\ index >= 1
    <3>1. index \in 1..Len(clients) /\ index' \in {index, index + 1}
      BY <1>16, BroadcastCases
    <3>2. QED
      BY <3>1, ArrayTypes
  <2>2. index' >= 1
    BY <2>1
  <2>3. QED
    BY <2>2, <1>16 DEF BroadcastClient, Phases
<1>17. CASE BroadcastDone
  BY <1>17 DEF BroadcastDone, Phases
<1>18. CASE ThreadExit
  BY <1>18 DEF ThreadExit, Phases
<1>19. ASSUME NEW c \in Conn, Client(c)
       PROVE  Phases'
  BY <1>19 DEF Client, ClientConnect, ClientSend, ClientRead, ClientClose, Phases
<1>20. CASE UNCHANGED vars
  BY <1>20 DEF vars, Phases
<1>21. QED
  BY <1>1, <1>2, <1>3, <1>4, <1>5, <1>6, <1>7, <1>8, <1>9, <1>10, <1>11, <1>12,
     <1>13, <1>14, <1>15, <1>16, <1>17, <1>18, <1>19, <1>20
     DEF Next, StateService, ControlThread, Terminated

-----------------------------------------------------------------------------
(* The array of clients and the descriptors.                               *)

\* The connections a sequence of distinct ones holds once slot i is gone.
LEMMA RemoveSlotHolds ==
    ASSUME NEW S, NEW s \in Seq(S), NEW i \in 1..Len(s), Distinct(s)
    PROVE  /\ Distinct(RemoveSlot(s, i))
           /\ \A c : Holds(RemoveSlot(s, i), c) <=> Holds(s, c) /\ c # s[i]
<1> DEFINE r == RemoveSlot(s, i)
<1>1. /\ Len(s) \in Nat
      /\ Len(r) = Len(s) - 1
      /\ \A j \in 1..(Len(s) - 1) : r[j] = IF j = i THEN s[Len(s)] ELSE s[j]
  BY RemoveSlotIsSeq
<1> HIDE DEF r
<1>2. Distinct(r)
  BY <1>1 DEF Distinct
<1>3. ASSUME NEW c, Holds(r, c)
      PROVE  Holds(s, c) /\ c # s[i]
  <2>1. PICK j \in 1..Len(r) : r[j] = c
    BY <1>3 DEF Holds
  <2>2. CASE j = i
    <3>1. c = s[Len(s)] /\ Len(s) \in 1..Len(s) /\ Len(s) # i
      BY <2>1, <2>2, <1>1
    <3>2. QED
      BY <3>1 DEF Holds, Distinct
  <2>3. CASE j # i
    <3>1. c = s[j] /\ j \in 1..Len(s)
      BY <2>1, <2>3, <1>1
    <3>2. QED
      BY <3>1, <2>3 DEF Holds, Distinct
  <2>4. QED
    BY <2>2, <2>3
<1>4. ASSUME NEW c, Holds(s, c), c # s[i]
      PROVE  Holds(r, c)
  <2>1. PICK j \in 1..Len(s) : s[j] = c
    BY <1>4 DEF Holds
  <2>2. CASE j = Len(s)
    <3>1. i \in 1..Len(r) /\ r[i] = c
      BY <2>1, <2>2, <1>1, <1>4
    <3>2. QED
      BY <3>1 DEF Holds
  <2>3. CASE j # Len(s)
    <3>1. j \in 1..Len(r) /\ r[j] = c
      BY <2>1, <2>3, <1>1, <1>4
    <3>2. QED
      BY <3>1 DEF Holds
  <2>4. QED
    BY <2>2, <2>3
<1>5. QED
  BY <1>2, <1>3, <1>4 DEF r

\* remove_client keeps array and descriptors in step.
LEMMA RemoveKeepsSlots ==
    ASSUME TypeOK, SlotsConsistent, NEW i \in 1..Len(clients), RemoveClient(i),
           UNCHANGED backlog
    PROVE  SlotsConsistent'
<1>1. clients \in Seq(Conn) /\ clients[i] \in Conn /\ Len(clients) \in Nat
  BY ArrayTypes, ClientAt
<1>2. clients' = RemoveSlot(clients, i)
      /\ sock' = [sock EXCEPT ![clients[i]] = "closed"]
  BY DEF RemoveClient
<1>3. Len(clients') <= MaxClients
  <2>1. Len(clients') = Len(clients) - 1
    BY <1>1, <1>2, RemoveSlotIsSeq
  <2>2. Len(clients) <= MaxClients /\ MaxClients \in Nat
    BY SizeAssumption DEF SlotsConsistent
  <2>3. QED
    BY <2>1, <2>2, <1>1
<1>4. /\ Distinct(clients')
      /\ \A c : Holds(clients', c) <=> Holds(clients, c) /\ c # clients[i]
  BY <1>1, <1>2, RemoveSlotHolds DEF SlotsConsistent
<1>5. Holds(clients, clients[i])
  BY DEF Holds
<1>6. \A c \in Conn : sock'[c] = IF c = clients[i] THEN "closed" ELSE sock[c]
  BY <1>1, <1>2 DEF TypeOK, ConnType
<1>7. ASSUME NEW c \in Conn
      PROVE  /\ sock'[c] = "open" <=> Holds(clients', c)
             /\ sock'[c] = "backlog" <=> Holds(backlog', c)
  BY <1>1, <1>4, <1>5, <1>6 DEF SlotsConsistent
<1>8. QED
  BY <1>3, <1>4, <1>7 DEF SlotsConsistent

\* A polled client is kept or removed, whatever it sent.
LEMMA ServeCases ==
    ASSUME ServeClient
    PROVE  KeepClients \/ RemoveClient(index)
  BY DEF ServeClient, ReadCommand, HandleCommand, HandleStatus, HandleSubscribe,
         HandleAction, HandleUnknown

\* Every step does.
LEMMA SlotsStep ==
    ASSUME TypeOK, Phases, SlotsConsistent, PollfdsAligned, Lifecycle, [Next]_vars
    PROVE  SlotsConsistent'
<1>1. CASE UNCHANGED <<clients, sock, backlog>>
  BY <1>1 DEF SlotsConsistent
<1>2. CASE StopJoin
  <2>1. UNCHANGED clients /\ backlog' = <<>>
    BY <1>2 DEF StopJoin, threadVars
  <2>2. \A c \in Conn : sock'[c] = IF sock[c] = "backlog" THEN "closed" ELSE sock[c]
    BY <1>2 DEF StopJoin
  <2>3. Distinct(<<>>) /\ \A c : ~Holds(<<>>, c)
    BY DEF Distinct, Holds
  <2>4. QED
    BY <2>1, <2>2, <2>3 DEF SlotsConsistent
<1>3. CASE ServeClient
  <2>1. index \in 1..Len(clients)
    BY <1>3, PassIndex DEF ServeClient
  <2>2. UNCHANGED backlog
    BY <1>3 DEF ServeClient
  <2>3. CASE KeepClients
    BY <2>2, <2>3, <1>1 DEF KeepClients
  <2>4. CASE RemoveClient(index)
    BY <2>1, <2>2, <2>4, RemoveKeepsSlots
  <2>5. QED
    BY <1>3, <2>3, <2>4, ServeCases
<1>4. CASE BroadcastClient
  <2>1. index \in 1..Len(clients) /\ (KeepClients \/ RemoveClient(index))
    BY <1>4, BroadcastCases
  <2>2. UNCHANGED backlog
    BY <1>4 DEF BroadcastClient
  <2>3. CASE KeepClients
    BY <2>2, <2>3, <1>1 DEF KeepClients
  <2>4. QED
    BY <2>1, <2>2, <2>3, RemoveKeepsSlots
<1>5. CASE ThreadExit
  <2>1. clients' = <<>> /\ UNCHANGED backlog
    BY <1>5 DEF ThreadExit
  <2>2. \A c \in Conn : sock'[c] = IF sock[c] = "open" THEN "closed" ELSE sock[c]
    BY <1>5 DEF ThreadExit
  <2>3. Distinct(<<>>) /\ (\A c : ~Holds(<<>>, c)) /\ Len(<<>>) <= MaxClients
    BY SizeAssumption DEF Distinct, Holds
  <2>4. QED
    BY <2>1, <2>2, <2>3 DEF SlotsConsistent
<1>6. CASE AcceptClients
  <2>1. CASE ~pollfds.listener
    BY <2>1, <1>1, <1>6 DEF AcceptClients
  <2>2. CASE pollfds.listener
    <3> DEFINE new == SubSeq(backlog, 1, Taken)
    <3>1. /\ clients' = clients \o new
          /\ backlog' = <<>>
          /\ \A c \in Conn : sock'[c] = IF sock[c] # "backlog" THEN sock[c]
                                        ELSE IF \E i \in 1..Taken : backlog[i] = c
                                             THEN "open" ELSE "closed"
      BY <2>2, <1>6 DEF AcceptClients, Taken, Room
    <3>2. /\ Taken \in 0..Len(backlog)
          /\ Len(clients) + Taken <= MaxClients
          /\ new \in Seq(Conn)
          /\ Len(new) = Taken
          /\ \A i \in 1..Taken : new[i] = backlog[i]
      BY TakenBounds DEF SlotsConsistent
    <3> HIDE DEF new
    <3>3. clients \in Seq(Conn) /\ Len(clients) \in Nat /\ backlog \in Seq(Conn)
          /\ Len(backlog) \in Nat
      BY ArrayTypes
    <3>4. /\ Len(clients') = Len(clients) + Taken
          /\ \A i \in 1..Len(clients) : clients'[i] = clients[i]
          /\ \A i \in 1..Taken : clients'[Len(clients) + i] = backlog[i]
      <4>1. /\ Len(clients \o new) = Len(clients) + Len(new)
            /\ \A i \in 1..Len(clients) : (clients \o new)[i] = clients[i]
            /\ \A i \in 1..Len(new) : (clients \o new)[Len(clients) + i] = new[i]
        <5>1. clients \in Seq(Conn) /\ new \in Seq(Conn)
          BY <3>2, <3>3
        <5>2. QED
          BY <5>1, ConcatElements
      <4>2. QED
        BY <4>1, <3>1, <3>2, Zenon
    <3>5. \A c : Holds(clients', c) <=>
                   Holds(clients, c) \/ \E i \in 1..Taken : backlog[i] = c
      <4>1. ASSUME NEW c, Holds(clients', c)
            PROVE  Holds(clients, c) \/ \E i \in 1..Taken : backlog[i] = c
        <5>1. PICK j \in 1..(Len(clients) + Taken) : clients'[j] = c
          BY <4>1, <3>4 DEF Holds
        <5>2. CASE j <= Len(clients)
          BY <5>1, <5>2, <3>3, <3>4 DEF Holds
        <5>3. CASE j > Len(clients)
          <6>1. j - Len(clients) \in 1..Taken /\ j = Len(clients) + (j - Len(clients))
            BY <5>3, <3>2, <3>3
          <6>2. QED
            BY <6>1, <5>1, <3>4
        <5>4. QED
          BY <5>2, <5>3, <3>3
      <4>2. ASSUME NEW c, Holds(clients, c)
            PROVE  Holds(clients', c)
        BY <4>2, <3>2, <3>3, <3>4 DEF Holds
      <4>3. ASSUME NEW c, NEW i \in 1..Taken, backlog[i] = c
            PROVE  Holds(clients', c)
        <5>1. Len(clients) + i \in 1..Len(clients') /\ clients'[Len(clients) + i] = c
          BY <4>3, <3>2, <3>3, <3>4
        <5>2. QED
          BY <5>1 DEF Holds
      <4>4. QED
        BY <4>1, <4>2, <4>3
    <3>6. \A i \in 1..Taken : /\ backlog[i] \in Conn
                              /\ sock[backlog[i]] = "backlog"
                              /\ ~Holds(clients, backlog[i])
      <4>1. ASSUME NEW i \in 1..Taken
            PROVE  backlog[i] \in Conn /\ Holds(backlog, backlog[i])
        BY <3>2, <3>3 DEF Holds
      <4>2. QED
        BY <4>1 DEF SlotsConsistent
    <3>7. Distinct(clients')
      <4>1. ASSUME NEW i \in 1..Len(clients'), NEW j \in 1..Len(clients'),
                   clients'[i] = clients'[j], i < j
            PROVE  FALSE
        <5>1. CASE j <= Len(clients)
          BY <4>1, <5>1, <3>2, <3>3, <3>4 DEF SlotsConsistent, Distinct
        <5>2. CASE j > Len(clients)
          <6>1. /\ j - Len(clients) \in 1..Taken
                /\ clients'[j] = backlog[j - Len(clients)]
            <7>1. j - Len(clients) \in 1..Taken /\ j = Len(clients) + (j - Len(clients))
              BY <5>2, <3>2, <3>3, <3>4
            <7>2. QED
              BY <7>1, <3>4
          <6>2. CASE i <= Len(clients)
            <7>1. Holds(clients, clients'[i])
              BY <6>2, <3>2, <3>3, <3>4 DEF Holds
            <7>2. QED
              BY <7>1, <6>1, <4>1, <3>6
          <6>3. CASE i > Len(clients)
            <7>1. i - Len(clients) \in 1..Taken /\ i = Len(clients) + (i - Len(clients))
              BY <6>3, <3>2, <3>3, <3>4
            <7>2. backlog[i - Len(clients)] = backlog[j - Len(clients)]
              BY <7>1, <6>1, <3>4, <4>1
            <7>3. i - Len(clients) = j - Len(clients)
              BY <7>1, <7>2, <6>1, <3>2, <3>3 DEF SlotsConsistent, Distinct
            <7>4. QED
              BY <7>3, <4>1, <3>2, <3>3, <3>4
          <6>4. QED
            BY <6>2, <6>3, <3>2, <3>3, <3>4
        <5>3. QED
          BY <5>1, <5>2, <3>2, <3>3, <3>4
      <4>2. Len(clients') \in Nat
        BY <3>2, <3>3, <3>4
      <4>3. QED
        BY <4>1, <4>2 DEF Distinct
    <3>8. Distinct(<<>>) /\ (\A c : ~Holds(<<>>, c))
      BY DEF Distinct, Holds
    <3>9. ASSUME NEW c \in Conn
          PROVE  /\ sock'[c] = "open" <=> Holds(clients', c)
                 /\ sock'[c] # "backlog"
      BY <3>1, <3>5, <3>6 DEF SlotsConsistent
    <3>10. QED
      BY <3>1, <3>2, <3>4, <3>7, <3>8, <3>9 DEF SlotsConsistent
  <2>3. QED
    BY <2>1, <2>2
<1>7. ASSUME NEW c \in Conn, ClientConnect(c)
      PROVE  SlotsConsistent'
  <2>1. /\ UNCHANGED clients
        /\ backlog' = Append(backlog, c)
        /\ backlog \in Seq(Conn)
        /\ Len(backlog) \in Nat
    BY <1>7, ArrayTypes DEF ClientConnect, threadVars
  <2>2. sock[c] = "none"
    BY <1>7 DEF ClientConnect, Lifecycle
  <2>3. \A d \in Conn : sock'[d] = IF d = c THEN "backlog" ELSE sock[d]
    BY <1>7 DEF ClientConnect, TypeOK, ConnType
  <2>4. /\ Len(backlog') = Len(backlog) + 1
        /\ \A i \in 1..Len(backlog) : backlog'[i] = backlog[i]
        /\ backlog'[Len(backlog) + 1] = c
    BY <2>1
  <2>5. ~Holds(backlog, c) /\ ~Holds(clients, c)
    BY <2>2 DEF SlotsConsistent
  <2>6. Distinct(backlog')
    BY <2>1, <2>4, <2>5 DEF SlotsConsistent, Distinct, Holds
  <2>7. \A d : Holds(backlog', d) <=> Holds(backlog, d) \/ d = c
    <3>1. ASSUME NEW d PROVE Holds(backlog', d) => Holds(backlog, d) \/ d = c
      BY <2>1, <2>4 DEF Holds
    <3>2. ASSUME NEW d, Holds(backlog, d) PROVE Holds(backlog', d)
      BY <3>2, <2>1, <2>4 DEF Holds
    <3>3. Holds(backlog', c)
      <4>1. Len(backlog) + 1 \in 1..Len(backlog')
        BY <2>1, <2>4
      <4>2. QED
        BY <4>1, <2>4 DEF Holds
    <3>4. QED
      BY <3>1, <3>2, <3>3
  <2>8. QED
    BY <2>1, <2>2, <2>3, <2>5, <2>6, <2>7 DEF SlotsConsistent
<1>8. QED
  BY <1>1, <1>2, <1>3, <1>4, <1>5, <1>6, <1>7
     DEF Next, StateService, ControlThread, Client, Terminated, vars, connVars,
         threadVars, Start, StartFails, PublishStore, PublishWake, StopRequest,
         StopWake, PopAction, LoopTop, Poll, PollError, DrainWakePipe,
         CheckStopping, BroadcastDone, ClientSend, ClientRead, ClientClose

-----------------------------------------------------------------------------
(* The pass over the polled clients.                                       *)

\* Every step keeps the polled events next to the client they are of.
LEMMA AlignedStep ==
    ASSUME TypeOK, Phases, PollfdsAligned, [Next]_vars
    PROVE  PollfdsAligned'
<1>1. CASE UNCHANGED threadVars
  BY <1>1 DEF threadVars, PollfdsAligned
<1>2. CASE tpc' \notin {"poll", "drain", "check", "clients"}
  BY <1>2 DEF PollfdsAligned
<1>3. CASE LoopTop
  <2>1. CASE stopping
    BY <2>1, <1>2, <1>3 DEF LoopTop
  <2>2. CASE ~stopping
    <3> DEFINE q == [i \in 1..Len(clients) |-> [fd |-> clients[i], revents |-> "none"]]
    <3>1. pollfds' = [listener |-> FALSE, client |-> q] /\ tpc' = "poll"
          /\ UNCHANGED clients
      BY <2>2, <1>3 DEF LoopTop
    <3>2. Len(q) = Len(clients) /\ \A i \in 1..Len(clients) : q[i].fd = clients[i]
      BY ArrayTypes
    <3> HIDE DEF q
    <3>3. pollfds'.client = q
      BY <3>1
    <3>4. QED
      BY <3>1, <3>2, <3>3 DEF PollfdsAligned
  <2>3. QED
    BY <2>1, <2>2
<1>4. CASE Poll
  <2> DEFINE n == Len(pollfds.client)
             q == [i \in 1..n |-> [fd |-> pollfds.client[i].fd,
                                   revents |-> Revents(pollfds.client[i].fd)]]
  <2>1. pollfds.client \in Seq(Polled)
    BY DEF TypeOK, ThreadType
  <2>2. n \in Nat
    BY <2>1
  <2>3. Len(q) = n /\ \A i \in 1..n : q[i].fd = pollfds.client[i].fd
    BY <2>2
  <2>4. /\ pollfds' = [listener |-> backlog # <<>>, client |-> q]
        /\ index' = n
        /\ UNCHANGED clients
        /\ tpc = "poll"
        /\ tpc' \in {"drain", "clients"}
    BY <1>4 DEF Poll, PolledClientCount
  <2>5. n = Len(clients) /\ \A i \in 1..n : pollfds.client[i].fd = clients[i]
    BY <2>4 DEF PollfdsAligned
  <2> HIDE DEF n, q
  <2>6. pollfds'.client = q
    BY <2>4
  <2>7. /\ index' <= Len(clients')
        /\ index' <= Len(pollfds'.client)
        /\ \A i \in 1..index' : pollfds'.client[i].fd = clients'[i]
    BY <2>2, <2>3, <2>4, <2>5, <2>6
  <2>8. QED
    BY <2>4, <2>7 DEF PollfdsAligned
<1>5. CASE DrainWakePipe \/ CheckStopping
  BY <1>5 DEF DrainWakePipe, CheckStopping, PollfdsAligned
<1>6. CASE ServeClient
  <2>1. index \in 1..Len(clients) /\ index \in 1..Len(pollfds.client)
    BY <1>6, PassIndex DEF ServeClient
  <2>2. /\ index' = index - 1
        /\ tpc = "clients"
        /\ UNCHANGED <<tpc, pollfds>>
    BY <1>6 DEF ServeClient
  <2>3. \A i \in 1..index : pollfds.client[i].fd = clients[i]
    BY <2>2 DEF PollfdsAligned
  <2>4. Len(clients) \in Nat /\ index \in Nat
    BY ArrayTypes
  <2>5. index - 1 <= Len(clients') /\ \A i \in 1..(index - 1) : clients'[i] = clients[i]
    <3>1. CASE KeepClients
      BY <3>1, <2>1, <2>4 DEF KeepClients
    <3>2. CASE RemoveClient(index)
      <4>1. clients' = RemoveSlot(clients, index)
        BY <3>2 DEF RemoveClient
      <4>2. /\ Len(clients') = Len(clients) - 1
            /\ \A j \in 1..(Len(clients) - 1) :
                 clients'[j] = IF j = index THEN clients[Len(clients)] ELSE clients[j]
        BY <4>1, <2>1, ArrayTypes, RemoveSlotIsSeq
      <4>3. QED
        BY <4>2, <2>1, <2>4
    <3>3. QED
      BY <1>6, <3>1, <3>2, ServeCases
  <2>6. /\ index' <= Len(clients')
        /\ index' <= Len(pollfds'.client)
        /\ \A i \in 1..index' : pollfds'.client[i].fd = clients'[i]
    <3>1. Len(pollfds.client) \in Nat
      <4>1. pollfds.client \in Seq(Polled)
        BY DEF TypeOK, ThreadType
      <4>2. QED
        BY <4>1
    <3>2. QED
      BY <2>1, <2>2, <2>3, <2>4, <2>5, <3>1
  <2>7. QED
    BY <2>2, <2>6 DEF PollfdsAligned
<1>7. CASE AcceptClients
  <2>1. tpc' \in {"broadcast", "top"}
    BY <1>7, Zenon DEF AcceptClients
  <2>2. QED
    BY <2>1, <1>2
<1>8. CASE BroadcastClient \/ BroadcastDone \/ ThreadExit \/ PollError \/ Start
  BY <1>2, <1>8 DEF BroadcastClient, BroadcastDone, ThreadExit, PollError, Start
<1>9. QED
  BY <1>1, <1>3, <1>4, <1>5, <1>6, <1>7, <1>8
     DEF Next, StateService, ControlThread, Client, Terminated, vars,
         StartFails, PublishStore, PublishWake, StopRequest, StopWake, StopJoin,
         PopAction, ClientConnect, ClientSend, ClientRead, ClientClose

-----------------------------------------------------------------------------
(* The life of a connection.                                               *)

\* What a write leaves of the history: the other connections' is unchanged.
LEMMA WrittenLast ==
    ASSUME TypeOK, NEW c \in Conn, NEW line, NEW w, Written(c, line, w)
    PROVE  /\ \A d \in Conn : d # c => last'[d] = last[d]
           /\ w.ok = TRUE => last'[c].rev = line.rev
           /\ w.ok = FALSE => last'[c] = last[c]
  BY DEF Written, TypeOK, ConnType

\* What serving the client c in slot i does to the feed: the other
\* connections keep theirs; c is removed as it was, or without having been
\* subscribed or sent anything; or c is subscribed and was sent the current
\* snapshot; or nothing has changed.
SameFeed(d) ==
    /\ sock'[d] = sock[d]
    /\ subscribed'[d] = subscribed[d]
    /\ format'[d] = format[d]
    /\ last'[d] = last[d]

FeedEffect(i, c) ==
    \/ /\ RemoveClient(i)
       /\ \/ UNCHANGED <<subscribed, format, last>>
          \/ ~subscribed[c] /\ (~subscribed'[c] \/ last'[c] = last[c])
    \/ /\ KeepClients
       /\ ~subscribed[c]
       /\ subscribed'[c] = TRUE
       /\ last'[c].rev = snapshot[format'[c]]
    \/ KeepClients /\ UNCHANGED <<subscribed, format, last>>

\* remove_client leaves the slots below the freed one alone.
LEMMA RemoveOthers ==
    ASSUME TypeOK, NEW i \in 1..Len(clients), RemoveClient(i) \/ KeepClients
    PROVE  \A d \in Conn : d # clients[i] => sock'[d] = sock[d]
  BY DEF RemoveClient, KeepClients, TypeOK, ConnType

\* What handle_command can have done to the subscriptions and what was
\* written.
LEMMA HandleEffect ==
    ASSUME TypeOK, NEW i \in 1..Len(clients), HandleCommand(i),
           ~subscribed[clients[i]]
    PROVE  /\ \A d \in Conn : d # clients[i] => SameFeed(d)
           /\ FeedEffect(i, clients[i])
<1> DEFINE c == clients[i]
           f == FormatOf(command[c])
<1>c. c \in Conn /\ f \in Format
  BY ClientAt, FormatOfType
<1>t. /\ subscribed \in [Conn -> BOOLEAN]
      /\ format \in [Conn -> Format]
      /\ snapshot \in [Format -> Revision]
  BY DEF TypeOK, ServerType, ConnType
<1>l. SnapshotLine(snapshot[f]) \in Line /\ SnapshotLine(snapshot[f]).rev = snapshot[f]
  BY <1>c, <1>t, LineTypes DEF SnapshotLine
<1> HIDE DEF c, f
<1>1. CASE HandleStatus(i)
  <2>1. PICK w \in WriteAll(c, SnapshotLine(snapshot[f])) :
          Written(c, SnapshotLine(snapshot[f]), w)
    BY <1>1 DEF HandleStatus, c, f
  <2>2. \A d \in Conn : d # c => last'[d] = last[d]
    BY <2>1, <1>c, WrittenLast
  <2>3. /\ format' = [format EXCEPT ![c] = f]
        /\ RemoveClient(i)
        /\ subscribed' = subscribed
    BY <1>1 DEF HandleStatus, c, f
  <2>4. \A d \in Conn : d # c => sock'[d] = sock[d] /\ format'[d] = format[d]
    BY <2>3, <1>t, RemoveOthers DEF c
  <2>5. QED
    BY <2>2, <2>3, <2>4 DEF SameFeed, FeedEffect, c
<1>2. CASE HandleSubscribe(i)
  <2>1. PICK w \in WriteAll(c, SnapshotLine(snapshot[f])) :
          /\ Written(c, SnapshotLine(snapshot[f]), w)
          /\ IF w.ok THEN KeepClients ELSE RemoveClient(i)
    BY <1>2 DEF HandleSubscribe, c, f
  <2>2. /\ \A d \in Conn : d # c => last'[d] = last[d]
        /\ w.ok = TRUE => last'[c].rev = snapshot[f]
        /\ w.ok = FALSE => last'[c] = last[c]
    BY <2>1, <1>c, <1>l, WrittenLast
  <2>3. /\ format' = [format EXCEPT ![c] = f]
        /\ subscribed' = [subscribed EXCEPT ![c] = TRUE]
    BY <1>2 DEF HandleSubscribe, c, f
  <2>4. w.ok \in BOOLEAN
    BY <1>c, <1>l, WriteAllType
  <2>5. /\ \A d \in Conn : d # c => format'[d] = format[d] /\ subscribed'[d] = subscribed[d]
        /\ format'[c] = f /\ subscribed'[c] = TRUE
    BY <2>3, <1>t, <1>c
  <2>6. \A d \in Conn : d # c => sock'[d] = sock[d]
    BY <2>1, RemoveOthers DEF c
  <2>7. FeedEffect(i, c)
    BY <2>1, <2>2, <2>4, <2>5 DEF FeedEffect, c
  <2>8. QED
    BY <2>2, <2>5, <2>6, <2>7 DEF SameFeed, c
<1>3. CASE HandleAction(i) \/ HandleUnknown(i)
  <2>1. /\ RemoveClient(i)
        /\ UNCHANGED <<subscribed, format>>
        /\ \E line, w : Written(c, line, w)
    <3>1. CASE HandleAction(i)
      BY <3>1, Zenon DEF HandleAction, c
    <3>2. CASE HandleUnknown(i)
      BY <3>2, Zenon DEF HandleUnknown, c
    <3>3. QED
      BY <1>3, <3>1, <3>2
  <2>2. \A d \in Conn : d # c => last'[d] = last[d]
    BY <2>1, <1>c, WrittenLast
  <2>3. \A d \in Conn : d # c => sock'[d] = sock[d]
    BY <2>1, RemoveOthers DEF c
  <2>4. QED
    BY <2>1, <2>2, <2>3 DEF SameFeed, FeedEffect, c
<1>4. QED
  BY <1>1, <1>2, <1>3 DEF HandleCommand

\* The same of one round over the polled clients.
LEMMA ServeEffect ==
    ASSUME TypeOK, PollfdsAligned, ReadsUnsubscribed, ServeClient
    PROVE  /\ index \in 1..Len(clients)
           /\ clients[index] \in Conn
           /\ \A d \in Conn : d # clients[index] => SameFeed(d)
           /\ FeedEffect(index, clients[index])
<1>1. tpc = "clients" /\ index > 0
  BY DEF ServeClient
<1>2. index \in 1..Len(clients) /\ clients[index] \in Conn
  BY <1>1, PassIndex
<1>3. CASE /\ RemoveClient(index) \/ KeepClients
           /\ UNCHANGED <<subscribed, format, last>>
  <2>1. \A d \in Conn : d # clients[index] => sock'[d] = sock[d]
    BY <1>2, <1>3, RemoveOthers
  <2>2. QED
    BY <1>2, <1>3, <2>1 DEF SameFeed, FeedEffect
<1>4. CASE ReadCommand(index) /\ pollfds.client[index].revents = "in"
  <2>1. ~subscribed[clients[index]]
    <3>1. index \in 1..index
      BY <1>1, ArrayTypes
    <3>2. QED
      BY <1>1, <1>4, <3>1 DEF ReadsUnsubscribed
  <2>2. CASE HandleCommand(index)
    BY <1>2, <2>1, <2>2, HandleEffect
  <2>3. QED
    BY <1>3, <1>4, <2>2 DEF ReadCommand
<1>5. QED
  BY <1>3, <1>4 DEF ServeClient

\* What one round of broadcast_snapshot can have done.
LEMMA BroadcastEffect ==
    ASSUME TypeOK, Phases, BroadcastClient
    PROVE  /\ index \in 1..Len(clients)
           /\ clients[index] \in Conn
           /\ UNCHANGED <<subscribed, format, snapshot>>
           /\ \A d \in Conn : d # clients[index] => SameFeed(d)
           /\ \/ /\ KeepClients
                 /\ index' = index + 1
                 /\ ~subscribed[clients[index]]
                 /\ UNCHANGED last
              \/ /\ KeepClients
                 /\ index' = index + 1
                 /\ subscribed[clients[index]]
                 /\ last'[clients[index]].rev = snapshot[format[clients[index]]]
              \/ /\ RemoveClient(index)
                 /\ index' = index
                 /\ subscribed[clients[index]]
                 /\ last'[clients[index]] = last[clients[index]]
<1> DEFINE c == clients[index]
           line == SnapshotLine(snapshot[format[c]])
<1>1. /\ index \in 1..Len(clients)
      /\ c \in Conn
      /\ UNCHANGED <<subscribed, format, snapshot>>
  BY BroadcastCases DEF BroadcastClient, serverVars
<1>2. CASE ~subscribed[c] /\ index' = index + 1 /\ KeepClients /\ UNCHANGED <<last, output>>
  <2>1. \A d \in Conn : d # c => SameFeed(d)
    BY <1>1, <1>2 DEF SameFeed, KeepClients
  <2>2. QED
    BY <1>1, <1>2, <2>1
<1>3. ASSUME subscribed[c], NEW w \in WriteAll(c, line), Written(c, line, w),
             \/ w.ok = TRUE /\ index' = index + 1 /\ KeepClients
             \/ w.ok = FALSE /\ index' = index /\ RemoveClient(index)
      PROVE  /\ \A d \in Conn : d # c => SameFeed(d)
             /\ \/ /\ KeepClients
                   /\ index' = index + 1
                   /\ last'[c].rev = snapshot[format[c]]
                \/ /\ RemoveClient(index)
                   /\ index' = index
                   /\ last'[c] = last[c]
  <2>1. /\ \A d \in Conn : d # c => last'[d] = last[d]
        /\ w.ok = TRUE => last'[c].rev = line.rev
        /\ w.ok = FALSE => last'[c] = last[c]
    BY <1>1, <1>3, WrittenLast
  <2>2. line.rev = snapshot[format[c]]
    BY DEF SnapshotLine
  <2>3. \A d \in Conn : d # c => sock'[d] = sock[d]
    BY <1>1, <1>3, RemoveOthers
  <2> HIDE DEF c, line
  <2>4. \A d \in Conn : d # c => SameFeed(d)
    BY <1>1, <2>1, <2>3 DEF SameFeed
  <2>5. QED
    BY <1>3, <2>1, <2>2, <2>4, Zenon
<1>4. QED
  BY <1>1, <1>2, <1>3, BroadcastCases, Zenon

\* The client in a slot has an open descriptor, closed once it is removed.
LEMMA SlotOpen ==
    ASSUME TypeOK, SlotsConsistent, NEW i \in 1..Len(clients)
    PROVE  /\ sock[clients[i]] = "open"
           /\ RemoveClient(i) => sock'[clients[i]] = "closed"
           /\ KeepClients => sock'[clients[i]] = "open"
<1>1. clients[i] \in Conn /\ Holds(clients, clients[i])
  BY ClientAt DEF Holds
<1>2. sock[clients[i]] = "open"
  BY <1>1 DEF SlotsConsistent
<1>3. QED
  BY <1>1, <1>2 DEF RemoveClient, KeepClients, TypeOK, ConnType

\* Every step keeps the life of a connection as Lifecycle tells it.
LEMMA LifecycleStep ==
    ASSUME Inv, [Next]_vars
    PROVE  Lifecycle'
<1> USE DEF Inv
<1>1. CASE UNCHANGED <<peer, sock, subscribed, last>>
  BY <1>1 DEF Lifecycle
<1>2. CASE StopJoin
  <2>1. UNCHANGED <<peer, subscribed, last>>
    BY <1>2 DEF StopJoin, peerVars
  <2>2. \A c \in Conn : sock'[c] = IF sock[c] = "backlog" THEN "closed" ELSE sock[c]
    BY <1>2 DEF StopJoin
  <2>3. QED
    BY <2>1, <2>2 DEF Lifecycle
<1>3. CASE ThreadExit
  <2>1. UNCHANGED <<peer, subscribed, last>>
    BY <1>3 DEF ThreadExit, peerVars
  <2>2. \A c \in Conn : sock'[c] = IF sock[c] = "open" THEN "closed" ELSE sock[c]
    BY <1>3 DEF ThreadExit
  <2>3. QED
    BY <2>1, <2>2 DEF Lifecycle
<1>4. CASE AcceptClients
  <2>1. UNCHANGED <<peer, subscribed, last>>
    BY <1>4 DEF AcceptClients, peerVars
  <2>2. \A c \in Conn : \/ sock'[c] = sock[c]
                        \/ sock[c] = "backlog" /\ sock'[c] \in {"open", "closed"}
    <3>1. CASE pollfds.listener
      BY <1>4, <3>1 DEF AcceptClients
    <3>2. CASE ~pollfds.listener
      BY <1>4, <3>2, Zenon DEF AcceptClients
    <3>3. QED
      BY <3>1, <3>2
  <2>3. QED
    BY <2>1, <2>2 DEF Lifecycle
<1>5. CASE ServeClient
  <2> DEFINE c == clients[index]
  <2>1. /\ index \in 1..Len(clients)
        /\ c \in Conn
        /\ \A d \in Conn : d # c => SameFeed(d)
        /\ FeedEffect(index, c)
    BY <1>5, ServeEffect
  <2>2. UNCHANGED peer
    BY <1>5 DEF ServeClient
  <2>3. /\ sock[c] = "open"
        /\ RemoveClient(index) => sock'[c] = "closed"
        /\ KeepClients => sock'[c] = "open"
    BY <2>1, SlotOpen
  <2> HIDE DEF c
  <2>4. /\ peer'[c] # "new"
        /\ \/ sock'[c] = "closed"
           \/ sock'[c] = "open" /\ (subscribed'[c] \/ last'[c].rev = 0)
    <3>1. peer[c] # "new" /\ (subscribed[c] \/ last[c].rev = 0)
      BY <2>1, <2>3 DEF Lifecycle
    <3>2. QED
      BY <2>1, <2>2, <2>3, <3>1, Zenon DEF FeedEffect
  <2>5. QED
    BY <2>1, <2>2, <2>4 DEF SameFeed, Lifecycle
<1>6. CASE BroadcastClient
  <2> DEFINE c == clients[index]
  <2>1. /\ index \in 1..Len(clients)
        /\ c \in Conn
        /\ UNCHANGED subscribed
        /\ \A d \in Conn : d # c => SameFeed(d)
        /\ \/ KeepClients /\ (subscribed[c] \/ UNCHANGED last)
           \/ RemoveClient(index)
    BY <1>6, BroadcastEffect
  <2>2. UNCHANGED peer
    BY <1>6 DEF BroadcastClient
  <2>3. /\ sock[c] = "open"
        /\ RemoveClient(index) => sock'[c] = "closed"
        /\ KeepClients => sock'[c] = "open"
    BY <2>1, SlotOpen
  <2> HIDE DEF c
  <2>4. /\ peer'[c] # "new"
        /\ \/ sock'[c] = "closed"
           \/ sock'[c] = "open" /\ (subscribed'[c] \/ last'[c].rev = 0)
    <3>1. peer[c] # "new" /\ (subscribed[c] \/ last[c].rev = 0)
      BY <2>1, <2>3 DEF Lifecycle
    <3>2. QED
      BY <2>1, <2>2, <2>3, <3>1, Zenon
  <2>5. QED
    BY <2>1, <2>2, <2>4 DEF SameFeed, Lifecycle
<1>7. ASSUME NEW c \in Conn, ClientConnect(c)
      PROVE  Lifecycle'
  <2>1. UNCHANGED <<subscribed, last>> /\ peer[c] = "new"
    BY <1>7 DEF ClientConnect
  <2>2. \A d \in Conn : /\ sock'[d] = IF d = c THEN "backlog" ELSE sock[d]
                        /\ peer'[d] = IF d = c THEN "open" ELSE peer[d]
    BY <1>7 DEF ClientConnect, TypeOK, ConnType, PeerType
  <2>3. QED
    BY <2>1, <2>2 DEF Lifecycle
<1>8. ASSUME NEW c \in Conn, ClientClose(c)
      PROVE  Lifecycle'
  <2>1. UNCHANGED <<sock, subscribed, last>>
    BY <1>8 DEF ClientClose, connVars
  <2>2. \A d \in Conn : peer'[d] = IF d = c THEN "closed" ELSE peer[d]
    BY <1>8 DEF ClientClose, TypeOK, PeerType
  <2>3. QED
    BY <2>1, <2>2 DEF Lifecycle
<1>9. QED
  BY <1>1, <1>2, <1>3, <1>4, <1>5, <1>6, <1>7, <1>8
     DEF Next, StateService, ControlThread, Client, Terminated, vars, connVars,
         peerVars, Start, StartFails, PublishStore, PublishWake, StopRequest,
         StopWake, PopAction, LoopTop, Poll, PollError, DrainWakePipe,
         CheckStopping, BroadcastDone, ClientSend, ClientRead

\* Every step keeps it that only unsubscribed clients are to be read.
LEMMA ReadsStep ==
    ASSUME Inv, [Next]_vars
    PROVE  ReadsUnsubscribed'
<1> USE DEF Inv
<1>1. CASE UNCHANGED <<tpc, index, pollfds, clients, subscribed>>
  BY <1>1 DEF ReadsUnsubscribed
<1>2. CASE tpc' \notin {"drain", "check", "clients"}
  BY <1>2 DEF ReadsUnsubscribed
<1>3. CASE Poll
  <2> DEFINE n == Len(pollfds.client)
             q == [i \in 1..n |-> [fd |-> pollfds.client[i].fd,
                                   revents |-> Revents(pollfds.client[i].fd)]]
  <2>1. /\ pollfds' = [listener |-> backlog # <<>>, client |-> q]
        /\ index' = n
        /\ tpc = "poll"
        /\ UNCHANGED <<clients, subscribed>>
    BY <1>3 DEF Poll, PolledClientCount, connVars
  <2>2. ASSUME NEW i \in 1..n, q[i].revents = "in"
        PROVE  ~subscribed[clients[i]]
    <3>1. Revents(pollfds.client[i].fd) = "in"
      BY <2>2
    <3>2. ~subscribed[pollfds.client[i].fd]
      BY <3>1 DEF Revents
    <3>3. pollfds.client[i].fd = clients[i]
      BY <2>1 DEF PollfdsAligned
    <3>4. QED
      BY <3>2, <3>3
  <2> HIDE DEF n, q
  <2>3. pollfds'.client = q
    BY <2>1
  <2>4. QED
    BY <2>1, <2>2, <2>3, Zenon DEF ReadsUnsubscribed
<1>4. CASE DrainWakePipe \/ CheckStopping
  BY <1>4 DEF DrainWakePipe, CheckStopping, connVars, ReadsUnsubscribed
<1>5. CASE ServeClient
  <2>1. /\ index' = index - 1
        /\ tpc = "clients"
        /\ UNCHANGED <<tpc, pollfds>>
    BY <1>5 DEF ServeClient
  <2>2. /\ index \in 1..Len(clients)
        /\ \A d \in Conn : d # clients[index] => SameFeed(d)
    BY <1>5, ServeEffect
  <2>3. Len(clients) \in Nat
    BY ArrayTypes
  <2>4. ASSUME NEW i \in 1..(index - 1), pollfds.client[i].revents = "in"
        PROVE  ~subscribed'[clients'[i]]
    <3>1. i \in 1..index /\ i \in 1..Len(clients) /\ i # index
          /\ i \in 1..(Len(clients) - 1)
      BY <2>2, <2>3
    <3>2. ~subscribed[clients[i]]
      BY <2>1, <2>4, <3>1 DEF ReadsUnsubscribed
    <3>3. clients[i] \in Conn /\ clients[i] # clients[index]
      BY <2>2, <3>1, ClientAt DEF SlotsConsistent, Distinct
    <3>4. clients'[i] = clients[i]
      <4>1. CASE KeepClients
        BY <4>1 DEF KeepClients
      <4>2. CASE RemoveClient(index)
        <5>1. clients' = RemoveSlot(clients, index)
          BY <4>2 DEF RemoveClient
        <5>2. QED
          BY <5>1, <2>2, <3>1, ArrayTypes, RemoveSlotIsSeq
      <4>3. QED
        BY <1>5, <4>1, <4>2, ServeCases
    <3>5. QED
      BY <2>2, <3>2, <3>3, <3>4 DEF SameFeed
  <2>5. QED
    BY <2>1, <2>4 DEF ReadsUnsubscribed
<1>6. CASE AcceptClients
  <2>1. tpc' \in {"broadcast", "top"}
    BY <1>6, Zenon DEF AcceptClients
  <2>2. QED
    BY <2>1, <1>2
<1>7. CASE \/ BroadcastClient \/ BroadcastDone \/ ThreadExit \/ PollError
           \/ Start \/ LoopTop
  BY <1>2, <1>7 DEF BroadcastClient, BroadcastDone, ThreadExit, PollError, Start, LoopTop
<1>8. QED
  BY <1>1, <1>3, <1>4, <1>5, <1>6, <1>7
     DEF Next, StateService, ControlThread, Client, Terminated, vars, threadVars,
         connVars, StartFails, PublishStore, PublishWake, StopRequest, StopWake,
         StopJoin, PopAction, ClientConnect, ClientSend, ClientRead, ClientClose

-----------------------------------------------------------------------------
(* No lost wakeup.                                                         *)

\* The subscriber in slot i has not been sent the current snapshot.
Behind(i) ==
    /\ subscribed[clients[i]]
    /\ last[clients[i]].rev # snapshot[format[clients[i]]]

\* Why it need not worry: someone is going to wake the thread, or will not
\* have to.
Coming(i) ==
    \/ spc = "wake"
    \/ wake > 0
    \/ BroadcastAhead(i)
    \/ stopping
    \/ tpc = "exit"

\* NoLostSnapshot for one slot.
LEMMA NoLostUnfolded ==
    NoLostSnapshot <=> \A i \in 1..Len(clients) : Behind(i) => Coming(i)
  BY Zenon DEF NoLostSnapshot, Behind, Coming

\* Steps that disturb neither the clients nor what they were sent.
LEMMA NoLostQuiet ==
    ASSUME NoLostSnapshot,
           UNCHANGED <<clients, subscribed, last, snapshot, format>>,
           \A i \in 1..Len(clients) : Coming(i) => Coming(i)'
    PROVE  NoLostSnapshot'
  BY NoLostUnfolded DEF Behind, NoLostSnapshot, Coming

\* start, publish and stop leave no subscriber without a promised broadcast.
LEMMA NoLostStateService ==
    ASSUME Inv, NoLostSnapshot, StateService
    PROVE  NoLostSnapshot'
<1>1. CASE Start
  <2>1. clients' = <<>>
    BY <1>1 DEF Start, Inv, Phases
  <2>2. QED
    BY <2>1 DEF NoLostSnapshot
<1>2. CASE PublishStore
  BY <1>2 DEF PublishStore, NoLostSnapshot
<1>3. CASE PublishWake
  <2>1. wake' > 0
    BY <1>3, SizeAssumption DEF PublishWake, WriteWakeByte, Inv, TypeOK, ServerType
  <2>2. QED
    BY <2>1 DEF NoLostSnapshot
<1>4. CASE StartFails \/ StopRequest \/ StopWake
  <2>1. stopping'
    BY <1>4 DEF StartFails, StopRequest, StopWake, Inv, Phases
  <2>2. QED
    BY <2>1 DEF NoLostSnapshot
<1>5. CASE StopJoin
  <2>1. stopping'
    BY <1>5 DEF StopJoin, Inv, Phases
  <2>2. QED
    BY <2>1 DEF NoLostSnapshot
<1>6. QED
  BY <1>1, <1>2, <1>3, <1>4, <1>5 DEF StateService

\* Nor does the pass over the polled clients, which moves slots.
LEMMA NoLostServe ==
    ASSUME Inv, NoLostSnapshot, ServeClient
    PROVE  NoLostSnapshot'
<1> USE DEF Inv
<1> DEFINE c == clients[index]
<1>1. /\ index \in 1..Len(clients)
      /\ c \in Conn
      /\ \A d \in Conn : d # c => SameFeed(d)
      /\ FeedEffect(index, c)
  BY ServeEffect
<1>2. UNCHANGED <<snapshot, spc, wake, tpc, should_broadcast, stopping>> /\ tpc = "clients"
  BY DEF ServeClient, serviceVars
<1>3. Len(clients) \in Nat /\ clients \in Seq(Conn)
  BY ArrayTypes
<1>4. \A i, j : Coming(i) => Coming(j)'
  BY <1>2 DEF Coming, BroadcastAhead
<1>5. ASSUME NEW j \in 1..Len(clients'), Behind(j)'
      PROVE  \E i \in 1..Len(clients) : Behind(i)
  <2>1. CASE RemoveClient(index)
    <3>1. PICK i \in 1..Len(clients) : clients'[j] = clients[i] /\ i # index
      <4>1. clients' = RemoveSlot(clients, index)
        BY <2>1 DEF RemoveClient
      <4>2. /\ Len(clients') = Len(clients) - 1
            /\ \A k \in 1..(Len(clients) - 1) :
                 clients'[k] = IF k = index THEN clients[Len(clients)] ELSE clients[k]
        BY <4>1, <1>1, <1>3, RemoveSlotIsSeq
      <4>3. CASE j = index
        <5>1. Len(clients) \in 1..Len(clients) /\ Len(clients) # index
          BY <4>2, <4>3, <1>1, <1>3
        <5>2. QED
          BY <5>1, <4>2, <4>3, <1>3
      <4>4. CASE j # index
        <5>1. j \in 1..Len(clients) /\ j \in 1..(Len(clients) - 1)
          BY <4>2, <1>3
        <5>2. QED
          BY <5>1, <4>2, <4>4
      <4>5. QED
        BY <4>3, <4>4
    <3>2. clients[i] \in Conn /\ clients[i] # c
      BY <3>1, <1>1, ClientAt DEF SlotsConsistent, Distinct
    <3>3. SameFeed(clients[i])
      BY <3>2, <1>1
    <3>4. Behind(i)
      BY <3>1, <3>3, <1>2, <1>5 DEF SameFeed, Behind
    <3>5. QED
      BY <3>4
  <2>2. CASE KeepClients
    <3>1. clients' = clients
      BY <2>2 DEF KeepClients
    <3>2. CASE clients[j] # c
      <4>1. SameFeed(clients[j]) /\ j \in 1..Len(clients)
        BY <3>1, <3>2, <1>1, ClientAt
      <4>2. QED
        BY <4>1, <3>1, <1>2, <1>5 DEF SameFeed, Behind
    <3>3. CASE clients[j] = c /\ UNCHANGED <<subscribed, format, last>>
      BY <3>1, <3>3, <1>2, <1>5 DEF Behind
    <3>4. CASE clients[j] = c /\ last'[c].rev = snapshot[format'[c]]
      BY <3>1, <3>4, <1>2, <1>5 DEF Behind
    <3>5. CASE RemoveClient(index)
      BY <3>5, <2>1
    <3>6. QED
      BY <1>1, <3>2, <3>3, <3>4, <3>5, Zenon DEF FeedEffect
  <2>3. QED
    BY <1>1, <2>1, <2>2 DEF FeedEffect
<1>6. \A j \in 1..Len(clients') : Behind(j)' => Coming(j)'
  BY <1>4, <1>5, NoLostUnfolded, Zenon
<1>7. QED
  BY <1>6, Zenon DEF NoLostSnapshot, Behind, Coming

\* Nor does accept_clients, which appends slots and begins the broadcast.
LEMMA NoLostAccept ==
    ASSUME Inv, NoLostSnapshot, AcceptClients
    PROVE  NoLostSnapshot'
<1> USE DEF Inv
<1>1. /\ UNCHANGED <<snapshot, spc, wake, stopping, subscribed, last, format>>
      /\ tpc = "clients"
  BY DEF AcceptClients, serverVars, serviceVars
<1>2. \A i \in Nat : i >= 1 /\ should_broadcast => Coming(i)'
  <2>1. should_broadcast => tpc' = "broadcast" /\ index' = 1
    BY Zenon DEF AcceptClients
  <2>2. QED
    BY <2>1 DEF Coming, BroadcastAhead
<1>3. ASSUME NEW i \in 1..Len(clients), Coming(i)
      PROVE  Coming(i)'
  <2>1. CASE should_broadcast
    BY <2>1, <1>2, ArrayTypes
  <2>2. CASE ~should_broadcast
    BY <2>2, <1>1, <1>3 DEF Coming, BroadcastAhead
  <2>3. QED
    BY <2>1, <2>2
<1>4. ASSUME NEW j \in 1..Len(clients'), Behind(j)'
      PROVE  j \in 1..Len(clients) /\ Behind(j)
  <2>1. CASE UNCHANGED clients
    BY <2>1, <1>1, <1>4 DEF Behind
  <2>2. CASE clients' = clients \o SubSeq(backlog, 1, Taken)
    <3> DEFINE new == SubSeq(backlog, 1, Taken)
    <3>1. /\ Taken \in 0..Len(backlog)
          /\ new \in Seq(Conn)
          /\ Len(new) = Taken
          /\ \A i \in 1..Taken : new[i] = backlog[i]
          /\ clients \in Seq(Conn)
          /\ Len(clients) \in Nat
          /\ Len(backlog) \in Nat
      BY TakenBounds, ArrayTypes DEF SlotsConsistent
    <3> HIDE DEF new
    <3>2. /\ Len(clients \o new) = Len(clients) + Len(new)
          /\ \A i \in 1..Len(clients) : (clients \o new)[i] = clients[i]
          /\ \A i \in 1..Len(new) : (clients \o new)[Len(clients) + i] = new[i]
      <4>1. clients \in Seq(Conn) /\ new \in Seq(Conn)
        BY <3>1
      <4>2. QED
        BY <4>1, ConcatElements
    <3>3. clients' = clients \o new
      BY <2>2 DEF new
    <3>4. CASE j <= Len(clients)
      <4>1. j \in 1..Len(clients)
        BY <3>1, <3>2, <3>3, <3>4
      <4>2. QED
        BY <4>1, <3>2, <3>3, <1>1, <1>4 DEF Behind
    <3>5. CASE j > Len(clients)
      <4>1. j - Len(clients) \in 1..Taken /\ j = Len(clients) + (j - Len(clients))
        BY <3>1, <3>2, <3>3, <3>5
      <4>2. clients'[j] = backlog[j - Len(clients)]
        BY <4>1, <3>1, <3>2, <3>3
      <4>3. /\ backlog[j - Len(clients)] \in Conn
            /\ Holds(backlog, backlog[j - Len(clients)])
        BY <4>1, <3>1, ArrayTypes DEF Holds
      <4>4. ~subscribed[backlog[j - Len(clients)]]
        BY <4>3 DEF SlotsConsistent, Lifecycle
      <4>5. QED
        BY <4>2, <4>4, <1>1, <1>4 DEF Behind
    <3>6. QED
      BY <3>1, <3>2, <3>3, <3>4, <3>5
  <2>3. QED
    BY <2>1, <2>2 DEF AcceptClients, Taken, Room
<1>5. \A j \in 1..Len(clients') : Behind(j)' => Coming(j)'
  BY <1>3, <1>4, NoLostUnfolded, Zenon
<1>6. QED
  BY <1>5, Zenon DEF NoLostSnapshot, Behind, Coming

\* Nor does a round of broadcast_snapshot, which sends or moves a slot.
LEMMA NoLostBroadcast ==
    ASSUME Inv, NoLostSnapshot, BroadcastClient
    PROVE  NoLostSnapshot'
<1> USE DEF Inv
<1> DEFINE c == clients[index]
<1>1. /\ index \in 1..Len(clients)
      /\ c \in Conn
      /\ UNCHANGED <<subscribed, format, snapshot>>
      /\ \A d \in Conn : d # c => SameFeed(d)
  BY BroadcastEffect
<1>2. /\ UNCHANGED <<spc, wake, tpc, should_broadcast, stopping>>
      /\ tpc = "broadcast"
  BY DEF BroadcastClient, serverVars, serviceVars
<1>3. Len(clients) \in Nat /\ clients \in Seq(Conn) /\ index \in Nat
  BY ArrayTypes
<1>5. CASE /\ KeepClients
           /\ index' = index + 1
           /\ ~subscribed[c] \/ last'[c].rev = snapshot[format[c]]
  <2>1. clients' = clients
    BY <1>5 DEF KeepClients
  <2>2. ASSUME NEW j \in 1..Len(clients), Behind(j)'
        PROVE  Coming(j)'
    <3>1. clients[j] # c
      BY <2>1, <2>2, <1>1, <1>5 DEF Behind
    <3>2. SameFeed(clients[j]) /\ j # index
      BY <3>1, <1>1, ClientAt
    <3>3. Behind(j)
      BY <2>1, <2>2, <3>2, <1>1 DEF SameFeed, Behind
    <3>4. Coming(j)
      BY <3>3, NoLostUnfolded
    <3>5. j >= index => j >= index'
      BY <3>2, <1>3, <1>5
    <3>6. QED
      BY <3>4, <3>5, <1>2 DEF Coming, BroadcastAhead
  <2>3. QED
    BY <2>1, <2>2, Zenon DEF NoLostSnapshot, Behind, Coming
<1>6. CASE RemoveClient(index) /\ index' = index
  <2>1. clients' = RemoveSlot(clients, index)
    BY <1>6 DEF RemoveClient
  <2>2. /\ Len(clients') = Len(clients) - 1
        /\ \A k \in 1..(Len(clients) - 1) :
             clients'[k] = IF k = index THEN clients[Len(clients)] ELSE clients[k]
    BY <2>1, <1>1, <1>3, RemoveSlotIsSeq
  <2>3. ASSUME NEW j \in 1..Len(clients'), Behind(j)'
        PROVE  Coming(j)'
    <3>1. CASE j = index
      <4>1. j >= index'
        BY <3>1, <1>3, <1>6
      <4>2. QED
        BY <4>1, <1>2 DEF Coming, BroadcastAhead
    <3>2. CASE j # index
      <4>1. j \in 1..Len(clients) /\ clients'[j] = clients[j]
        BY <3>2, <2>2, <1>3
      <4>2. clients[j] \in Conn /\ clients[j] # c
        BY <4>1, <3>2, <1>1, ClientAt DEF SlotsConsistent, Distinct
      <4>3. SameFeed(clients[j])
        BY <4>2, <1>1
      <4>4. Behind(j)
        BY <4>1, <4>3, <2>3, <1>1 DEF SameFeed, Behind
      <4>5. Coming(j)
        BY <4>1, <4>4, NoLostUnfolded
      <4>6. QED
        BY <4>5, <1>2, <1>6 DEF Coming, BroadcastAhead
    <3>3. QED
      BY <3>1, <3>2
  <2>4. QED
    BY <2>3, Zenon DEF NoLostSnapshot, Behind, Coming
<1>7. QED
  BY <1>5, <1>6, BroadcastEffect

\* Nor does any step.
LEMMA NoLostStep ==
    ASSUME Inv, NoLostSnapshot, [Next]_vars
    PROVE  NoLostSnapshot'
<1> USE DEF serverVars, serviceVars, threadVars, connVars
<1>1. CASE UNCHANGED <<clients, subscribed, last, snapshot, format, spc, wake,
                       tpc, index, should_broadcast, stopping>>
  BY <1>1, NoLostQuiet DEF Coming, BroadcastAhead
<1>2. CASE LoopTop
  BY <1>2, NoLostQuiet DEF LoopTop, Coming, BroadcastAhead
<1>3. CASE Poll
  BY <1>3, NoLostQuiet DEF Poll, Coming, BroadcastAhead
<1>4. CASE PollError
  BY <1>4, NoLostQuiet DEF PollError, Coming, BroadcastAhead
<1>5. CASE DrainWakePipe
  BY <1>5, NoLostQuiet DEF DrainWakePipe, Coming, BroadcastAhead
<1>6. CASE CheckStopping
  BY <1>6, NoLostQuiet DEF CheckStopping, Coming, BroadcastAhead
<1>7. CASE BroadcastDone
  <2>1. \A i \in 1..Len(clients) : ~(i >= index)
    BY <1>7, ArrayTypes DEF BroadcastDone, Inv
  <2>2. QED
    BY <1>7, <2>1, NoLostQuiet DEF BroadcastDone, Coming, BroadcastAhead
<1>8. CASE ThreadExit
  <2>1. clients' = <<>>
    BY <1>8 DEF ThreadExit
  <2>2. QED
    BY <2>1 DEF NoLostSnapshot
<1>9. QED
  BY <1>1, <1>2, <1>3, <1>4, <1>5, <1>6, <1>7, <1>8, NoLostStateService,
     NoLostServe, NoLostAccept, NoLostBroadcast
     DEF Next, ControlThread, Client, Terminated, vars, PopAction,
         ClientConnect, ClientSend, ClientRead, ClientClose

-----------------------------------------------------------------------------
(* The invariant.                                                          *)

\* The initial state satisfies the inductive invariant.
LEMMA InvInit == Init => Inv
<1> SUFFICES ASSUME Init PROVE Inv
  OBVIOUS
<1>1. TypeOK
  BY TypeInit
<1>2. Phases
  BY DEF Init, Phases
<1>3. SlotsConsistent
  <2>1. Distinct(<<>>) /\ (\A c : ~Holds(<<>>, c)) /\ Len(<<>>) <= MaxClients
    BY SizeAssumption DEF Distinct, Holds
  <2>2. clients = <<>> /\ backlog = <<>> /\ \A c \in Conn : sock[c] = "none"
    BY DEF Init
  <2>3. QED
    BY <2>1, <2>2 DEF SlotsConsistent
<1>4. PollfdsAligned /\ ReadsUnsubscribed
  BY DEF Init, PollfdsAligned, ReadsUnsubscribed
<1>5. Lifecycle
  BY DEF Init, Lifecycle
<1>6. QED
  BY <1>1, <1>2, <1>3, <1>4, <1>5 DEF Inv

\* Every step preserves the inductive invariant.
LEMMA InvStep == Inv /\ [Next]_vars => Inv'
<1> SUFFICES ASSUME Inv, [Next]_vars PROVE Inv'
  OBVIOUS
<1>1. TypeOK' /\ Phases' /\ SlotsConsistent' /\ PollfdsAligned'
  BY TypeStep, PhasesStep, SlotsStep, AlignedStep DEF Inv
<1>2. Lifecycle' /\ ReadsUnsubscribed'
  BY LifecycleStep, ReadsStep
<1>3. QED
  BY <1>1, <1>2 DEF Inv

\* The inductive invariant holds of lstart, lpublish, lstop and
\* control_thread
\* in every reachable state.
THEOREM Invariance == Spec => []Inv
  BY InvInit, InvStep, PTL DEF Spec

\* control_thread, lstart, lpublish and lstop keep every variable in its
\* type, whatever the sizes.
THEOREM TypeCorrect == Spec => []TypeOK
<1>1. Inv => TypeOK
  BY DEF Inv
<1>2. QED
  BY <1>1, Invariance, PTL

\* remove_client and accept_clients keep the array of clients and the open
\* descriptors in step: no slot is held twice, none leaks, none overflows.
THEOREM SlotsStayConsistent == Spec => []SlotsConsistent
<1>1. Inv => SlotsConsistent
  BY DEF Inv
<1>2. QED
  BY <1>1, Invariance, PTL

\* The events control_thread reads at index belong to the client at index,
\* although remove_client moves clients while the pass runs.
THEOREM PollfdsStayAligned == Spec => []PollfdsAligned
<1>1. Inv => PollfdsAligned
  BY DEF Inv
<1>2. QED
  BY <1>1, Invariance, PTL

\* lpublish's store and its wake byte, drain_wake_pipe and broadcast_snapshot
\* never leave a subscriber behind with nobody about to write to it.
THEOREM NoSnapshotLost == Spec => []NoLostSnapshot
<1>1. Init => NoLostSnapshot
  BY DEF Init, NoLostSnapshot
<1>2. Inv /\ NoLostSnapshot /\ [Next]_vars => NoLostSnapshot'
  BY NoLostStep
<1>3. QED
  BY <1>1, <1>2, Invariance, PTL DEF Spec

-----------------------------------------------------------------------------
(* What clients are told.                                                  *)

\* A sequence with one element more.
LEMMA AppendHolds ==
    ASSUME NEW s \in Seq(Conn), NEW c \in Conn
    PROVE  /\ \A d : Holds(Append(s, c), d) <=> Holds(s, d) \/ d = c
           /\ Distinct(s) /\ ~Holds(s, c) => Distinct(Append(s, c))
<1> DEFINE t == Append(s, c)
<1>1. /\ Len(s) \in Nat /\ Len(t) = Len(s) + 1
      /\ \A i \in 1..Len(s) : t[i] = s[i]
      /\ t[Len(s) + 1] = c
  OBVIOUS
<1> HIDE DEF t
<1>2. ASSUME NEW d PROVE Holds(t, d) => Holds(s, d) \/ d = c
  BY <1>1 DEF Holds
<1>3. ASSUME NEW d, Holds(s, d) PROVE Holds(t, d)
  BY <1>1, <1>3 DEF Holds
<1>4. Holds(t, c)
  <2>1. Len(s) + 1 \in 1..Len(t)
    BY <1>1
  <2>2. QED
    BY <1>1, <2>1 DEF Holds
<1>5. ASSUME Distinct(s), ~Holds(s, c) PROVE Distinct(t)
  BY <1>1, <1>5 DEF Distinct, Holds
<1>6. QED
  BY <1>2, <1>3, <1>4, <1>5 DEF t

\* The queue and what was taken from it, when an action is added or taken.
LEMMA KnownAppend ==
    ASSUME NEW p \in Seq(Conn), NEW a \in Seq(Conn), NEW c \in Conn
    PROVE  p \o Append(a, c) = Append(p \o a, c)
  OBVIOUS

LEMMA KnownPop ==
    ASSUME NEW p \in Seq(Conn), NEW a \in Seq(Conn), a # <<>>
    PROVE  Append(p, Head(a)) \o Tail(a) = p \o a
  OBVIOUS

\* What is distinct in a concatenation is distinct in its first part.
LEMMA KnownPrefix ==
    ASSUME NEW p \in Seq(Conn), NEW a \in Seq(Conn)
    PROVE  /\ p \o <<>> = p
           /\ Distinct(p \o a) => Distinct(p)
           /\ \A c : Holds(p, c) => Holds(p \o a, c)
<1>1. p \o <<>> = p
  OBVIOUS
<1>2. /\ Len(p) \in Nat /\ Len(a) \in Nat /\ Len(p \o a) = Len(p) + Len(a)
      /\ \A i \in 1..Len(p) : (p \o a)[i] = p[i]
  BY ConcatElements
<1>3. 1..Len(p) \subseteq 1..Len(p \o a)
  BY <1>2
<1>4. QED
  BY <1>1, <1>2, <1>3, Zenon DEF Distinct, Holds

\* A connection that was closed stays closed: a descriptor is not used again.
LEMMA ClosedStays ==
    ASSUME Inv, [Next]_vars
    PROVE  \A c \in Conn : sock[c] = "closed" => sock'[c] = "closed"
<1> USE DEF Inv
<1>1. CASE UNCHANGED sock
  BY <1>1
<1>2. CASE StopJoin \/ ThreadExit
  BY <1>2 DEF StopJoin, ThreadExit
<1>3. CASE AcceptClients
  <2>1. CASE pollfds.listener
    BY <1>3, <2>1 DEF AcceptClients
  <2>2. CASE ~pollfds.listener
    BY <1>3, <2>2, Zenon DEF AcceptClients
  <2>3. QED
    BY <2>1, <2>2
<1>4. CASE ServeClient \/ BroadcastClient
  <2>1. KeepClients \/ RemoveClient(index)
    BY <1>4, ServeCases, BroadcastCases
  <2>2. QED
    BY <2>1 DEF KeepClients, RemoveClient, TypeOK, ConnType
<1>5. ASSUME NEW c \in Conn, ClientConnect(c)
      PROVE  \A d \in Conn : sock[d] = "closed" => sock'[d] = "closed"
  <2>1. sock[c] = "none"
    BY <1>5 DEF ClientConnect, Lifecycle
  <2>2. \A d \in Conn : d # c => sock'[d] = sock[d]
    BY <1>5 DEF ClientConnect, TypeOK, ConnType
  <2>3. QED
    BY <2>1, <2>2
<1>6. QED
  BY <1>1, <1>2, <1>3, <1>4, <1>5
     DEF Next, StateService, ControlThread, Client, Terminated, vars, connVars,
         Start, StartFails, PublishStore, PublishWake, StopRequest,
         StopWake, PopAction, LoopTop, Poll, PollError, DrainWakePipe,
         CheckStopping, BroadcastDone, ClientSend, ClientRead, ClientClose

\* What serving the client in slot i writes: nothing, or one whole line to
\* that client, or a fragment of one, and then the client is removed.
OneWrite(i) ==
    LET c == clients[i] IN
    /\ \A d \in Conn : d # c => output'[d] = output[d]
    /\ \/ output'[c] = output[c]
       \/ \E line \in Line : line.whole = TRUE /\ output'[c] = Append(output[c], line)
       \/ RemoveClient(i) /\ \E line \in Line : output'[c] = Append(output[c], line)

LEMMA WrittenOnce ==
    ASSUME TypeOK, NEW i \in 1..Len(clients), NEW line \in Line, line.whole = TRUE,
           NEW w \in WriteAll(clients[i], line), Written(clients[i], line, w),
           w.ok = FALSE => RemoveClient(i)
    PROVE  OneWrite(i)
<1> DEFINE c == clients[i]
<1>1. c \in Conn
  BY ClientAt
<1>2. /\ \A d \in Conn : d # c => output'[d] = output[d]
      /\ output'[c] = w.output
  BY <1>1 DEF Written, TypeOK, PeerType
<1>3. Torn(line) \in Line
  BY DEF Torn, Line
<1> HIDE DEF c
<1>4. CASE w = [ok |-> FALSE, output |-> output[c]]
  <2>1. output'[c] = output[c]
    BY <1>2, <1>4
  <2>2. QED
    BY <1>2, <2>1 DEF OneWrite, c
<1>5. CASE w = [ok |-> TRUE, output |-> Append(output[c], line)]
  <2>1. output'[c] = Append(output[c], line)
    BY <1>2, <1>5
  <2>2. QED
    BY <1>2, <2>1 DEF OneWrite, c
<1>6. CASE w = [ok |-> FALSE, output |-> Append(output[c], Torn(line))]
  <2>1. output'[c] = Append(output[c], Torn(line)) /\ RemoveClient(i)
    BY <1>2, <1>6
  <2>2. QED
    BY <1>2, <1>3, <2>1 DEF OneWrite, c
<1>7. QED
  BY <1>4, <1>5, <1>6, WriteAllCases DEF c

\* What handling the command of the client in slot i does to the queue and to
\* what that client was told last.
OneAnswer(i) ==
    LET c == clients[i]
        Told(text) == last'[c] = last[c] \/ last'[c].text = text IN
    /\ \A d \in Conn : d # c => last'[d] = last[d]
    /\ \/ UNCHANGED actions /\ (Told("snapshot") \/ Told("unknown"))
       \/ /\ RemoveClient(i)
          /\ \/ Len(actions) < MaxActions /\ actions' = Append(actions, c) /\ Told("accepted")
             \/ UNCHANGED actions /\ Told("busy")

LEMMA WrittenTold ==
    ASSUME TypeOK, NEW c \in Conn, NEW line \in Line, NEW w \in WriteAll(c, line),
           Written(c, line, w)
    PROVE  /\ \A d \in Conn : d # c => last'[d] = last[d]
           /\ last'[c] = last[c] \/ last'[c].text = line.text
<1>1. w.ok \in BOOLEAN
  BY WriteAllType
<1>2. QED
  BY <1>1 DEF Written, TypeOK, ConnType

\* The lines handle_command and broadcast_snapshot write.
LEMMA WholeLines ==
    /\ \A r : SnapshotLine(r).whole = TRUE /\ SnapshotLine(r).text = "snapshot"
    /\ \A t : ReplyLine(t).whole = TRUE /\ ReplyLine(t).text = t
  BY DEF SnapshotLine, ReplyLine

LEMMA HandleAnswers ==
    ASSUME TypeOK, NEW i \in 1..Len(clients), HandleCommand(i)
    PROVE  OneWrite(i) /\ OneAnswer(i)
<1> DEFINE c == clients[i]
           shot == SnapshotLine(snapshot[FormatOf(command[c])])
<1>1. c \in Conn
  BY ClientAt
<1>2. shot \in Line /\ shot.whole = TRUE /\ shot.text = "snapshot"
  <2>1. snapshot[FormatOf(command[c])] \in Revision
    BY FormatOfType DEF TypeOK, ServerType
  <2>2. QED
    BY <2>1, LineTypes, WholeLines
<1> HIDE DEF c, shot
<1>3. CASE HandleStatus(i)
  <2>1. PICK w \in WriteAll(c, shot) : Written(c, shot, w)
    BY <1>3 DEF HandleStatus, c, shot
  <2>2. RemoveClient(i) /\ UNCHANGED actions
    BY <1>3 DEF HandleStatus
  <2>3. OneWrite(i)
    BY <1>2, <2>1, <2>2, WrittenOnce DEF c
  <2>4. OneAnswer(i)
    BY <1>1, <1>2, <2>1, <2>2, WrittenTold DEF OneAnswer, c
  <2>5. QED
    BY <2>3, <2>4
<1>4. CASE HandleSubscribe(i)
  <2>1. PICK w \in WriteAll(c, shot) :
          Written(c, shot, w) /\ IF w.ok THEN KeepClients ELSE RemoveClient(i)
    BY <1>4 DEF HandleSubscribe, c, shot
  <2>2. UNCHANGED actions /\ (w.ok = FALSE => RemoveClient(i))
    BY <1>4, <2>1 DEF HandleSubscribe
  <2>3. OneWrite(i)
    BY <1>2, <2>1, <2>2, WrittenOnce DEF c
  <2>4. OneAnswer(i)
    BY <1>1, <1>2, <2>1, <2>2, WrittenTold DEF OneAnswer, c
  <2>5. QED
    BY <2>3, <2>4
<1>5. CASE HandleAction(i)
  <2>1. PICK ok \in BOOLEAN :
          /\ EnqueueAction(c, ok)
          /\ \E w \in WriteAll(c, ReplyLine(IF ok THEN "accepted" ELSE "busy")) :
               Written(c, ReplyLine(IF ok THEN "accepted" ELSE "busy"), w)
    BY <1>5 DEF HandleAction, c
  <2>2. RemoveClient(i)
    BY <1>5 DEF HandleAction
  <2> DEFINE line == ReplyLine(IF ok THEN "accepted" ELSE "busy")
  <2>3. /\ line \in Line /\ line.whole = TRUE
        /\ line.text = IF ok THEN "accepted" ELSE "busy"
    BY LineTypes, WholeLines
  <2> HIDE DEF line
  <2>4. PICK w \in WriteAll(c, line) : Written(c, line, w)
    BY <2>1 DEF line
  <2>5. OneWrite(i)
    BY <2>2, <2>3, <2>4, WrittenOnce DEF c
  <2>6. /\ \A d \in Conn : d # c => last'[d] = last[d]
        /\ last'[c] = last[c] \/ last'[c].text = line.text
    BY <1>1, <2>3, <2>4, WrittenTold
  <2>7. \/ ok = TRUE /\ Len(actions) < MaxActions /\ actions' = Append(actions, c)
        \/ ok = FALSE /\ UNCHANGED actions
    BY <2>1 DEF EnqueueAction
  <2>8. OneAnswer(i)
    BY <2>2, <2>3, <2>6, <2>7 DEF OneAnswer, c
  <2>9. QED
    BY <2>5, <2>8
<1>6. CASE HandleUnknown(i)
  <2>1. PICK w \in WriteAll(c, ReplyLine("unknown")) : Written(c, ReplyLine("unknown"), w)
    BY <1>6 DEF HandleUnknown, c
  <2>2. RemoveClient(i) /\ UNCHANGED actions
    BY <1>6 DEF HandleUnknown
  <2>3. OneWrite(i)
    BY <2>1, <2>2, LineTypes, WholeLines, WrittenOnce DEF c
  <2>4. last'[c] = last[c] \/ last'[c].text = "unknown"
    BY <1>1, <2>1, LineTypes, WholeLines, WrittenTold
  <2>5. \A d \in Conn : d # c => last'[d] = last[d]
    BY <1>1, <2>1, LineTypes, WrittenTold
  <2>6. OneAnswer(i)
    BY <2>2, <2>4, <2>5 DEF OneAnswer, c
  <2>7. QED
    BY <2>3, <2>6
<1>7. QED
  BY <1>3, <1>4, <1>5, <1>6 DEF HandleCommand

LEMMA ServeAnswers ==
    ASSUME TypeOK, PollfdsAligned, ServeClient
    PROVE  index \in 1..Len(clients) /\ OneWrite(index) /\ OneAnswer(index)
<1>1. index \in 1..Len(clients)
  BY PassIndex DEF ServeClient
<1>2. CASE UNCHANGED <<actions, last, output>>
  BY <1>1, <1>2 DEF OneWrite, OneAnswer
<1>3. CASE HandleCommand(index)
  BY <1>1, <1>3, HandleAnswers
<1>4. QED
  BY <1>2, <1>3 DEF ServeClient, ReadCommand

LEMMA BroadcastAnswers ==
    ASSUME TypeOK, Phases, BroadcastClient
    PROVE  index \in 1..Len(clients) /\ OneWrite(index) /\ OneAnswer(index)
<1> DEFINE c == clients[index]
           line == SnapshotLine(snapshot[format[c]])
<1>1. index \in 1..Len(clients) /\ c \in Conn /\ line \in Line
  BY BroadcastCases
<1>2. line.whole = TRUE /\ line.text = "snapshot"
  BY WholeLines
<1>3. UNCHANGED actions
  BY DEF BroadcastClient, serverVars
<1>4. CASE UNCHANGED <<last, output>>
  BY <1>1, <1>3, <1>4 DEF OneWrite, OneAnswer
<1>5. ASSUME NEW w \in WriteAll(c, line), Written(c, line, w),
             \/ w.ok = TRUE /\ index' = index + 1 /\ KeepClients
             \/ w.ok = FALSE /\ index' = index /\ RemoveClient(index)
      PROVE  OneWrite(index) /\ OneAnswer(index)
  <2>1. OneWrite(index)
    BY <1>1, <1>2, <1>5, WrittenOnce
  <2>2. /\ \A d \in Conn : d # c => last'[d] = last[d]
        /\ last'[c] = last[c] \/ last'[c].text = "snapshot"
    BY <1>1, <1>2, <1>5, WrittenTold
  <2>3. QED
    BY <1>3, <2>1, <2>2 DEF OneAnswer
<1>6. QED
  BY <1>1, <1>4, <1>5, BroadcastCases, Zenon

\* Every step keeps it that a fragment is the last thing its client is sent.
LEMMA TornStep ==
    ASSUME Inv, TornIsLast, [Next]_vars
    PROVE  TornIsLast'
<1> USE DEF Inv
<1>c. \A c \in Conn : sock[c] = "closed" => sock'[c] = "closed"
  BY ClosedStays
<1>o. \A c \in Conn : output[c] \in Seq(Line)
  BY DEF TypeOK, PeerType
<1> DEFINE Good(c) == \A i \in 1..Len(output'[c]) :
                        ~output'[c][i].whole => i = Len(output'[c]) /\ sock'[c] = "closed"
<1>s. ASSUME NEW c \in Conn, output'[c] = output[c]
      PROVE  Good(c)
  BY <1>c, <1>s DEF TornIsLast
<1>1. CASE UNCHANGED output
  BY <1>1, <1>s DEF TornIsLast
<1>2. ASSUME NEW i \in 1..Len(clients), OneWrite(i)
      PROVE  TornIsLast'
  <2> DEFINE c == clients[i]
             o == output[c]
  <2>1. c \in Conn /\ sock[c] = "open" /\ (RemoveClient(i) => sock'[c] = "closed")
    BY ClientAt, SlotOpen
  <2>2. o \in Seq(Line) /\ \A j \in 1..Len(o) : o[j].whole
    BY <1>o, <2>1 DEF TornIsLast
  <2>3. ASSUME NEW line \in Line, output'[c] = Append(o, line),
               line.whole = TRUE \/ RemoveClient(i)
        PROVE  Good(c)
    <3>1. /\ Len(output'[c]) = Len(o) + 1 /\ Len(o) \in Nat
          /\ \A j \in 1..Len(o) : output'[c][j] = o[j]
          /\ output'[c][Len(o) + 1] = line
      BY <2>2, <2>3
    <3>2. \A j \in 1..Len(o) : output'[c][j].whole
      BY <2>2, <3>1
    <3>3. output'[c][Len(o) + 1].whole \/ sock'[c] = "closed"
      BY <2>1, <2>3, <3>1
    <3> HIDE DEF o, c
    <3>4. \A j \in 1..(Len(o) + 1) : j \in 1..Len(o) \/ j = Len(o) + 1
      BY <3>1
    <3>5. QED
      BY <3>1, <3>2, <3>3, <3>4, Zenon
  <2>4. Good(c)
    BY <1>2, <2>1, <2>3, <1>s DEF OneWrite
  <2>5. \A d \in Conn : d # c => Good(d)
    BY <1>2, <1>s DEF OneWrite
  <2>6. QED
    BY <2>4, <2>5 DEF TornIsLast
<1>3. CASE ServeClient
  BY <1>2, <1>3, ServeAnswers
<1>4. CASE BroadcastClient
  BY <1>2, <1>4, BroadcastAnswers
<1>5. ASSUME NEW c \in Conn, ClientRead(c)
      PROVE  TornIsLast'
  <2> DEFINE o == output[c]
  <2>1. /\ o # <<>> /\ output'[c] = Tail(o)
        /\ \A d \in Conn : d # c => output'[d] = output[d]
    BY <1>5 DEF ClientRead, TypeOK, PeerType
  <2>2. o \in Seq(Line)
    BY <1>o
  <2>3. /\ Len(output'[c]) = Len(o) - 1 /\ Len(o) \in Nat
        /\ \A j \in 1..(Len(o) - 1) : output'[c][j] = o[j + 1]
    BY <2>1, <2>2
  <2>4. \A j \in 1..(Len(o) - 1) : j + 1 \in 1..Len(o) /\ (j + 1 = Len(o) => j = Len(o) - 1)
    BY <2>3
  <2>5. \A j \in 1..Len(o) : ~o[j].whole => j = Len(o) /\ sock'[c] = "closed"
    BY <1>c DEF TornIsLast
  <2> HIDE DEF o
  <2>6. Good(c)
    BY <2>3, <2>4, <2>5, Zenon
  <2>7. QED
    BY <2>1, <2>6, <1>s DEF TornIsLast
<1>6. ASSUME NEW c \in Conn, ClientClose(c)
      PROVE  TornIsLast'
  <2>1. /\ output'[c] = <<>>
        /\ \A d \in Conn : d # c => output'[d] = output[d]
    BY <1>6 DEF ClientClose, TypeOK, PeerType
  <2>2. Good(c)
    BY <2>1
  <2>3. QED
    BY <2>1, <2>2, <1>s DEF TornIsLast
<1>7. QED
  BY <1>1, <1>3, <1>4, <1>5, <1>6
     DEF Next, StateService, ControlThread, Client, Terminated, vars, peerVars,
         Start, StartFails, PublishStore, PublishWake, StopRequest, StopJoin,
         StopWake, PopAction, LoopTop, Poll, PollError, DrainWakePipe, AcceptClients,
         CheckStopping, BroadcastDone, ThreadExit, ClientSend, ClientConnect

\* The connections whose action is known are closed, and so are the ones that
\* were answered; the queue is empty before the server starts.
Settled ==
    /\ spc = "new" => actions = <<>>
    /\ \A c \in Conn :
         Holds(popped \o actions, c) \/ last[c].text \in {"accepted", "busy"}
           => sock[c] = "closed"

\* Every step keeps accepted actions, each once, and answers true.
LEMMA AcceptedStep ==
    ASSUME Inv, Inv', AcceptedOnce, Settled, [Next]_vars
    PROVE  AcceptedOnce' /\ Settled'
<1> USE DEF Inv
<1>c. \A c \in Conn : sock[c] = "closed" => sock'[c] = "closed"
  BY ClosedStays
<1>t. actions \in Seq(Conn) /\ popped \in Seq(Conn) /\ Len(actions) \in Nat
      /\ popped \o actions \in Seq(Conn)
  <2>1. actions \in Seq(Conn) /\ popped \in Seq(Conn)
    BY DEF TypeOK, ServerType, ServiceType
  <2>2. QED
    BY <2>1
<1>p. (spc = "off" => spc' = "off") /\ (spc' = "new" => spc = "new" /\ UNCHANGED actions)
  <2>1. CASE UNCHANGED <<spc, actions>>
    BY <2>1
  <2>2. CASE StateService
    BY <2>2 DEF StateService, Start, StartFails, PublishStore, PublishWake, StopRequest,
         StopJoin, StopWake
  <2>3. CASE PopAction
    BY <2>3 DEF PopAction, Settled
  <2>4. CASE ServeClient
    <3>1. tpc = "clients" /\ UNCHANGED spc
      BY <2>4 DEF ServeClient, serviceVars
    <3>2. QED
      BY <3>1 DEF Phases
  <2>5. QED
    BY <2>1, <2>2, <2>3, <2>4
     DEF Next, ControlThread, Client, Terminated, vars, serverVars, serviceVars,
         LoopTop, Poll, PollError, DrainWakePipe, AcceptClients, BroadcastClient,
         CheckStopping, BroadcastDone, ThreadExit, ClientSend, ClientConnect,
         ClientRead, ClientClose
<1>q. spc' = "new" => actions' = <<>>
  BY <1>p DEF Settled
<1>1. CASE popped' \o actions' = popped \o actions /\ Len(actions') <= MaxActions
           /\ UNCHANGED last
  <2>1. AcceptedOnce'
    BY <1>1, <1>p DEF AcceptedOnce
  <2>2. Settled'
    BY <1>1, <1>c, <1>q DEF Settled
  <2>3. QED
    BY <2>1, <2>2
<1>2. CASE UNCHANGED <<popped, actions, last>>
  BY <1>1, <1>2 DEF AcceptedOnce
<1>3. CASE Start
  <2>1. UNCHANGED <<popped, actions, last>>
    BY <1>3 DEF Start, Settled, connVars
  <2>2. QED
    BY <1>2, <2>1
<1>4. CASE StopJoin
  <2>1. UNCHANGED <<popped, last>> /\ actions' = <<>> /\ spc' = "off"
    BY <1>4 DEF StopJoin
  <2>2. /\ popped' \o actions' = popped
        /\ Distinct(popped \o actions) => Distinct(popped)
        /\ \A c : Holds(popped, c) => Holds(popped \o actions, c)
    BY <1>t, <2>1, KnownPrefix
  <2>3. Len(actions') <= MaxActions
    BY <2>1, SizeAssumption
  <2>4. AcceptedOnce'
    BY <2>1, <2>2, <2>3 DEF AcceptedOnce
  <2>5. Settled'
    BY <1>c, <2>1, <2>2 DEF Settled
  <2>6. QED
    BY <2>4, <2>5
<1>5. CASE PopAction
  <2>1. /\ actions # <<>> /\ actions' = Tail(actions)
        /\ popped' = Append(popped, Head(actions)) /\ UNCHANGED last
    BY <1>5 DEF PopAction, connVars
  <2>2. popped' \o actions' = popped \o actions
    BY <1>t, <2>1, KnownPop
  <2>3. Len(actions') = Len(actions) - 1 /\ MaxActions \in Nat
    BY <1>t, <2>1, SizeAssumption
  <2>4. QED
    BY <1>1, <1>t, <2>1, <2>2, <2>3 DEF AcceptedOnce
<1>6. ASSUME NEW i \in 1..Len(clients), OneAnswer(i), UNCHANGED <<popped, spc>>
      PROVE  AcceptedOnce' /\ Settled'
  <2> DEFINE c == clients[i]
             known == popped \o actions
  <2>1. c \in Conn /\ sock[c] = "open" /\ (RemoveClient(i) => sock'[c] = "closed")
    BY ClientAt, SlotOpen
  <2>2. ~Holds(known, c) /\ last[c].text \notin {"accepted", "busy"}
    BY <2>1 DEF Settled
  <2>3. \A d \in Conn : d # c => last'[d] = last[d]
    BY <1>6 DEF OneAnswer
  <2>4. CASE UNCHANGED actions /\ last'[c].text \notin {"accepted", "busy"}
    <3>1. \A d \in Conn : last'[d].text \in {"accepted", "busy"} => last'[d] = last[d]
      BY <2>3, <2>4
    <3>2. AcceptedOnce'
      BY <1>6, <2>4, <3>1 DEF AcceptedOnce
    <3>3. Settled'
      BY <1>6, <1>c, <1>q, <2>4, <3>1 DEF Settled
    <3>4. QED
      BY <3>2, <3>3
  <2>5. CASE RemoveClient(i) /\ UNCHANGED actions /\ last'[c].text = "busy"
    <3>1. \A d \in Conn : d # c /\ last'[d].text \in {"accepted", "busy"} => last'[d] = last[d]
      BY <2>3, <2>5
    <3>2. AcceptedOnce'
      BY <1>6, <2>2, <2>5, <3>1 DEF AcceptedOnce
    <3>3. Settled'
      BY <1>6, <1>c, <1>q, <2>1, <2>5, <3>1 DEF Settled
    <3>4. QED
      BY <3>2, <3>3
  <2>6. CASE /\ RemoveClient(i) /\ Len(actions) < MaxActions
             /\ actions' = Append(actions, c) /\ last'[c].text # "busy"
    <3>1. popped' \o actions' = Append(known, c)
      BY <1>6, <1>t, <2>1, <2>6, KnownAppend
    <3>2. /\ \A d : Holds(Append(known, c), d) <=> Holds(known, d) \/ d = c
          /\ Distinct(Append(known, c))
      BY <1>t, <2>1, <2>2, AppendHolds DEF AcceptedOnce
    <3>3. Len(actions') <= MaxActions
      BY <1>t, <2>6, SizeAssumption
    <3> HIDE DEF c, known
    <3>4. AcceptedOnce'
      BY <1>6, <2>3, <2>6, <3>1, <3>2, <3>3 DEF AcceptedOnce, known
    <3>5. Settled'
      BY <1>6, <1>c, <1>q, <2>1, <2>3, <2>6, <3>1, <3>2 DEF Settled, known
    <3>6. QED
      BY <3>4, <3>5
  <2>7. QED
    BY <1>6, <2>2, <2>4, <2>5, <2>6, Zenon DEF OneAnswer
<1>7. CASE ServeClient
  BY <1>6, <1>7, ServeAnswers DEF ServeClient, serviceVars
<1>8. CASE BroadcastClient
  BY <1>6, <1>8, BroadcastAnswers DEF BroadcastClient, serviceVars
<1>9. QED
  BY <1>2, <1>3, <1>4, <1>5, <1>7, <1>8
     DEF Next, StateService, ControlThread, Client, Terminated, vars, serverVars,
         serviceVars, connVars, StartFails, PublishStore, PublishWake, StopRequest,
         StopWake, LoopTop, Poll, PollError, DrainWakePipe, AcceptClients,
         CheckStopping, BroadcastDone, ThreadExit, ClientSend, ClientConnect,
         ClientRead, ClientClose

\* The hangups poll reported are real: a client that has closed stays closed.
Hangups ==
    \A i \in 1..Len(pollfds.client) :
        pollfds.client[i].revents = "hup" => peer[pollfds.client[i].fd] = "closed"

LEMMA HangupsStep ==
    ASSUME Inv, Hangups, [Next]_vars
    PROVE  Hangups'
<1> USE DEF Inv
<1>1. \A c \in Conn : peer[c] = "closed" => peer'[c] = "closed"
  <2>1. CASE UNCHANGED peer
    BY <2>1
  <2>2. ASSUME NEW c \in Conn, ClientConnect(c) \/ ClientClose(c)
        PROVE  \A d \in Conn : peer[d] = "closed" => peer'[d] = "closed"
    BY <2>2 DEF ClientConnect, ClientClose, TypeOK, PeerType
  <2>3. QED
    BY <2>1, <2>2
       DEF Next, StateService, ControlThread, Client, Terminated, vars, peerVars,
         Start, StartFails, PublishStore, PublishWake, StopRequest, StopJoin,
         StopWake, PopAction, LoopTop, Poll, PollError, DrainWakePipe, AcceptClients,
         CheckStopping, ServeClient, BroadcastClient, BroadcastDone, ThreadExit,
         ClientSend, ClientRead
<1>2. pollfds.client \in Seq(Polled)
  BY DEF TypeOK, ThreadType
<1>3. CASE UNCHANGED pollfds
  <2>1. ASSUME NEW i \in 1..Len(pollfds.client)
        PROVE  pollfds.client[i].fd \in Conn
    <3>1. pollfds.client[i] \in Polled
      BY <1>2
    <3>2. QED
      BY <3>1 DEF Polled
  <2>2. QED
    BY <1>1, <1>3, <2>1 DEF Hangups
<1>4. CASE PollError \/ AcceptClients
  <2>1. pollfds' = NoPollfds
    BY <1>4, Zenon DEF PollError, AcceptClients
  <2>2. QED
    BY <2>1 DEF Hangups, NoPollfds
<1>5. CASE LoopTop
  <2>1. CASE stopping
    BY <1>3, <1>5, <2>1 DEF LoopTop
  <2>2. CASE ~stopping
    <3> DEFINE q == [i \in 1..Len(clients) |-> [fd |-> clients[i], revents |-> "none"]]
    <3>1. pollfds' = [listener |-> FALSE, client |-> q]
      BY <1>5, <2>2 DEF LoopTop
    <3>2. Len(q) = Len(clients) /\ \A i \in 1..Len(clients) : q[i].revents = "none"
      BY ArrayTypes
    <3> HIDE DEF q
    <3>3. pollfds'.client = q
      BY <3>1
    <3>4. QED
      BY <3>2, <3>3 DEF Hangups
  <2>3. QED
    BY <2>1, <2>2
<1>6. CASE Poll
  <2> DEFINE n == Len(pollfds.client)
             q == [i \in 1..n |-> [fd |-> pollfds.client[i].fd,
                                   revents |-> Revents(pollfds.client[i].fd)]]
  <2>1. pollfds' = [listener |-> backlog # <<>>, client |-> q] /\ UNCHANGED peer
    BY <1>6 DEF Poll, peerVars
  <2>2. n \in Nat /\ Len(q) = n
    BY <1>2
  <2>3. ASSUME NEW i \in 1..n, q[i].revents = "hup"
        PROVE  peer[q[i].fd] = "closed"
    <3>1. q[i].fd = pollfds.client[i].fd /\ Revents(pollfds.client[i].fd) = "hup"
      BY <2>3
    <3>2. peer[pollfds.client[i].fd] = "closed"
      BY <3>1 DEF Revents
    <3>3. QED
      BY <3>1, <3>2
  <2> HIDE DEF n, q
  <2>4. pollfds'.client = q
    BY <2>1
  <2>5. QED
    BY <2>1, <2>2, <2>3, <2>4, Zenon DEF Hangups
<1>7. QED
  BY <1>3, <1>4, <1>5, <1>6
     DEF Next, StateService, ControlThread, Client, Terminated, vars, threadVars,
         Start, StartFails, PublishStore, PublishWake, StopRequest, StopJoin,
         StopWake, PopAction, DrainWakePipe, CheckStopping, ServeClient,
         BroadcastClient, BroadcastDone, ThreadExit, ClientSend, ClientRead,
         ClientConnect, ClientClose

\* A subscriber that a step other than the end of the thread closes had
\* closed its end or left its socket full.
LEMMA DropStep ==
    ASSUME Inv, Hangups, [Next]_vars, NEW c \in Conn,
           sock[c] = "open", sock'[c] = "closed", subscribed[c],
           peer[c] = "open", Len(output[c]) < SocketSize
    PROVE  tpc = "exit"
<1> USE DEF Inv
<1>1. CASE UNCHANGED sock
  BY <1>1
<1>2. CASE ThreadExit
  BY <1>2 DEF ThreadExit
<1>3. CASE StopJoin
  BY <1>3 DEF StopJoin
<1>4. CASE AcceptClients
  <2>1. CASE pollfds.listener
    BY <1>4, <2>1 DEF AcceptClients
  <2>2. CASE ~pollfds.listener
    BY <1>4, <2>2, Zenon DEF AcceptClients
  <2>3. QED
    BY <2>1, <2>2
<1>5. CASE ServeClient
  <2>1. /\ index \in 1..Len(clients) /\ clients[index] \in Conn
        /\ \A d \in Conn : d # clients[index] => SameFeed(d)
    BY <1>5, ServeEffect
  <2>2. c = clients[index]
    BY <2>1 DEF SameFeed
  <2>3. /\ tpc = "clients" /\ index > 0 /\ index \in 1..Len(pollfds.client)
        /\ index \in 1..index
    BY <1>5, PassIndex, ArrayTypes DEF ServeClient
  <2>4. pollfds.client[index].fd = c
    BY <2>2, <2>3 DEF PollfdsAligned
  <2>5. pollfds.client[index].revents # "hup"
    BY <2>3, <2>4 DEF Hangups
  <2>6. pollfds.client[index].revents # "in"
    BY <2>2, <2>3 DEF ReadsUnsubscribed
  <2>7. KeepClients
    BY <1>5, <2>5, <2>6 DEF ServeClient
  <2>8. QED
    BY <2>7 DEF KeepClients
<1>6. CASE BroadcastClient
  <2>1. /\ index \in 1..Len(clients) /\ clients[index] \in Conn
        /\ \A d \in Conn : d # clients[index] => SameFeed(d)
    BY <1>6, BroadcastEffect
  <2>2. c = clients[index]
    BY <2>1 DEF SameFeed
  <2> DEFINE line == SnapshotLine(snapshot[format[c]])
  <2>3. \A w \in WriteAll(c, line) : w.ok = TRUE
    BY DEF WriteAll
  <2> HIDE DEF line
  <2>4. KeepClients
    BY <2>2, <2>3, <1>6, BroadcastCases, Zenon DEF line
  <2>5. QED
    BY <2>4 DEF KeepClients
<1>7. ASSUME NEW d \in Conn, ClientConnect(d)
      PROVE  FALSE
  BY <1>7 DEF ClientConnect, TypeOK, ConnType
<1>8. QED
  BY <1>1, <1>2, <1>3, <1>4, <1>5, <1>6, <1>7
     DEF Next, StateService, ControlThread, Client, Terminated, vars, connVars,
         Start, StartFails, PublishStore, PublishWake, StopRequest,
         StopWake, PopAction, LoopTop, Poll, PollError, DrainWakePipe,
         CheckStopping, BroadcastDone, ClientSend, ClientRead, ClientClose

\* write_all, handle_command and broadcast_snapshot: whatever the sizes of the
\* sockets, a fragment of a line is the last thing a client is sent, and its
\* connection is closed.
THEOREM FragmentsAreLast == Spec => []TornIsLast
<1>1. Init => TornIsLast
  BY DEF Init, TornIsLast
<1>2. Inv /\ TornIsLast /\ [Next]_vars => TornIsLast'
  BY TornStep
<1>3. QED
  BY <1>1, <1>2, Invariance, PTL DEF Spec

\* enqueue_action, lpop_action and the answers of handle_command: an accepted
\* action is queued or was taken, once, a refused one never is, and the queue
\* fits its ring, whatever its size.
THEOREM AcceptedOnceOnly == Spec => []AcceptedOnce
<1>1. Init => AcceptedOnce /\ Settled
  <2> SUFFICES ASSUME Init PROVE AcceptedOnce /\ Settled
    OBVIOUS
  <2>1. /\ actions = <<>> /\ popped = <<>> /\ popped \o actions = <<>>
        /\ \A c \in Conn : last[c].text = "none"
    BY DEF Init
  <2>2. Distinct(<<>>) /\ (\A c : ~Holds(<<>>, c)) /\ Len(<<>>) <= MaxActions
    BY SizeAssumption DEF Distinct, Holds
  <2>3. QED
    BY <2>1, <2>2 DEF AcceptedOnce, Settled
<1>2. Inv /\ Inv' /\ AcceptedOnce /\ Settled /\ [Next]_vars => AcceptedOnce' /\ Settled'
  BY AcceptedStep
<1>3. QED
  BY <1>1, <1>2, Invariance, PTL DEF Spec

\* remove_client in the pass and in the broadcast closes no subscriber that is
\* there and reads, however many clients come and go around it.
THEOREM SubscribersAreKept == Spec => NoInnocentDropped
<1>1. Init => Hangups
  BY DEF Init, Hangups, NoPollfds
<1>2. Inv /\ Hangups /\ [Next]_vars => Hangups'
  BY HangupsStep
<1> DEFINE Kept == \A c \in Conn :
                     (/\ sock[c] = "open" /\ sock'[c] = "closed" /\ subscribed[c]
                      /\ peer[c] = "open" /\ Len(output[c]) < SocketSize)
                     => tpc = "exit"
<1>3. Inv /\ Hangups /\ [Next]_vars => [Kept]_vars
  BY DropStep
<1>4. QED
  BY <1>1, <1>2, <1>3, Invariance, PTL DEF Spec, NoInnocentDropped

-----------------------------------------------------------------------------
(* The server implements the latest-value feed.                            *)

\* A step in which connections only close, and nobody is sent anything.
LEMMA FeedLeave ==
    ASSUME UNCHANGED revision,
           \A c \in Conn :
             /\ sock[c] = "closed" => sock'[c] = "closed"
             /\ sock'[c] # "closed" => subscribed'[c] = subscribed[c]
             /\ (IF subscribed'[c] THEN last'[c].rev ELSE 0)
                  = (IF subscribed[c] THEN last[c].rev ELSE 0)
    PROVE  F!Next
<1> DEFINE S == {c \in Conn : sock'[c] = "closed"}
<1>1. FeedGot' = FeedGot
  BY DEF FeedGot
<1>2. FeedStatus' = [c \in Conn |-> IF c \in S THEN "gone" ELSE FeedStatus[c]]
  BY DEF FeedStatus
<1>3. S \in SUBSET Conn
  OBVIOUS
<1> HIDE DEF S
<1>4. F!Leave(S)
  BY <1>1, <1>2 DEF F!Leave
<1>5. QED
  BY <1>3, <1>4 DEF F!Next

\* A step in which one open connection is, or becomes, subscribed and was
\* sent the current revision.
LEMMA FeedSend ==
    ASSUME UNCHANGED revision, NEW c \in Conn,
           \A d \in Conn : d # c => SameFeed(d),
           sock[c] # "closed", sock'[c] # "closed", subscribed'[c] = TRUE,
           last'[c].rev = revision
    PROVE  F!Next
<1>1. FeedGot' = [FeedGot EXCEPT ![c] = revision]
  BY DEF FeedGot, SameFeed
<1>2. CASE subscribed[c]
  <2>1. FeedStatus' = FeedStatus /\ FeedStatus[c] = "subscribed"
    BY <1>2 DEF FeedStatus, SameFeed
  <2>2. F!Deliver(c)
    BY <1>1, <2>1 DEF F!Deliver
  <2>3. QED
    BY <2>2 DEF F!Next
<1>3. CASE ~subscribed[c]
  <2>1. /\ FeedStatus' = [FeedStatus EXCEPT ![c] = "subscribed"]
        /\ FeedStatus[c] = "outside"
    BY <1>3 DEF FeedStatus, SameFeed
  <2>2. F!Subscribe(c)
    BY <1>1, <2>1 DEF F!Subscribe
  <2>3. QED
    BY <2>2 DEF F!Next
<1>4. QED
  BY <1>2, <1>3

\* A round over the polled clients is a subscription, a departure or a
\* stutter of the feed.
LEMMA FeedServe ==
    ASSUME Inv, TypeOK', ServeClient
    PROVE  F!Next
<1> USE DEF Inv
<1> DEFINE c == clients[index]
<1>1. /\ index \in 1..Len(clients)
      /\ c \in Conn
      /\ \A d \in Conn : d # c => SameFeed(d)
      /\ FeedEffect(index, c)
  BY ServeEffect
<1>2. UNCHANGED revision /\ tpc = "clients"
  BY DEF ServeClient, serviceVars
<1>3. /\ sock[c] = "open"
      /\ RemoveClient(index) => sock'[c] = "closed"
      /\ KeepClients => sock'[c] = "open"
  BY <1>1, SlotOpen
<1>4. subscribed[c] \/ last[c].rev = 0
  BY <1>1, <1>3 DEF Lifecycle
<1>5. \A f \in Format : snapshot[f] = revision
  BY <1>2 DEF Phases
<1>6. format'[c] \in Format
  BY <1>1 DEF TypeOK, ConnType
<1> HIDE DEF c
<1>7. CASE /\ RemoveClient(index)
           /\ \/ UNCHANGED <<subscribed, format, last>>
              \/ ~subscribed[c] /\ (~subscribed'[c] \/ last'[c] = last[c])
  <2>1. (IF subscribed'[c] THEN last'[c].rev ELSE 0)
          = (IF subscribed[c] THEN last[c].rev ELSE 0)
    BY <1>4, <1>7
  <2>2. ASSUME NEW d \in Conn
        PROVE  /\ sock[d] = "closed" => sock'[d] = "closed"
               /\ sock'[d] # "closed" => subscribed'[d] = subscribed[d]
               /\ (IF subscribed'[d] THEN last'[d].rev ELSE 0)
                    = (IF subscribed[d] THEN last[d].rev ELSE 0)
    BY <1>1, <1>3, <1>7, <2>1 DEF SameFeed
  <2>3. QED
    BY <1>2, <2>2, FeedLeave
<1>8. CASE /\ KeepClients
           /\ subscribed'[c] = TRUE
           /\ last'[c].rev = snapshot[format'[c]]
  BY <1>1, <1>2, <1>3, <1>5, <1>6, <1>8, FeedSend
<1>9. CASE KeepClients /\ UNCHANGED <<subscribed, format, last>>
  BY <1>2, <1>9, FeedLeave DEF KeepClients
<1>10. QED
  BY <1>1, <1>7, <1>8, <1>9, Zenon DEF FeedEffect

\* A round of broadcast_snapshot is a delivery, a departure or a stutter of
\* the feed.
LEMMA FeedBroadcast ==
    ASSUME Inv, BroadcastClient
    PROVE  F!Next
<1> USE DEF Inv
<1> DEFINE c == clients[index]
<1>1. /\ index \in 1..Len(clients)
      /\ c \in Conn
      /\ UNCHANGED <<subscribed, format>>
      /\ \A d \in Conn : d # c => SameFeed(d)
  BY BroadcastEffect
<1>2. UNCHANGED revision /\ tpc = "broadcast"
  BY DEF BroadcastClient, serviceVars
<1>3. /\ sock[c] = "open"
      /\ RemoveClient(index) => sock'[c] = "closed"
      /\ KeepClients => sock'[c] = "open"
  BY <1>1, SlotOpen
<1>4. snapshot[format[c]] = revision
  <2>1. format[c] \in Format
    BY <1>1 DEF TypeOK, ConnType
  <2>2. QED
    BY <1>2, <2>1 DEF Phases
<1>5. CASE KeepClients /\ UNCHANGED last
  BY <1>1, <1>2, <1>5, FeedLeave DEF KeepClients
<1>6. CASE /\ KeepClients
           /\ subscribed[c]
           /\ last'[c].rev = snapshot[format[c]]
  <2>1. subscribed'[c] = TRUE
    <3>1. subscribed[c] \in BOOLEAN
      BY <1>1 DEF TypeOK, ConnType
    <3>2. QED
      BY <1>1, <1>6, <3>1
  <2> HIDE DEF c
  <2>2. QED
    BY <1>1, <1>2, <1>3, <1>4, <1>6, <2>1, FeedSend
<1>7. CASE RemoveClient(index) /\ last'[c] = last[c]
  <2> HIDE DEF c
  <2>1. ASSUME NEW d \in Conn
        PROVE  /\ sock[d] = "closed" => sock'[d] = "closed"
               /\ sock'[d] # "closed" => subscribed'[d] = subscribed[d]
               /\ (IF subscribed'[d] THEN last'[d].rev ELSE 0)
                    = (IF subscribed[d] THEN last[d].rev ELSE 0)
    BY <1>1, <1>3, <1>7 DEF SameFeed
  <2>2. QED
    BY <1>2, <2>1, FeedLeave
<1>8. QED
  BY <1>5, <1>6, <1>7, BroadcastEffect, Zenon

\* Every step of the server is a step of the feed or a stutter.
LEMMA FeedStep ==
    ASSUME Inv, Inv', [Next]_vars
    PROVE  [F!Next]_(F!vars)
<1>1. CASE UNCHANGED <<revision, sock, subscribed, last>>
  BY <1>1 DEF F!vars, FeedStatus, FeedGot
<1>2. CASE PublishStore
  <2>1. revision' = revision + 1 /\ UNCHANGED <<sock, subscribed, last>>
    BY <1>2 DEF PublishStore, connVars
  <2>2. F!Publish
    BY <2>1 DEF F!Publish, FeedStatus, FeedGot
  <2>3. QED
    BY <2>2 DEF F!Next
<1>3. CASE StopJoin
  <2>1. UNCHANGED <<revision, subscribed, last>>
    BY <1>3 DEF StopJoin
  <2>2. \A c \in Conn : sock[c] = "closed" => sock'[c] = "closed"
    BY <1>3 DEF StopJoin
  <2>3. QED
    BY <2>1, <2>2, FeedLeave
<1>4. CASE ThreadExit
  <2>1. UNCHANGED <<revision, subscribed, last>>
    BY <1>4 DEF ThreadExit, serviceVars
  <2>2. \A c \in Conn : sock[c] = "closed" => sock'[c] = "closed"
    BY <1>4 DEF ThreadExit
  <2>3. QED
    BY <2>1, <2>2, FeedLeave
<1>5. CASE AcceptClients
  <2>1. UNCHANGED <<revision, subscribed, last>>
    BY <1>5 DEF AcceptClients, serviceVars
  <2>2. \A c \in Conn : sock[c] = "closed" => sock'[c] = "closed"
    <3>1. CASE pollfds.listener
      BY <1>5, <3>1 DEF AcceptClients
    <3>2. CASE ~pollfds.listener
      BY <1>5, <3>2, Zenon DEF AcceptClients
    <3>3. QED
      BY <3>1, <3>2
  <2>3. QED
    BY <2>1, <2>2, FeedLeave
<1>6. ASSUME NEW c \in Conn, ClientConnect(c)
      PROVE  [F!Next]_(F!vars)
  <2>1. UNCHANGED <<revision, subscribed, last>> /\ sock[c] = "none"
    BY <1>6 DEF ClientConnect, serviceVars, Inv, Lifecycle
  <2>2. \A d \in Conn : sock'[d] = IF d = c THEN "backlog" ELSE sock[d]
    BY <1>6 DEF ClientConnect, Inv, TypeOK, ConnType
  <2>3. QED
    BY <2>1, <2>2, FeedLeave
<1>7. CASE ServeClient \/ BroadcastClient
  BY <1>7, FeedServe, FeedBroadcast DEF Inv
<1>8. QED
  BY <1>1, <1>2, <1>3, <1>4, <1>5, <1>6, <1>7
     DEF Next, StateService, ControlThread, Client, Terminated, vars, connVars,
         serviceVars, Start, StartFails, PublishWake, StopRequest, StopWake,
         PopAction, LoopTop, Poll, PollError, DrainWakePipe, CheckStopping,
         BroadcastDone, ClientSend, ClientRead, ClientClose

\* The control server implements the feed: a subscriber is sent the revision
\* current when its line is written, from the moment it subscribes, and
\* nothing else, whatever the threads, the clients and full sockets do.
THEOREM ServerImplementsFeed == Spec => ImplementsFeed
<1>1. Init => F!Init
  BY DEF Init, F!Init, FeedStatus, FeedGot
<1>2. Inv /\ Inv' /\ [Next]_vars => [F!Next]_(F!vars)
  BY FeedStep
<1>3. QED
  BY <1>1, <1>2, Invariance, PTL DEF Spec, ImplementsFeed, F!Spec
=============================================================================
