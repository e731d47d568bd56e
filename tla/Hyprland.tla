------------------------------ MODULE Hyprland ------------------------------
(***************************************************************************)
(* The Hyprland source (src/service/hyprland.lua, src/lualib/hyprland.lua) *)
(* and its sockets (src/ipc.c), against a compositor that changes, speaks  *)
(* on its event socket, crashes and restarts.                              *)
(*                                                                         *)
(* A snapshot is put together from three requests; the compositor goes on  *)
(* between them.  Each part of the compositor's state is its version.  The *)
(* event stream is cut into pieces: the head of a line, more of it and its *)
(* end; a chunk is any number of pieces.                                   *)
(*                                                                         *)
(* The compositor is external: it announces every change of what it        *)
(* answers with a line whose name is in relevant_events, after the change, *)
(* on the connections it has, and it answers a request or closes it.       *)
(***************************************************************************)
EXTENDS Integers, Sequences

CONSTANTS
    Config,       \* pairs of reconnect_min_ms and reconnect_max_ms
    MaxBuffer,    \* pieces the event buffer may hold (1 MiB)
    MaxChunk,     \* pieces one recv() returns at most
    MaxPipe,      \* bound: pieces on the way
    MaxVersion,   \* bound: changes of each part
    MaxFaults     \* bound: crashes, refused requests and overlong lines

Bounds == [min : Nat \ {0}, max : Nat]
ASSUME ConfigAssumption == Config \subseteq {c \in Bounds : c.min <= c.max}
ASSUME SizeAssumption ==
    /\ MaxBuffer \in Nat \ {0} /\ MaxChunk \in Nat \ {0} /\ MaxPipe \in Nat
    /\ MaxVersion \in Nat /\ MaxFaults \in Nat

\* The requests of resync, in its order.
Request == <<"monitors", "workspaces", "activewindow">>
Part == {"monitors", "workspaces", "activewindow"}

Piece == {"relevant", "irrelevant", "more", "eol"}
Announcement == <<"relevant", "eol">>
ShortLine == <<"irrelevant", "eol">>
LongLine  == <<"irrelevant", "more", "more", "eol">>

Unavailable == [p \in Part |-> -1]

VARIABLES
    \* the compositor
    up, world, faults,
    \* the event connection: what is on the way, whether the peer closed it
    pipe, hangup,
    \* the service
    pc,             \* "idle": at the head of the idle handler or, with an
                    \* event_stream, in its wait; "resync"; "backoff"
    connecting,     \* resync was called by connect, not by consume
    fetched,        \* answers of the resync under way
    event_stream, event_buffer, reconnect_ms, source_config,
    published       \* the domain with every patch sent to state merged

compositorVars == <<up, world, faults>>
linkVars == <<pipe, hangup>>
serviceVars == <<pc, connecting, fetched, event_stream, event_buffer,
                 reconnect_ms, source_config, published>>
vars == <<compositorVars, linkVars, serviceVars>>

Init ==
    /\ up \in BOOLEAN
    /\ world = [p \in Part |-> 0]
    /\ faults = 0
    /\ pipe = <<>>
    /\ hangup = FALSE
    /\ pc = "idle"
    /\ connecting = FALSE
    /\ fetched = <<>>
    /\ event_stream = FALSE
    /\ event_buffer = <<>>
    /\ source_config \in Config
    /\ reconnect_ms = source_config.min
    /\ published = Unavailable

-----------------------------------------------------------------------------
(* The service.                                                            *)

Smaller(a, b) == IF a <= b THEN a ELSE b
Larger(a, b) == IF a >= b THEN a ELSE b

DisconnectMutant ==
    /\ event_stream' = FALSE
    /\ event_buffer' = <<>>
    /\ pipe' = <<>> /\ hangup' = FALSE
    /\ UNCHANGED published

\* disconnect: close the stream, forget half a line, publish unavailable.
Disconnect ==
    /\ event_stream' = FALSE
    /\ event_buffer' = <<>>
    /\ pipe' = <<>> /\ hangup' = FALSE
    /\ published' = Unavailable

BeginResync(fromConnect) ==
    /\ pc' = "resync"
    /\ connecting' = fromConnect
    /\ fetched' = <<>>

\* connect() without a compositor.
ConnectFails ==
    /\ pc = "idle" /\ ~event_stream
    /\ ~up
    /\ Disconnect
    /\ pc' = "backoff"
    /\ UNCHANGED <<compositorVars, connecting, fetched, reconnect_ms, source_config>>

\* connect() opens the stream first and asks for the snapshot then.
Connect ==
    /\ pc = "idle" /\ ~event_stream
    /\ up
    /\ event_stream' = TRUE
    /\ pipe' = <<>> /\ hangup' = FALSE
    /\ BeginResync(TRUE)
    /\ UNCHANGED <<compositorVars, event_buffer, reconnect_ms, source_config, published>>

\* The snapshot of three answers.
Snapshot(answers) ==
    [monitors |-> answers[1], workspaces |-> answers[2], activewindow |-> answers[3]]

\* decode_response of the next request; the last one publishes.
Fetch ==
    /\ pc = "resync"
    /\ up
    /\ LET answers == Append(fetched, world[Request[Len(fetched) + 1]]) IN
         IF Len(answers) < 3
         THEN /\ fetched' = answers
              /\ UNCHANGED <<pc, connecting, reconnect_ms, published>>
         ELSE /\ fetched' = <<>>
              /\ published' = Snapshot(answers)
              /\ reconnect_ms' = IF connecting THEN source_config.min ELSE reconnect_ms
              /\ connecting' = FALSE
              /\ pc' = "idle"
    /\ UNCHANGED <<compositorVars, linkVars, event_stream, event_buffer, source_config>>

\* A request fails: the compositor is gone, or what it says is no JSON.  (A
\* response beyond IPC_MAX_RESPONSE_SIZE raises an error instead, out of the
\* idle handler; what becomes of it is decided by ltask and not modelled.)
FetchFails ==
    /\ pc = "resync"
    /\ \/ ~up /\ UNCHANGED faults
       \/ faults < MaxFaults /\ faults' = faults + 1
    /\ Disconnect
    /\ pc' = IF connecting THEN "backoff" ELSE "idle"
    /\ connecting' = FALSE
    /\ fetched' = <<>>
    /\ UNCHANGED <<up, world, reconnect_ms, source_config>>

\* consume_events: e is the last end of line, or 0; what follows it is kept;
\* a line with a relevant name is complete.
LastEnd(text, e) ==
    /\ e # 0 => text[e] = "eol"
    /\ \A j \in (e + 1)..Len(text) : text[j] # "eol"
RemainderMutant(text, e) == <<>>
Remainder(text, e) == SubSeq(text, e + 1, Len(text))
Relevant(text) ==
    \E i, j \in 1..Len(text) : i < j /\ text[i] = "relevant" /\ text[j] = "eol"

\* The stream has data: one recv() of at most a chunk, then consume.
Consume ==
    /\ pc = "idle" /\ event_stream
    /\ \E n \in 1..Smaller(MaxChunk, Len(pipe)) :
         LET text == event_buffer \o SubSeq(pipe, 1, n) IN
         IF Len(text) > MaxBuffer
         THEN /\ Disconnect
              /\ UNCHANGED <<pc, connecting, fetched>>
         ELSE /\ pipe' = SubSeq(pipe, n + 1, Len(pipe))
              /\ \E e \in 0..Len(text) :
                   LastEnd(text, e) /\ event_buffer' = Remainder(text, e)
              /\ IF Relevant(text) THEN BeginResync(FALSE)
                 ELSE UNCHANGED <<pc, connecting, fetched>>
              /\ UNCHANGED <<hangup, event_stream, published>>
    /\ UNCHANGED <<compositorVars, reconnect_ms, source_config>>

\* The end of the stream, or a reset that discards what was on the way.
StreamCloses ==
    /\ pc = "idle" /\ event_stream
    /\ hangup
    /\ Disconnect
    /\ UNCHANGED <<compositorVars, pc, connecting, fetched, reconnect_ms, source_config>>

Doubled == Smaller(source_config.max, reconnect_ms * 2)

\* wait_wakeup times out.
BackoffTimeout ==
    /\ pc = "backoff"
    /\ reconnect_ms' = Doubled
    /\ pc' = "idle"
    /\ UNCHANGED <<compositorVars, linkVars, connecting, fetched, event_stream,
                   event_buffer, source_config, published>>

\* wait_wakeup fails, or a message wakes the service that it refuses.
BackoffWoken ==
    /\ pc = "backoff"
    /\ pc' = "idle"
    /\ UNCHANGED <<compositorVars, linkVars, connecting, fetched, event_stream,
                   event_buffer, reconnect_ms, source_config, published>>

ClampedMutant(new) == Larger(new.min, reconnect_ms)
Clamped(new) == Larger(new.min, Smaller(new.max, reconnect_ms))

\* S.reload; the service is back at the head of its idle handler.
Reload ==
    /\ pc \in {"idle", "backoff"}
    /\ source_config' \in Config
    /\ reconnect_ms' = Clamped(source_config')
    /\ pc' = "idle"
    /\ UNCHANGED <<compositorVars, linkVars, connecting, fetched, event_stream,
                   event_buffer, published>>

-----------------------------------------------------------------------------
(* The compositor.                                                         *)

\* A part changes and the change is announced.
Changed(p) ==
    /\ up
    /\ world[p] < MaxVersion
    /\ world' = [world EXCEPT ![p] = @ + 1]
    /\ IF event_stream /\ ~hangup
       THEN /\ Len(pipe) + 2 <= MaxPipe
            /\ pipe' = pipe \o Announcement
       ELSE UNCHANGED pipe
    /\ UNCHANGED <<up, faults, hangup>>

Change(p) == Changed(p) /\ UNCHANGED serviceVars

\* S.dispatch "switch": the compositor switches before it answers.
Dispatch ==
    /\ pc \in {"idle", "backoff"}
    /\ pc' = "idle"
    /\ Changed("monitors")
    /\ UNCHANGED <<connecting, fetched, event_stream, event_buffer,
                   reconnect_ms, source_config, published>>

\* Lines that are not relevant, short ones or one that is too long.
Chatter ==
    /\ event_stream /\ ~hangup
    /\ \/ /\ Len(pipe) + 2 <= MaxPipe
          /\ pipe' = pipe \o ShortLine
          /\ UNCHANGED faults
       \/ /\ Len(pipe) + 4 <= MaxPipe
          /\ pipe' = pipe \o LongLine
          /\ faults < MaxFaults /\ faults' = faults + 1
    /\ UNCHANGED <<up, world, hangup, serviceVars>>

\* The compositor ends; what it wrote before can still be read.
Crash ==
    /\ up
    /\ faults < MaxFaults
    /\ faults' = faults + 1
    /\ up' = FALSE
    /\ hangup' = event_stream
    /\ UNCHANGED <<world, pipe, serviceVars>>

\* A new one begins, in whatever state.
Restart ==
    /\ ~up
    /\ up' = TRUE
    /\ world' \in [Part -> 0..MaxVersion]
    /\ UNCHANGED <<faults, linkVars, serviceVars>>

Service == Connect \/ ConnectFails \/ Fetch \/ FetchFails \/ Consume
             \/ StreamCloses \/ BackoffTimeout

Next ==
    \/ Service \/ BackoffWoken \/ Reload \/ Dispatch
    \/ (\E p \in Part : Change(p)) \/ Chatter \/ Crash \/ Restart

Spec == Init /\ [][Next]_vars

\* The service runs while it has something to do.  Nothing is assumed of the
\* compositor, of reloads and of dispatches.
FairSpec == Spec /\ WF_vars(Service)

-----------------------------------------------------------------------------
(* Properties.                                                             *)

MaxMs == CHOOSE m \in {c.max : c \in Config} : \A c \in Config : c.max <= m

\* Type correctness; the backoff never leaves the largest configured range.
TypeOK ==
    /\ up \in BOOLEAN /\ hangup \in BOOLEAN
    /\ world \in [Part -> 0..MaxVersion]
    /\ faults \in 0..MaxFaults
    /\ pipe \in Seq(Piece) /\ Len(pipe) <= MaxPipe
    /\ pc \in {"idle", "resync", "backoff"}
    /\ connecting \in BOOLEAN
    /\ fetched \in Seq(0..MaxVersion) /\ Len(fetched) < 3
    /\ event_stream \in BOOLEAN
    /\ event_buffer \in Seq(Piece) /\ Len(event_buffer) <= MaxBuffer
    /\ reconnect_ms \in 1..MaxMs
    /\ source_config \in Config
    /\ published \in [Part -> -1..MaxVersion]

\* A relevant line is still to be read, or the stream is about to end.
Announced ==
    \/ hangup
    \/ \E i \in 1..Len(event_buffer) : event_buffer[i] = "relevant"
    \/ \E i \in 1..Len(pipe) : pipe[i] = "relevant"

\* No change is missed: while the stream is open and the service waits, what
\* is published differs from the compositor's state only if an event that
\* makes the service ask again is on its way.  This covers a change between
\* connect and the first request, one between two requests of a resync, and
\* a line cut anywhere.
NoChangeMissed ==
    /\ (event_stream /\ pc = "idle" /\ published # world) => Announced
    /\ pc = "resync" =>
         \A i \in 1..Len(fetched) : fetched[i] # world[Request[i]] => Announced

\* README, "State and Eww data flow": "An unavailable local event source
\* explicitly publishes available=false and clears stale state".  Without a
\* stream nothing is shown; with one, once it is synchronised, all parts are.
AvailabilityShown ==
    /\ ~event_stream => published = Unavailable
    /\ (event_stream /\ pc = "idle") => \A p \in Part : published[p] # -1

\* README, "Configure and run": "exponential reconnect backoff from 100 ms to
\* 5 s".  The delay stays within the configured range across reloads that
\* move it.
BackoffInRange == source_config.min <= reconnect_ms /\ reconnect_ms <= source_config.max

\* Once the compositor stays as it is, up or down, the published state
\* becomes its state and stays it.
EventuallyCurrent == <>[](published = IF up THEN world ELSE Unavailable)
=============================================================================
