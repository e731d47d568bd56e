------------------------------- MODULE Mpris --------------------------------
(***************************************************************************)
(* The MPRIS source: the service (src/service/mpris.lua) and its bus       *)
(* connection (src/mpris.c), against players that come, go and change      *)
(* while they are being read.                                              *)
(*                                                                         *)
(* A snapshot is a ListNames call and, for every player in the answer, the *)
(* reads of its properties; every call is synchronous and leaves arriving  *)
(* signals in the queue of the connection, which only a wait empties.  A   *)
(* player is its place in the order of bus names, its metadata a song.     *)
(* The identity that is shown stands for the bus name: where it cannot be  *)
(* read the code takes the name.                                           *)
(*                                                                         *)
(* The bus and the players are external: a player announces a change of a  *)
(* property it has answered for, the bus announces names, both after the   *)
(* change, and every call may fail.                                        *)
(***************************************************************************)
EXTENDS Integers, FiniteSets

CONSTANTS
    Player,       \* bus names, as numbers in their order
    Media,        \* states of a player
    Absent,       \* no such name on the bus
    NoSong,       \* empty metadata
    Config,       \* pairs of reconnect_min_ms and reconnect_max_ms
    MaxChanges,   \* bound: changes of players
    MaxFaults     \* bound: failing calls and ends of the bus

Status == {"Playing", "Paused", "Stopped"}
Capability == {"CanControl", "CanGoNext", "CanGoPrevious", "CanPause", "CanPlay"}
Action == {"next", "pause", "play", "play-pause", "previous"}
ASSUME PlayerAssumption == Player \subseteq Nat \ {0} /\ IsFiniteSet(Player)
ASSUME MediaAssumption ==
    /\ Absent \notin Media
    /\ \A m \in Media : m.status \in Status /\ m.can \subseteq Capability
ASSUME ConfigAssumption ==
    Config \subseteq {c \in [min : Nat \ {0}, max : Nat] : c.min <= c.max}
ASSUME BoundAssumption == MaxChanges \in Nat /\ MaxFaults \in Nat

VARIABLES
    \* the bus
    bus, world,
    \* struct mpris_source: the queue of its connection, whether it is open
    \* A signal is by what the handlers tell apart "player name", "player
    \* property" or "other".
    open, queue, dirty, selected_name, can,
    \* the service
    pc,             \* "idle": at the head of the idle handler or, with a
                    \* source, in its wait; "list", "status", "metadata",
                    \* "capabilities": in a snapshot; "closing";
                    \* "backoff"
    connecting,     \* the snapshot is connect's
    closing,        \* the wait saw the end of the bus, too
    names,          \* names of the answer that are still to be read
    candidate, selected,
    reconnect_ms, source_config,
    published,      \* the domain with every patch sent to state merged
    \* history: whether a call of the last snapshot failed without the bus or
    \* the player being gone, and whether that call was ListNames
    blind, listFailed,
    changes, faults

busVars == <<bus, world>>
sourceVars == <<open, queue, dirty, selected_name, can>>
scanVars == <<connecting, closing, names, candidate, selected>>
backoffVars == <<reconnect_ms, source_config>>
history == <<blind, listFailed>>
counters == <<changes, faults>>
vars == <<busVars, sourceVars, pc, scanVars, backoffVars, published, history, counters>>

\* No player: bus_name is NULL.
Nobody == [name |-> 0, status |-> "Stopped", song |-> NoSong, can |-> {}]
Shown(p, connected, actions) ==
    [connected |-> connected, player |-> p.name, status |-> p.status,
     song |-> p.song, actions |-> actions]
Unavailable(connected) == Shown(Nobody, connected, {})

Init ==
    /\ bus \in BOOLEAN
    /\ world \in [Player -> Media \cup {Absent}]
    /\ open = FALSE /\ queue = {} /\ dirty = FALSE
    /\ selected_name = 0 /\ can = {}
    /\ pc = "idle"
    /\ connecting = FALSE /\ closing = FALSE
    /\ names = {} /\ candidate = Nobody /\ selected = Nobody
    /\ source_config \in Config /\ reconnect_ms = source_config.min
    /\ published = Unavailable(FALSE)
    /\ blind = FALSE /\ listFailed = FALSE
    /\ changes = 0 /\ faults = 0

Fault == faults < MaxFaults /\ faults' = faults + 1 /\ UNCHANGED changes
Present(p) == world[p] # Absent

-----------------------------------------------------------------------------
(* Signals, capabilities and preference.                                   *)

RelevantMutant(signal) == signal = "player name"

\* name_owner_changed; properties_changed with is_relevant_property, which
\* takes a message that it cannot read for relevant.
Relevant(signal) == signal \in {"player name", "player property"}

\* process_bus: the handlers of everything in the queue.
Processed == dirty \/ \E signal \in queue : Relevant(signal)

\* The capabilities of lsource_snapshot, and action_available.
ShownActions(c) ==
    IF "CanControl" \notin c THEN {}
    ELSE {a \in Action :
            \/ a = "next" /\ "CanGoNext" \in c
            \/ a = "pause" /\ "CanPause" \in c
            \/ a = "play" /\ "CanPlay" \in c
            \/ a = "play-pause" /\ ("CanPause" \in c \/ "CanPlay" \in c)
            \/ a = "previous" /\ "CanGoPrevious" \in c}

NeededMutant(action) ==
    CASE action = "next" -> {"CanGoNext"}
      [] action = "pause" -> {"CanPause"}
      [] action = "play" -> {"CanPlay"}
      [] action = "play-pause" -> {"CanPause"}
      [] action = "previous" -> {"CanGoPrevious"}

Needed(action) ==
    CASE action = "next" -> {"CanGoNext"}
      [] action = "pause" -> {"CanPause"}
      [] action = "play" -> {"CanPlay"}
      [] action = "play-pause" -> {"CanPause", "CanPlay"}
      [] action = "previous" -> {"CanGoPrevious"}
ActionAvailable(action) == "CanControl" \in can /\ Needed(action) \cap can # {}

Rank(p) == [Playing |-> 2, Paused |-> 1, Stopped |-> 0][p.status]

PreferPlayerMutant(new, old) ==
    \/ old.name = 0
    \/ Rank(new) > Rank(old)
    \/ new.name < old.name

PreferPlayer(new, old) ==
    \/ old.name = 0
    \/ Rank(new) > Rank(old)
    \/ Rank(new) = Rank(old) /\ new.name < old.name

-----------------------------------------------------------------------------
(* The service.                                                            *)

\* disconnect: close_source, and unavailable() is published.
Disconnect ==
    /\ open' = FALSE /\ queue' = {} /\ dirty' = FALSE
    /\ selected_name' = 0 /\ can' = {}
    /\ published' = Unavailable(FALSE)
    /\ blind' = FALSE /\ listFailed' = FALSE

\* lopen subscribes to the signals and marks the source dirty; connect goes on
\* with a snapshot.
Open ==
    /\ pc = "idle" /\ ~open
    /\ bus
    /\ open' = TRUE /\ queue' = {} /\ dirty' = TRUE
    /\ pc' = "list" /\ connecting' = TRUE
    /\ UNCHANGED <<busVars, selected_name, can, closing, names, candidate, selected,
                   backoffVars, published, history, counters>>

OpenFails ==
    /\ pc = "idle" /\ ~open
    /\ (~bus /\ UNCHANGED counters) \/ Fault
    /\ Disconnect
    /\ pc' = "backoff"
    /\ UNCHANGED <<busVars, scanVars, backoffVars>>

\* The end of the handler that took the snapshot: connect resets the backoff
\* and goes on to the wait; a wait that saw the end of the bus disconnects.
SnapshotDone(snapshot) ==
    /\ reconnect_ms' = IF connecting THEN source_config.min ELSE reconnect_ms
    /\ connecting' = FALSE
    /\ pc' = IF closing THEN "closing" ELSE "idle"
    /\ published' = snapshot
    /\ UNCHANGED <<busVars, closing, source_config>>

ListNames ==
    /\ pc = "list"
    /\ bus
    /\ names' = {p \in Player : Present(p)}
    /\ selected' = Nobody
    /\ blind' = FALSE /\ listFailed' = FALSE
    /\ pc' = "status"
    /\ UNCHANGED <<busVars, sourceVars, connecting, closing, candidate, backoffVars,
                   published, counters>>

\* select_player fails: unavailable, but what the source remembers stays.
ListNamesFails ==
    /\ pc = "list"
    /\ (~bus /\ UNCHANGED counters) \/ Fault
    /\ SnapshotDone(Unavailable(TRUE))
    /\ blind' = TRUE /\ listFailed' = TRUE
    /\ UNCHANGED <<sourceVars, names, candidate, selected>>

\* A call to the player q: it answers, it or the bus is gone, or it fails.
Answers(q) == bus /\ Present(q) /\ UNCHANGED <<blind, counters>>
Refuses(q) ==
    \/ ~(bus /\ Present(q)) /\ UNCHANGED <<blind, counters>>
    \/ bus /\ Present(q) /\ Fault /\ blind' = TRUE

\* read_player: without a PlaybackStatus the name is passed over.
ReadStatus ==
    /\ pc = "status"
    /\ \E q \in names :
         /\ names' = names \ {q}
         /\ \/ /\ Answers(q)
               /\ candidate' = [Nobody EXCEPT !.name = q, !.status = world[q].status]
               /\ pc' = "metadata"
            \/ /\ Refuses(q)
               /\ UNCHANGED <<candidate, pc>>
    /\ UNCHANGED <<busVars, sourceVars, connecting, closing, selected, backoffVars,
                   published, listFailed>>

ReadMetadata ==
    /\ pc = "metadata"
    /\ \/ /\ Answers(candidate.name)
          /\ candidate' = [candidate EXCEPT !.song = world[candidate.name].song]
       \/ Refuses(candidate.name) /\ UNCHANGED candidate
    /\ pc' = "capabilities"
    /\ UNCHANGED <<busVars, sourceVars, connecting, closing, names, selected,
                   backoffVars, published, listFailed>>

\* The capabilities, a failed read being no capability; then prefer_player.
\* The five reads are one step: some or all of them may fail.
ReadCapabilities ==
    /\ pc = "capabilities"
    /\ \E c \in SUBSET Capability :
         /\ \/ Answers(candidate.name) /\ c = world[candidate.name].can
            \/ /\ Refuses(candidate.name)
               /\ c \subseteq IF Present(candidate.name)
                              THEN world[candidate.name].can ELSE {}
         /\ selected' = IF PreferPlayer(candidate, selected)
                        THEN [candidate EXCEPT !.can = c] ELSE selected
    /\ candidate' = Nobody
    /\ pc' = "status"
    /\ UNCHANGED <<busVars, sourceVars, connecting, closing, names, backoffVars,
                   published, listFailed>>

\* The rest of lsource_snapshot.
Publish ==
    /\ pc = "status"
    /\ names = {}
    /\ selected_name' = selected.name /\ can' = selected.can
    /\ SnapshotDone(Shown(selected, TRUE, ShownActions(selected.can)))
    /\ selected' = Nobody
    /\ UNCHANGED <<open, queue, dirty, names, candidate, history, counters>>

WaitMutant ==
    /\ pc = "idle" /\ open
    /\ bus
    /\ Processed
    /\ queue' = {}
    /\ dirty' = FALSE
    /\ pc' = "idle"
    /\ UNCHANGED <<busVars, open, selected_name, can, scanVars, backoffVars, published,
                   history, counters>>

\* lsource_wait: process what is there, poll, process again.  A change is
\* followed by a snapshot.
Wait ==
    /\ pc = "idle" /\ open
    /\ queue' = {} /\ dirty' = FALSE
    /\ \/ bus /\ Processed /\ pc' = "list" /\ UNCHANGED closing
       \/ bus /\ ~Processed /\ queue # {} /\ UNCHANGED <<pc, closing>>
       \/ ~bus /\ Processed /\ pc' = "list" /\ closing' = TRUE
    /\ UNCHANGED <<busVars, open, selected_name, can, connecting, names, candidate,
                   selected, backoffVars, published, history, counters>>

\* The end of the bus: sd_bus_process fails, or after the last snapshot.
BusCloses ==
    /\ \/ pc = "idle" /\ open /\ ~bus
       \/ pc = "closing"
    /\ Disconnect
    /\ pc' = "idle" /\ closing' = FALSE
    /\ UNCHANGED <<busVars, connecting, names, candidate, selected, backoffVars, counters>>

Smaller(a, b) == IF a <= b THEN a ELSE b
Larger(a, b) == IF a >= b THEN a ELSE b

\* wait_wakeup times out; or it fails or is woken by a message.
BackoffEnds ==
    /\ pc = "backoff"
    /\ pc' = "idle"
    /\ reconnect_ms' = Smaller(source_config.max, reconnect_ms * 2)
    /\ UNCHANGED <<busVars, sourceVars, scanVars, source_config, published, history, counters>>

BackoffWoken ==
    /\ pc = "backoff"
    /\ pc' = "idle"
    /\ UNCHANGED <<busVars, sourceVars, scanVars, backoffVars, published, history, counters>>

Reload ==
    /\ pc \in {"idle", "backoff"}
    /\ source_config' \in Config
    /\ reconnect_ms' = Larger(source_config'.min, Smaller(source_config'.max, reconnect_ms))
    /\ pc' = "idle"
    /\ UNCHANGED <<busVars, sourceVars, scanVars, published, history, counters>>

-----------------------------------------------------------------------------
(* The bus and the players.                                                *)

Send(signal) == queue' = IF open THEN queue \cup {signal} ELSE queue

\* A player comes, goes or changes.
Change(q, m) ==
    /\ bus
    /\ m # world[q]
    /\ changes < MaxChanges /\ changes' = changes + 1 /\ UNCHANGED faults
    /\ world' = [world EXCEPT ![q] = m]
    /\ Send(IF Present(q) /\ m # Absent THEN "player property" ELSE "player name")
    /\ UNCHANGED <<bus, open, dirty, selected_name, can, pc, scanVars, backoffVars,
                   published, history>>

Accepted(action) == open /\ selected_name # 0 /\ ActionAvailable(action)

\* S.dispatch: the method is called and the player does as it likes.  An
\* action that is not accepted, or that no one answers, changes nothing.
Dispatch(action) ==
    /\ pc = "idle"
    /\ Accepted(action)
    /\ Present(selected_name)
    /\ \E m \in Media : Change(selected_name, m)

\* Names and properties of no interest.
Chatter ==
    /\ bus
    /\ Send("other")
    /\ UNCHANGED <<busVars, open, dirty, selected_name, can, pc, scanVars, backoffVars,
                   published, history, counters>>

BusEnds ==
    /\ bus
    /\ Fault
    /\ bus' = FALSE
    /\ world' = [q \in Player |-> Absent]
    /\ UNCHANGED <<sourceVars, pc, scanVars, backoffVars, published, history>>

\* A new bus, once this connection to the last one is closed.
BusStarts ==
    /\ ~bus /\ ~open
    /\ bus' = TRUE
    /\ UNCHANGED <<world, sourceVars, pc, scanVars, backoffVars, published, history, counters>>

Service == Open \/ OpenFails \/ ListNames \/ ListNamesFails \/ ReadStatus
             \/ ReadMetadata \/ ReadCapabilities \/ Publish \/ Wait \/ BusCloses
             \/ BackoffEnds

Next ==
    \/ Service \/ BackoffWoken \/ Reload
    \/ (\E q \in Player, m \in Media \cup {Absent} : Change(q, m))
    \/ (\E a \in Action : Dispatch(a)) \/ Chatter \/ BusEnds \/ BusStarts

Spec == Init /\ [][Next]_vars

\* The service runs while it has something to do.  Nothing is assumed of the
\* bus, of players, reloads and dispatches.
FairSpec == Spec /\ WF_vars(Service)

-----------------------------------------------------------------------------
(* Properties.                                                             *)

\* README, "Configure and run": "selection is deterministic: playing first, paused
\* second, then bus name".
Best ==
    LET here == {q \in Player : Present(q)} IN
    IF ~bus \/ here = {} THEN Unavailable(bus)
    ELSE LET q == CHOOSE q \in here : \A r \in here \ {q} :
                    \/ Rank(world[q]) > Rank(world[r])
                    \/ Rank(world[q]) = Rank(world[r]) /\ q < r
         IN Shown([name |-> q, status |-> world[q].status, song |-> world[q].song],
                  TRUE, ShownActions(world[q].can))

\* No change is missed: while the service waits, what is shown differs from
\* the best player's state only if a signal that makes it look again is there.
\* This covers players that come, go or change between ListNames and the reads
\* of their properties, and any order of the names.
NoChangeMissed ==
    (pc = "idle" /\ open /\ bus /\ ~blind /\ published # Best) => Processed

\* README, "Configure and run": "Unsupported actions are rejected before a D-Bus
\* method is called".  While the service is ready for an action it accepts the
\* ones that are shown as capabilities, for the player that is shown, and no
\* others, unless the last ListNames failed.
AcceptedAsShown ==
    pc = "idle" /\ ~listFailed =>
      /\ \A a \in Action : Accepted(a) <=> a \in published.actions
      /\ selected_name = published.player

\* Once the bus and the players stay as they are, the best player is shown for
\* good, or nothing without one; only a failed call can leave it otherwise.
EventuallyCurrent == <>[](published = Best \/ (bus /\ blind))
=============================================================================
