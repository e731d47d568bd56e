------------------------------- MODULE Audio --------------------------------
(***************************************************************************)
(* The audio source: the service (src/service/audio.lua) and the callbacks *)
(* of libpulse's own thread (src/audio.c), which share struct audio_source *)
(* under the mainloop lock and a notification pipe outside of it.          *)
(*                                                                         *)
(* A callback, and a region of the service under the lock, is one step.    *)
(* `dirty' is left out: nothing reads it.  A message in `error' is TRUE, a *)
(* nonempty pipe is `notified'.                                            *)
(*                                                                         *)
(* The audio server is external.  It answers requests in their order on    *)
(* the stream that also carries the events, announces what changed after   *)
(* the change, may merge announcements, and may end.                       *)
(***************************************************************************)
EXTENDS Integers, Sequences

CONSTANTS
    Sink, NoSink,
    Percent,      \* the volumes asked for by set-volume
    Norm,         \* PA_VOLUME_NORM
    Config,       \* pairs of reconnect_min_ms and reconnect_max_ms
    MaxChanges,   \* bound: changes made by others
    MaxActions,   \* bound: dispatched actions
    MaxFaults     \* bound: crashes, failed opens and refused subscriptions

ASSUME SinkAssumption == NoSink \notin Sink
ASSUME VolumeAssumption == Percent \subseteq 0..100 /\ Norm \in Nat /\ Norm >= 200
ASSUME ConfigAssumption ==
    Config \subseteq {c \in [min : Nat \ {0}, max : Nat] : c.min <= c.max}
ASSUME BoundAssumption == MaxChanges \in Nat /\ MaxActions \in Nat /\ MaxFaults \in Nat

\* lsource_dispatch and lsource_snapshot convert between percent and the
\* library's scale; the average of equal channels is their volume.
RawVolume(percent) == (percent * Norm) \div 100
ShownVolumeMutant(volume) == (volume * 100) \div Norm
ShownVolume(volume) == (volume * 100 + Norm \div 2) \div Norm

VARIABLES
    \* the audio server: the sinks it has, their settings, and this client's
    \* subscription with the facilities it is still to hear of
    alive, sinks, default, setting, subscribed, news,
    \* the connection
    requests, replies,
    \* struct audio_source and its pipe
    source,
    \* the service
    pc,             \* "idle": at the head of the idle handler or, with a
                    \* source, in its wait; "opening": in lopen; "opened";
                    \* "drained", "flagged", "ending": after the wait;
                    \* "backoff"
    changed, ended, \* what the wait returned
    reconnect_ms, source_config,
    published,      \* the domain with every patch sent to state merged
    changes, actions, faults

serverVars == <<alive, sinks, default, setting, subscribed, news>>
linkVars == <<requests, replies>>
serviceVars == <<pc, changed, ended, reconnect_ms, source_config, published>>
counters == <<changes, actions, faults>>
vars == <<serverVars, linkVars, source, serviceVars, counters>>

\* No source, and what close_source leaves.
NoSource == [context |-> "none", connected |-> FALSE, error |-> FALSE,
             sink |-> NoSink, available |-> FALSE, muted |-> FALSE,
             volume |-> 0, notified |-> FALSE]
Unavailable(message) ==
    [available |-> FALSE, connected |-> FALSE, error |-> message,
     muted |-> FALSE, sink |-> NoSink, volume |-> 0]

Init ==
    /\ alive \in BOOLEAN
    /\ sinks \in SUBSET Sink
    /\ default \in IF sinks = {} THEN {NoSink} ELSE sinks
    /\ setting \in [Sink -> [muted : BOOLEAN, volume : {0}]]
    /\ subscribed = FALSE /\ news = {}
    /\ requests = <<>> /\ replies = <<>>
    /\ source = NoSource
    /\ pc = "idle" /\ changed = FALSE /\ ended = FALSE
    /\ source_config \in Config /\ reconnect_ms = source_config.min
    /\ published = Unavailable(FALSE)
    /\ changes = 0 /\ actions = 0 /\ faults = 0

Fault == faults < MaxFaults /\ faults' = faults + 1 /\ UNCHANGED <<changes, actions>>

-----------------------------------------------------------------------------
(* The callbacks.                                                          *)

ResetSnapshot(s) == [s EXCEPT !.available = FALSE, !.muted = FALSE,
                              !.sink = NoSink, !.volume = 0]
Notify(s) == [s EXCEPT !.notified = TRUE]
SetError(s) == [s EXCEPT !.error = TRUE]
Lost(s) == Notify(SetError(ResetSnapshot(s)))

\* A pa_context_get_...() call; the library returns no operation unless its
\* context is ready.
Ask(s, request) ==
    IF s.context = "ready" THEN source' = s /\ requests' = Append(requests, request)
    ELSE source' = Lost(s) /\ UNCHANGED requests

RequestServerInfo(s) == Ask(s, [op |-> "server"])

RequestSinkInfo(s) ==
    IF s.sink = NoSink THEN source' = Lost(s) /\ UNCHANGED requests
    ELSE Ask(s, [op |-> "sink", sink |-> s.sink])

\* A server without a default sink answers with no name or an empty one.
ServerInfo(name) == RequestSinkInfo([source EXCEPT !.sink = name])

SinkInfoMutant(reply) ==
    /\ source' = [source EXCEPT !.sink = reply.sink, !.muted = reply.muted,
                    !.volume = reply.volume, !.available = TRUE, !.error = FALSE]
    /\ UNCHANGED requests

SinkInfo(reply) ==
    /\ source' =
         IF ~reply.found THEN Lost(source)
         ELSE Notify([source EXCEPT !.sink = reply.sink, !.muted = reply.muted,
                        !.volume = reply.volume, !.available = TRUE,
                        !.error = FALSE])
    /\ UNCHANGED requests

SubscribeEventMutant(facility) ==
    IF facility = "server" THEN RequestServerInfo(source)
    ELSE UNCHANGED <<source, requests>>

\* One of the two facilities of the mask; either may mean a new default.
SubscribeEvent(facility) ==
    /\ facility \in {"server", "sink"}
    /\ RequestServerInfo(source)

SubscribeComplete(success) ==
    /\ source' = IF success THEN source ELSE Notify(SetError(source))
    /\ UNCHANGED requests

\* The next packet of the stream.
Callback ==
    /\ source.context = "ready"
    /\ replies # <<>>
    /\ replies' = Tail(replies)
    /\ LET reply == Head(replies) IN
         \/ reply.op = "subscribed" /\ SubscribeComplete(reply.success)
         \/ reply.op = "server" /\ ServerInfo(reply.default)
         \/ reply.op = "sink" /\ SinkInfo(reply)
         \/ reply.op = "event" /\ SubscribeEvent(reply.facility)
    /\ UNCHANGED <<serverVars, serviceVars, counters>>

\* context_state_changed, PA_CONTEXT_READY: subscribe first, ask then.
ContextReady ==
    /\ source.context = "connecting"
    /\ alive
    /\ source' = [source EXCEPT !.context = "ready", !.connected = TRUE,
                                !.error = FALSE]
    /\ requests' = <<[op |-> "subscribe"], [op |-> "server"]>>
    /\ UNCHANGED <<serverVars, replies, serviceVars, counters>>

\* PA_CONTEXT_FAILED and PA_CONTEXT_TERMINATED.
ContextFails ==
    /\ source.context \in {"connecting", "ready"}
    /\ ~alive
    /\ source' = [Lost(source) EXCEPT !.context = "failed", !.connected = FALSE]
    /\ requests' = <<>> /\ replies' = <<>>
    /\ UNCHANGED <<serverVars, serviceVars, counters>>

-----------------------------------------------------------------------------
(* The service.                                                            *)

SnapshotOf(s) ==
    [available |-> s.available, connected |-> s.connected, error |-> s.error,
     muted |-> s.muted, sink |-> s.sink,
     volume |-> ShownVolume(IF s.available THEN s.volume ELSE 0)]

\* disconnect; what was under way on the connection is gone with it.
Disconnect ==
    /\ source' = NoSource
    /\ subscribed' = FALSE /\ news' = {}
    /\ requests' = <<>> /\ replies' = <<>>
    /\ published' = Unavailable(TRUE)
    /\ UNCHANGED <<alive, sinks, default, setting>>

\* lopen begins, or has no pipe, mainloop, context or address.
Open ==
    /\ pc = "idle" /\ source = NoSource
    /\ source' = [NoSource EXCEPT !.context = "connecting"]
    /\ pc' = "opening"
    /\ UNCHANGED <<serverVars, linkVars, changed, ended, reconnect_ms,
                   source_config, published, counters>>

OpenFails ==
    /\ pc = "idle" /\ source = NoSource
    /\ Fault
    /\ Disconnect
    /\ pc' = "backoff"
    /\ UNCHANGED <<changed, ended, reconnect_ms, source_config>>

\* The loop of lopen sees READY, or a state that is not good any more.
OpenReturns ==
    /\ pc = "opening"
    /\ \/ /\ source.context = "ready"
          /\ pc' = "opened"
          /\ UNCHANGED <<serverVars, linkVars, source, published>>
       \/ /\ source.context = "failed"
          /\ Disconnect
          /\ pc' = "backoff"
    /\ UNCHANGED <<changed, ended, reconnect_ms, source_config, counters>>

\* The rest of connect; the wait follows in the same call.
Connected ==
    /\ pc = "opened"
    /\ published' = SnapshotOf(source)
    /\ reconnect_ms' = source_config.min
    /\ pc' = "idle"
    /\ UNCHANGED <<serverVars, linkVars, source, changed, ended, source_config,
                   counters>>

\* poll() returns and a readable pipe is drained.
WaitReturns ==
    /\ pc = "idle" /\ source # NoSource
    /\ changed' = source.notified
    /\ source' = [source EXCEPT !.notified = FALSE]
    /\ pc' = "drained"
    /\ UNCHANGED <<serverVars, linkVars, ended, reconnect_ms, source_config,
                   published, counters>>

Notified == source.notified /\ WaitReturns
Woken == ~source.notified /\ WaitReturns

\* The rest of lsource_wait, under the lock.
ReadFlags ==
    /\ pc = "drained"
    /\ ended' = (source.error \/ (~source.connected /\ source.context = "failed"))
    /\ pc' = "flagged"
    /\ UNCHANGED <<serverVars, linkVars, source, changed, reconnect_ms,
                   source_config, published, counters>>

PublishChanged ==
    /\ pc = "flagged"
    /\ published' = IF changed THEN SnapshotOf(source) ELSE published
    /\ pc' = IF ended THEN "ending" ELSE "idle"
    /\ changed' = FALSE
    /\ UNCHANGED <<serverVars, linkVars, source, ended, reconnect_ms,
                   source_config, counters>>

End ==
    /\ pc = "ending"
    /\ Disconnect
    /\ pc' = "idle" /\ ended' = FALSE
    /\ UNCHANGED <<changed, reconnect_ms, source_config, counters>>

Smaller(a, b) == IF a <= b THEN a ELSE b
Larger(a, b) == IF a >= b THEN a ELSE b

\* wait_wakeup times out; or it fails or is woken by a message.
BackoffEnds ==
    /\ pc = "backoff"
    /\ reconnect_ms' = Smaller(source_config.max, reconnect_ms * 2)
    /\ pc' = "idle"
    /\ UNCHANGED <<serverVars, linkVars, source, changed, ended, source_config,
                   published, counters>>

BackoffWoken ==
    /\ pc = "backoff"
    /\ pc' = "idle"
    /\ UNCHANGED <<serverVars, linkVars, source, changed, ended, reconnect_ms,
                   source_config, published, counters>>

Reload ==
    /\ pc \in {"idle", "backoff"}
    /\ source_config' \in Config
    /\ reconnect_ms' = Larger(source_config'.min, Smaller(source_config'.max, reconnect_ms))
    /\ pc' = "idle"
    /\ UNCHANGED <<serverVars, linkVars, source, changed, ended, published, counters>>

\* S.dispatch of a request; without an operation the error stays for the next
\* wait.  Without a source or a sink an action is refused and changes nothing.
Dispatch(request) ==
    /\ pc = "idle"
    /\ source.available /\ source.sink # NoSink
    /\ actions < MaxActions /\ actions' = actions + 1
    /\ IF source.context = "ready"
       THEN requests' = Append(requests, request) /\ UNCHANGED source
       ELSE source' = SetError(source) /\ UNCHANGED requests
    /\ UNCHANGED <<serverVars, replies, serviceVars, changes, faults>>

SetVolume(percent) ==
    Dispatch([op |-> "volume", sink |-> source.sink, volume |-> RawVolume(percent)])
SetMute(muted) == Dispatch([op |-> "mute", sink |-> source.sink, muted |-> muted])
ToggleMute == SetMute(~source.muted)

-----------------------------------------------------------------------------
(* The audio server.                                                       *)

News(facilities) == news' = IF subscribed THEN news \cup facilities ELSE news

Answer(reply) == replies' = Append(replies, reply)

\* It takes the next request.
Serve ==
    /\ alive
    /\ requests # <<>>
    /\ requests' = Tail(requests)
    /\ LET r == Head(requests) IN
         \/ /\ r.op = "subscribe"
            /\ \/ subscribed' = TRUE /\ UNCHANGED counters
               \/ Fault /\ UNCHANGED subscribed
            /\ Answer([op |-> "subscribed", success |-> subscribed'])
            /\ UNCHANGED <<setting, news>>
         \/ /\ r.op = "server"
            /\ Answer([op |-> "server", default |-> default])
            /\ UNCHANGED <<setting, subscribed, news, counters>>
         \/ /\ r.op = "sink"
            /\ Answer([op |-> "sink", sink |-> r.sink, found |-> r.sink \in sinks,
                       muted |-> setting[r.sink].muted,
                       volume |-> setting[r.sink].volume])
            /\ UNCHANGED <<setting, subscribed, news, counters>>
         \/ /\ r.op \in {"mute", "volume"}
            /\ setting' =
                 IF r.sink \notin sinks THEN setting
                 ELSE IF r.op = "mute"
                 THEN [setting EXCEPT ![r.sink].muted = r.muted]
                 ELSE [setting EXCEPT ![r.sink].volume = r.volume]
            /\ News(IF setting' # setting THEN {"sink"} ELSE {})
            /\ UNCHANGED <<replies, subscribed, counters>>
    /\ UNCHANGED <<alive, sinks, default, source, serviceVars>>

\* An event is sent.
Announce ==
    /\ alive
    /\ \E f \in news :
         /\ news' = news \ {f}
         /\ Answer([op |-> "event", facility |-> f])
    /\ UNCHANGED <<alive, sinks, default, setting, subscribed, requests, source,
                   serviceVars, counters>>

\* Another client changes a setting or the default, or a device comes or goes.
OthersChange ==
    /\ alive
    /\ changes < MaxChanges /\ changes' = changes + 1
    /\ \/ /\ \E s \in sinks :
               \/ setting' = [setting EXCEPT ![s].muted = ~@]
               \/ \E p \in Percent :
                    setting' = [setting EXCEPT ![s].volume = RawVolume(p)]
          /\ News({"sink"})
          /\ UNCHANGED <<sinks, default>>
       \/ /\ default' \in sinks \ {default}
          /\ News({"server"})
          /\ UNCHANGED <<sinks, setting>>
       \/ /\ \E s \in Sink \ sinks :
               sinks' = sinks \cup {s} /\ default' \in {s, default} \ {NoSink}
          /\ News({"sink", "server"})
          /\ UNCHANGED setting
       \/ /\ \E s \in sinks :
               /\ sinks' = sinks \ {s}
               /\ default' \in IF default # s THEN {default}
                               ELSE IF sinks' = {} THEN {NoSink} ELSE sinks'
          /\ News({"sink", "server"})
          /\ UNCHANGED setting
    /\ UNCHANGED <<alive, subscribed, linkVars, source, serviceVars, actions, faults>>

Crash ==
    /\ alive
    /\ Fault
    /\ alive' = FALSE
    /\ subscribed' = FALSE /\ news' = {}
    /\ UNCHANGED <<sinks, default, setting, linkVars, source, serviceVars>>

\* A new server comes up when this client knows of the end of the last one:
\* the connection to it is not taken up again.
Restart ==
    /\ ~alive
    /\ source.context \in {"none", "connecting", "failed"}
    /\ alive' = TRUE
    /\ UNCHANGED <<sinks, default, setting, subscribed, news, linkVars, source,
                   serviceVars, counters>>

Library == Callback \/ ContextReady \/ ContextFails
Service == Open \/ OpenReturns \/ Connected \/ Notified \/ ReadFlags
             \/ PublishChanged \/ End \/ BackoffEnds
User == (\E p \in Percent : SetVolume(p)) \/ (\E m \in BOOLEAN : SetMute(m))
          \/ ToggleMute

Next ==
    \/ Library \/ Service \/ OpenFails \/ Woken \/ BackoffWoken \/ Reload \/ User
    \/ Serve \/ Announce \/ OthersChange \/ Crash \/ Restart

Spec == Init /\ [][Next]_vars

\* Both threads run while they have something to do, and a server that is up
\* answers and announces.  Nothing is assumed of users, others and failures.
Fairness ==
    WF_vars(Library) /\ WF_vars(Service) /\ WF_vars(Serve) /\ WF_vars(Announce)

FairSpec == Spec /\ Fairness

-----------------------------------------------------------------------------
(* Properties.                                                             *)

\* The percent a volume was set to.
PercentOf(volume) == CHOOSE p \in Percent \cup {0} : RawVolume(p) = volume

\* What there is to show of the server.
Truth ==
    [available |-> TRUE, connected |-> TRUE, error |-> FALSE,
     muted |-> setting[default].muted, sink |-> default,
     volume |-> PercentOf(setting[default].volume)]
Current ==
    IF alive /\ default # NoSink THEN published = Truth ELSE ~published.available

\* Nothing is on its way between the server and the service.
Quiet ==
    /\ alive /\ source.context = "ready"
    /\ requests = <<>> /\ replies = <<>> /\ news = {}
    /\ pc = "idle" /\ ~source.notified

\* The subscription was refused and the error this left was cleared by the
\* answer about the sink before the service saw it.
Deaf == source.context = "ready" /\ ~subscribed /\ ~source.error

\* README, "Configure and run": "always follows the current default sink".  When
\* nothing is on its way, the default sink, its mute flag and its volume are
\* what is shown: no change is lost between the callbacks, the pipe and the
\* service, wherever it falls between a question and its answer, between the
\* drain and the snapshot, or while the connection is set up; and the volume
\* is the percent that set-volume was given, although it is rounded twice.
NothingMissed == Quiet /\ ~Deaf => Current

\* toggle-mute negates a cached flag.  When nothing is on its way the flag is
\* the default sink's, so the toggle turns that sink's mute round.
ToggleFlips ==
    [][(ToggleMute /\ Quiet /\ ~Deaf /\ source' = source) =>
         requests' = <<[op |-> "mute", sink |-> default,
                        muted |-> ~setting[default].muted]>>]_vars

\* Once the server stays as it is, what is shown becomes what it has and
\* stays it; a server without a sink, or gone, is shown as not available.
EventuallyCurrent == <>[](Current \/ Deaf)
=============================================================================
