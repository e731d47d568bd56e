# A TLA+ verification of Hypringo

Hypringo is a daemon that gathers the state of a desktop session (the Hyprland
compositor, media players, audio, devices, weather, GitHub notifications) and
publishes it as JSON to bars and scripts over a Unix socket.  This directory
holds specifications of its core, the TLC configurations that check them on
small instances, and TLAPS proofs of what matters most for every instance.

Paths below are those of the repository (`src/control.c` and so on).

## 1. The system

| Component | State it keeps | Operations | Talks to |
|---|---|---|---|
| control server, `src/control.c` | `server` under a mutex: flags, three snapshots, wake pipe; the client array of the control thread | `start`, `publish`, `stop`, `pop_action`; `status`, `doctor`, `subscribe`, `reload`, `dispatch` from clients | state service (calls), actions service (calls), clients (sockets) |
| action ring, `src/control.c` | 64 slots, head, count | enqueue, pop, reset | control thread, actions service |
| socket lifecycle, `src/control.c` | what the path names, the listener | prepare, undo, remove | other daemons, through the file system |
| state service, `src/service/state.lua`, `src/lualib/state.lua` | the snapshot, its revision, the configuration | `merge`, `reload`, `publish` | every source (calls at reload, receives patches), control server |
| actions service, `src/service/actions.lua`, `src/lualib/actions.lua` | whether it waits for a call | pop, parse, call | control server, state, sources |
| configuration, `src/lualib/config.lua` | none | `load`, `reloadable` | state service |
| Hyprland source, `src/service/hyprland.lua`, `src/lualib/hyprland.lua`, `src/ipc.c` | event stream and buffer, reconnect delay | connect, resync, consume, disconnect, `dispatch`, `reload` | compositor (two sockets), state service |
| remote sources, `src/service/github.lua`, `src/service/weather.lua`, `src/lualib/remote.lua`, `src/http.c` | deadline, entity tag, failures, last success | refresh, fail, `reload` | HTTP servers, state service |
| system source, `src/service/system.lua`, `src/devices.c` | what the last scan found | scan, set brightness, `reload` | sysfs, state service |
| audio source, `src/service/audio.lua`, `src/audio.c` | sink, volume, mute and error from the callbacks, a notification pipe, reconnect delay | connect, wait, snapshot, `dispatch`, `reload`; six callbacks on libpulse's thread | PulseAudio server, state service |
| MPRIS source, `src/service/mpris.lua`, `src/mpris.c` | bus connection with its queue, dirty flag, selected player and its capabilities, reconnect delay | connect, wait, snapshot, `dispatch`, `reload`, two signal handlers | session bus, players, state service |
| Eww scripts, `contrib/eww` | windows that are open | open and close bars | `hypringo subscribe`, Eww |

What is hard in it:

* **Two threads and one mutex in the control server.**  `publish` stores under
  the mutex and wakes the control thread after the unlock; the control thread
  drains, and copies the snapshot anew for every client.  Removals move the last
  client into the freed slot in the middle of two loops over the array.
* **Cooperative services.**  `S.reload` of the state service yields at each
  source it calls; patches arrive meanwhile.  Blocking sources keep a worker
  thread each.
* **An outside that goes on.**  The compositor changes between the three
  requests of a resync; lines are cut anywhere; it crashes and restarts.
  Servers answer 304, ask for delays, time out.
  Players come and go between the calls that read them; devices between two
  entries of a directory.
* **Callbacks on another thread.**  libpulse's thread changes what the audio
  service reads, under a lock that the service gives up between draining the
  pipe, reading the flags and taking the snapshot.
* **Limits.**  Client slots, the action ring, the wake pipe, client sockets, the
  event buffer, 64-bit delays, the number of workers.
* **Crashes.**  A killed daemon leaves its socket behind.

`PROJECT.json` lists these as hazards, each at its line with the properties that
would catch it.

## 2. The modules

| Module | Models | Abstract specification | Proofs |
|---|---|---|---|
| `Control` | the control server and its clients | `Feed`: a latest-value feed | `ControlProofs` |
| `ActionRing` | the action ring, at index level | `ActionFifo`: a bounded queue | `ControlPartsProofs` |
| `Socket` | taking and giving up the socket path | | `ControlPartsProofs` |
| `Daemon` | state, actions and sources as ltask services | | `DaemonProofs` |
| `Remote` | one remote source and its server | | `RemoteProofs` |
| `Hyprland` | the Hyprland source and the compositor | | `HyprlandProofs` |
| `Audio` | the audio source, its callbacks and the audio server | | `AudioProofs` |
| `Mpris` | the MPRIS source, the bus and the players | | `MprisProofs` |
| `System` | the system source and the device tree | | `SystemProofs` |

`Daemon` composes the services; the queue it pops from is the one `Control`
fills, which `ActionRing` shows to be a queue.  `Control` therefore keeps its
actions as a sequence.  In `Daemon` a source only reports, blocks and handles
messages; the five modules of sources say what it reports.  Each `MC` module only
adds what TLC needs: symmetry, the value of a constant, or (`MCAudio`) initial
states up to a renaming of the sinks.  `MCControlParts` puts the ring and the socket
path, which do not touch each other, side by side.

### Control

`spc` is the state service's point in `lstart`, `lpublish` and `lstop`; `tpc` the
control thread's point in `control_thread`.  One action is one critical section
or one system call with the thread-local code around it:

* `PublishStore`, `PublishWake`: `lpublish` up to the unlock, and the write after it.
* `StopRequest`, `StopWake`, `StopJoin`: `lstop`.
* `LoopTop`, `Poll`, `DrainWakePipe`, `CheckStopping`, `ServeClient` (once per
  polled client, last to first), `AcceptClients`, `BroadcastClient` (once per
  slot), `BroadcastDone`, `ThreadExit`: the thread.
* `ClientConnect`, `ClientSend`, `ClientRead`, `ClientClose`: any client, of which
  `lrequest` is one.  It may stop reading, send half a line, or close at any time.

Snapshots are the revision they carry (0 is the reply of `send_snapshot` before
the first publication), a queued action is the connection that asked for it, and
a command is one of its kinds.  `WriteAll` has the outcomes of a nonblocking
`send` loop: all, none or part of a line.  `last` is a history variable: the last
whole line written to a connection.  The copy of a snapshot under the mutex and the
write after the unlock are one step: a publication that falls between them comes
after both in the model, which leaves the order of what a client is sent as it is,
so "current" in `Feed` means current when copied.  Allocation failures and `accept`
errors are left out.

### ActionRing and Socket

`ActionRing` keeps the array, the head and the count as the code does; slots are
not cleared.  `Socket` has one step per system call on the path; `PrepareFails` is
an `lstat`, `connect`, `unlink`, `socket` or `bind` that fails for any other
reason, and `Die` kills a daemon anywhere, which is also what SIGTERM does,
because `src/host.c` restores its default action.  `Overlap` says whether starts and stops of different
daemons may overlap.

### Daemon

Every service has an inbox and handles one message at a time; a call is a
message and a reply, and the service goes on with other messages meanwhile.
That is ltask, which is external.  A step needs a free worker: blocking sources
hold one while they wait or make a request.  `StateReload`, `StateReloadGoesOn`
and `CallNextSource` are `S.reload` cut at its calls; `reload` holds its locals.
A configuration is a version, a domain the number of the last event its source
reported.  `ReloadMayFail` lets a source's handler raise an error, which
`S.reload` handles.  A command line is a reload, a dispatch, one that is rejected
or one that `raises`: a number beyond 64 bits passes the control server and makes
`M.parse` raise an error that nothing catches, which ends the loop of the actions
service for good (`apc = "ended"`).  The patch with which `main.lua` reports
`runtime.ready` is left out.

### Remote

Times are relative: `remaining` to the deadline, `elapsed` of the request.
`refresh` computes the deadline with the clock it read before the request, and so
does the model.  A list is its version; an entity tag is a version and does not
name its target, so that a tag kept too long confirms the wrong list.  Delays are
computed as `src/lualib/remote.lua` does, in wrapping integers.  `Reload` puts any
member of `Config` into force (target, `max_items`, interval, range of the backoff,
timeout) and keeps the failures counted so far.  Three history variables: `owed`
is what is left of the pause the server's last answer asked for, up to a day;
`hurried` says that a reload or a failing wait has moved the deadline into it;
`unasked` is a 304 without `If-None-Match`, which a broken server may send while
`outage` holds.

### Hyprland

Each part of the compositor's state is a version.  `Fetch` is one request of
`resync`; the compositor may change, crash or restart between two of them.  The
event stream is a sequence of pieces (head of a relevant line, head of another
line, more of it, end of line), and `Consume` takes any number of pieces up to a
chunk, so lines are cut everywhere and joined.  The compositor is external: it
announces every change after making it, and it answers a request or closes it.
An oversized response, which raises an error in the idle handler instead of a
disconnection, is left out.

### Audio

A callback, and each region of the service under the mainloop lock, is one step.
`source` is `struct audio_source` with the state of its context and whether the
pipe holds a byte; `requests` and `replies` are the connection, in order.

* `ContextReady`, `ContextFails`, `SubscribeComplete`, `SubscribeEvent`,
  `ServerInfo`, `SinkInfo`: the callbacks; `Callback` takes the next packet.
* `Open`, `OpenReturns`, `OpenFails`, `Connected`: `connect` and `lopen`'s loop.
* `WaitReturns`, `ReadFlags`, `PublishChanged`, `End`: `lsource_wait` cut where it
  takes the lock, and what the idle handler does with its answers.
* `SetVolume`, `SetMute`, `ToggleMute`: `lsource_dispatch`, with the volume's
  conversion to the library's scale; `ShownVolume` is the one back.

The server is external: it answers in order, announces a change after making it
(perhaps several with one event), may refuse the subscription, end and restart.

### Mpris

A snapshot is cut at its D-Bus calls: `ListNames`, then for each name in any
order `ReadStatus`, `ReadMetadata` and `ReadCapabilities`, then `Publish`.  The
players change between any two.  Signals that arrive during the calls stay in the
queue until `Wait` hands them to the handlers, which is what makes the source
look again.  A player is its place in the order of bus names.  The five reads of
`ReadCapabilities` are one step in which any of them may fail; a change between
two of them is not modelled (its signal is queued all the same), nor is the read
of `Identity`, which only changes the name shown.  `blind` and `listFailed` are
history: a call failed although bus and player were there.

### System

A scan is `BeginScan`, one `ReadSupply` or `ReadBacklight` per entry in any order,
and `Publish`.  The attributes of one device are read in one step.  The
percentages are those of the code, whose `long double` quotients are exact
enough to round as rationals do.  `Settle` lets the hardware reach a brightness
after the write, so a scan may still see the old one.  `WriteFails` is a write that
reports an error after the file has changed, and is followed by no scan.
`disturbed` and `asked` are history variables.

## 3. What is checked

| Run | Instance | Shows |
|---|---|---|
| `control_parts` | 3 action slots and 3 actions; 3 daemons, one start or stop at a time, deaths and failing calls anywhere | `OwnedSlotsFilled`, `ImplementsFifo`; `LiveSocketKept`, `StaleRecovered` |
| `control` | 2 clients, 1 client slot, 1 action slot, 6 kinds of command, 2 revisions, poll may fail | `TornIsLast`, `AcceptedOnce`, `ImplementsFeed` |
| `control_live` | 2 subscribers in 2 slots, 1 revision, wake pipe of 1 byte | `SlotsConsistent`, `PollfdsAligned`, `NoLostSnapshot`, `NoInnocentDropped`, `CatchesUp`, `Answered`, `StopReturns` |
| `socket_race` | 2 daemons that overlap | violates `LiveSocketKept` |
| `daemon` | a remote, a local blocking and a periodic source, 2 commands, 1 edit | `ConfigurationsAgree`, `PublishedIsCurrent`, `NoNewsLost`, `GenerationMeansApplied`, `CommandsFinish`, `ReloadApplies` |
| `daemon_raises` | the same sources, 2 commands, no edit | violates `AcceptedReloadsRun` |
| `remote` | 2 targets with 2 configurations each, 2 versions, 3 failures, scaled clock, no header that wraps | `EtagMatchesData`, `CachedDataMarked`, `ServerWishesKept`, `BackoffGrows`, `FreshIsCurrent`, `Recovers` |
| `remote_items` | 1 target, 2 configurations, 1 version | violates `KeepsAtMostMaxItems` |
| `hyprland` | 1 change per part, 2 faults, 6 pieces on the way, buffer of 3 | `NoChangeMissed`, `AvailabilityShown`, `BackoffInRange`, `EventuallyCurrent` |
| `audio` | 2 sinks, a change by others, an action, a fault | `NothingMissed`, `ToggleFlips`, `EventuallyCurrent` |
| `mpris` | 2 players with 3 states, 2 changes, a fault | `NoChangeMissed`, `AcceptedAsShown`, `EventuallyCurrent` |
| `system` | 2 names per directory, 4 kinds of battery, 3 of backlight, a change, an action, a fault | `ScanFindsDevices`, `BrightnessAsAsked`, `EventuallyShown` |

The comment above each property states it and names the code it is about.  Each
property of a passing run has a mutant in `PROJECT.json`: a plausible slip in the
code that makes TLC report it.

**Bounds.**  The limits of the control server are split between its two runs.  In
`control` there is one client slot, so that the second client is turned away, and
one action slot, so that the second command is answered busy; all kinds of command
are sent.  In `control_live` two subscribers share two slots, the fewest for which a
removal moves a client that is still ahead of the loop: nobody is turned away for
want of a slot there, and `subscribe` is the only command.  `SlotsConsistent`, `PollfdsAligned`
and `NoInnocentDropped` with full slots, more clients and all commands are left to
their theorems; `Answered` is only checked for subscriptions.  In both runs one byte
in the wake pipe makes the second wakeup drop, and a socket of one line makes the
second line tear.  Two revisions tell an old snapshot from a new one.

In `remote` two milliseconds make a centisecond, four a second and ten a day, so
that rounding up and the cap both happen; three failures take either backoff to its
maximum (2, 4, 5 and 1, 2, 3), and neither range contains the other.  Six-bit
integers hold every header there (three seconds are 12); nine seconds would wrap
around.  In `hyprland` a buffer of three pieces takes every relevant line and
not the long one.  In `audio`, `mpris` and `system` one or two changes suffice,
because each may fall between any two steps of the source and the properties compare
what is shown with what is there at the end; two sinks, players or names make a
change of the choice possible.  33 % of 65536 steps is no whole number and must come
back as 33 %; nor is 1 % of 255 levels, and 1 % of 40 would be darkness without the
exception in `lset_brightness`; 5 of 8, 64 of 255, and 50 of 40 or 9 of 8 reach
rounding up, rounding down and the cap of the percentages.

**Fairness.**  Only of the program: threads and services that can run do
(`WF` of the control thread, of the second half of `publish` and `stop`, of the
actions and state services, of a source's message handlers and wakeups), the
clock goes on, and a request ends, since libcurl is given a total timeout.
For the audio source libpulse's thread runs, too, and a server that is up
answers and announces; for the system source the rescan's sleep ends and
hardware reaches the brightness it was given.
Nothing is assumed of clients, users, reloads, compositor or servers: a client
may never read, a source may never report, a publication may never come.

**Disagreements with the documentation** (the `violation` runs):

* "A second daemon refuses to take over a live socket": not when it tries to connect
  after the first one has bound the path and before it listens.  The refused
  connection counts as a stale socket, and the path is unlinked later, when the
  first daemon runs (`socket_race`).
* A reload that was answered `accepted` has a result that `doctor` reports: not when
  it is queued behind a line on which `M.parse` raises an error (`daemon_raises`).
* The GitHub source "keeps at most `max_items`": not after a reload that lowers
  it, while the server answers 304 (`remote_items`).

**Cases the properties leave out**, each by name, because the code behaves
otherwise in them:

* `TornIsLast`: a subscriber that does not read can be left with part of a line
  (`write_all` gives up when the socket is full), although the documentation says
  "Every line is complete JSON".  It is disconnected and nothing follows the part.
* `apc = "ended"` (`Daemon`): `CommandsFinish` and `ReloadApplies` hold as long as no
  line has raised an error in the loop of the actions service; after it nothing is
  taken from the queue.  The safety properties of `Daemon` hold after it, too.
* `hurried` (`Remote`): "GitHub additionally honors `Retry-After`" is not true of a
  reload during the pause, nor of a wait that fails: both set the deadline to the
  present, and the source asks again at once.  `ServerWishesKept` allows that until
  the pause is over.  A pause of more than a day is cut by the code's cap.
* Headers that wrap (`Remote`): seconds beyond `math.maxinteger // 1000` wrap around
  when they are multiplied, and the deadline is that of the backoff alone.  With 9 in
  `Seconds` TLC reports `ServerWishesKept` two steps from the start: a request
  begins and is refused.
* `Quiet` (`Audio`): `NothingMissed` and `ToggleFlips` are about states in which the
  source has heard of everything.  Between a change by another program and its
  callback `toggle-mute` acts on the old flag, and may leave the mute as it was.
* `Deaf` (`Audio`): the server refuses the subscription; `subscribe_complete` sets
  an error for the next wait, but if the answer about the sink comes before the
  service looks, `sink_info` clears it.  The source stays connected and never
  hears of a change.
* A server without a default sink: `connect` succeeds and resets the delay, the
  missing sink is an error that disconnects, and the loop begins again at once.
  `EventuallyCurrent` holds, but nothing slows the loop down.
* `listFailed` (`Mpris`): when `ListNames` fails, "unavailable" is published while
  the selected player and its capabilities stay, so an action is still accepted.
* `blind` (`Mpris`): a player whose properties could not be read is passed over
  and not asked again before the next relevant signal.

## 4. What is proved

Every invariant and every action property of the passing runs is a theorem, and
so are the two refinements: TLAPS proves them for every value of the constants
that satisfies the named assumptions of the modules (sizes are positive where the
code's are, ranges of backoff are in order, names do not collide).  A theorem has
the form `Spec => []P` (or `Spec => P` for an action property).  Three have a
hypothesis: the two about the socket path need `~Overlap`, without which
`LiveSocketKept` is false (run `socket_race`), and `WishesAreKept` needs
`NothingWraps`: a header's seconds, in milliseconds, fit an integer.  For each module
an inductive invariant is established by `Init` and kept by every action, one lemma
per action; it was checked by TLC on the instance of the module's run first.

| Proofs | Theorem | States |
|---|---|---|
| `ControlProofs` | `TypeCorrect`, `SlotsStayConsistent`, `PollfdsStayAligned`, `NoSnapshotLost` | `TypeOK`, `SlotsConsistent`, `PollfdsAligned`, `NoLostSnapshot` |
| | `FragmentsAreLast`, `AcceptedOnceOnly`, `SubscribersAreKept` | `TornIsLast`, `AcceptedOnce`, `NoInnocentDropped` |
| | `ServerImplementsFeed` | `ImplementsFeed` |
| `ControlPartsProofs` | `TypeCorrect`, `SlotsFilled`, `RingImplementsFifo` | `TypeOK`, `OwnedSlotsFilled`, `ImplementsFifo` of the ring |
| | `RunningDaemonKeepsSocket`, `StaleSocketIsRecovered` | `LiveSocketKept`, `StaleRecovered` |
| `DaemonProofs` | `TypeCorrect`, `ConfigurationsStayEqual`, `GenerationIsApplied`, `PublishedStaysCurrent`, `NewsIsKept` | `TypeOK`, `ConfigurationsAgree`, `GenerationMeansApplied`, `PublishedIsCurrent`, `NoNewsLost` |
| `RemoteProofs` | `EtagStaysWithData`, `DataStaysMarked`, `FreshDataIsCurrent` | `EtagMatchesData`, `CachedDataMarked`, `FreshIsCurrent` |
| | `TypeCorrect`, `WishesAreKept`, `BackoffKeepsGrowing` | `TypeOK`, `ServerWishesKept`, `BackoffGrows` |
| `HyprlandProofs` | `NothingMissed`, `AvailabilityIsShown`, `BackoffStaysInRange` | `NoChangeMissed`, `AvailabilityShown`, `BackoffInRange` |
| `AudioProofs` | `NoChangeIsMissed`, `ToggleTurnsRound` | `NothingMissed`, `ToggleFlips` |
| `MprisProofs` | `NothingMissed`, `ActionsAcceptedAsShown` | `NoChangeMissed`, `AcceptedAsShown` |
| `SystemProofs` | `ScansFindDevices`, `BrightnessIsAsAsked` | `ScanFindsDevices`, `BrightnessAsAsked` |

What the inductive invariants add, and why:

* `ControlProofs`.  `Phases` ties the two program counters to each other and says
  that all three stored snapshots are of the last revision until the server is
  torn down.  `Lifecycle` says that a connection is not subscribed before it is
  accepted and is sent no snapshot while open before it subscribes.
  `ReadsUnsubscribed` says that the pass reads input only from clients that are
  not subscribed, so that a subscription begins once.  `NoLostSnapshot` needs slot
  alignment: a removal during a broadcast moves a client from behind the index to
  the index, where it is still ahead.  `AcceptedOnce` needs `Settled`: a connection
  whose action is known, or that was answered, is closed, so that nothing can make
  the thread queue its action again.  `NoInnocentDropped` needs `Hangups`: the
  hangups that poll reported are real, also after a removal has moved the events of
  another slot.  The refinement maps a broadcast write to `Deliver`, a subscription
  to `Subscribe` and every close to `Leave`.
* `ControlPartsProofs` proves about the two parts of `src/control.c` that `Control`
  takes for granted; it extends both, which is why `Socket` has a `SocketSpec` and
  `socketVars`.  The queue is the ring read from its head; the lemmas are about addition modulo the
  capacity, and enqueue and pop map to `Append` and `Tail`.  For the path the
  invariant says what it names at each point of a section (`PathKnown`), that
  nobody else is inside one (`Exclusive`), and that a daemon about to unlink has
  seen that nobody listens (`NobodyRuns`).
* `DaemonProofs`.  The actions service handles one command at a time, so at most one
  call or answer is under way in all inboxes (`OneToken`; none at all unless the service
  waits for one, also after its loop has ended), and it is where `S.reload` or the
  actions service sent it (`TokenKnown`).  While `S.reload` waits for a
  source, those before it in the order have switched to the candidate
  (`Visiting`); hence all have when the loop ends.  A handler that raises an error
  leaves the sources before it switched, which `ConfigurationsAgree` allows only
  while the error is reported.  `NoNewsLost` is stated over positions of the inbox,
  so that its proof needs no filtering of sequences: taking the head and adding at
  the end are its only changes.
* `RemoteProofs`.  The first three are about which patches leave the data, the tag
  and the counters together; delays stay opaque.  The others are about the delays.
  `Types` holds whatever wraps, because every delay is cut to 0..`MaxDelayMs` at the
  end; if `NothingWraps`, a delay is at least what the headers ask for, hence
  `ServerWishesKept`: what is owed runs down with what remains, and where a reload
  or a failing wait moves the deadline, `hurried` holds until the pause is over.
  `BackoffGrows` is about each failure by itself and the range then in force; the
  loop of `exponential_delay` computes the minimum doubled once per turn up to the
  maximum, for any range (`LoopDelayDoubles`).  That needs induction over the turns; `Induction`
  states it for subsets of the naturals and is derived from the least element of a
  nonempty set, which the prover can instantiate; `Iteration` derives that the
  recursive functions `LoopDelay` and `PowerOfTwo` satisfy their equations.
* `HyprlandProofs`.  `NoChangeMissed` is inductive with its second part, about the
  answers of a resync that is under way, and with `Connected`: the stream of a
  compositor that is gone is about to end.  `RemainderKeeps` is the fact about
  `consume_events`: a relevant head whose line is not complete is in what it keeps.
* `AudioProofs`.  `Hears` is the heart: what a subscribed source has, or is about to
  be told, is what the server has, or the source will ask again (`AsksAgain`: news,
  an event, a question for the default or its answer is on its way *behind* the
  outdated reply).  An answer about a sink may be outdated, which needs news behind
  it (`AnswersRight`), or about a sink that is not the default any more, which needs
  another question anywhere (`LastAnswerWanted`): the two cases have different
  positions, and the invariant is not inductive if they are put into one.
  `AsksAfterSubscribing` is the order of the first two requests: with the question
  before the subscription the proof fails where a subscription begins.
  `SourceShown` and `ErrorSeen` say that the service will read what the callbacks
  left, across the gap between the drain of the pipe and the snapshot.
  `ShownIsPercent` is the round trip of a volume through both conversions, for any
  scale of at least 200 steps.
* `MprisProofs`.  `ScanRight` says that what the scan has selected is the best of
  the names read so far as they are now, or a signal is queued or a call has
  failed by itself; `ActionsShown` ties the capabilities kept for `dispatch` to those
  published, and `Remembered` says that a closed source keeps none.
* `SystemProofs`.  `ScanRight` is the same for a scan of the device tree, whatever
  the order of the entries, until a device changes; `WriteKept` says what the device
  written last holds.  `RoundTrip`: the raw value of a percentage, shown again, is
  that percentage if there are at least a hundred levels.

**Only model-checked.**  Liveness (`CatchesUp`, `Answered`, `StopReturns`,
`CommandsFinish`, `ReloadApplies`, `Recovers`, `EventuallyCurrent`,
`EventuallyShown`), which rests on fairness and is out of the prover's reach; and
the counterexamples of the three violation runs.

## 5. What is not modelled, and the plan

Not modelled, and why:

* `src/json.c`, `doctor`, the projection of compositor, API and player data: pure
  functions of text without state; the models stay above the text of messages.
* The validation of single configuration fields, argument parsing, the embedding
  of the Lua code, `main`: linear start-up code.
* `M.merge`'s structural comparison of Lua tables: `Daemon` takes it for the
  comparison of two values.
* `contrib/eww` and the session scripts: process supervision by the shell.
* The prototype at the repository's root, which the daemon replaces.
* An oversized IPC response, changes between the five reads of a player's
  capabilities, the name a player identifies itself with, `main.lua`'s patch about
  `runtime.ready`: see the modules' sections above.
* ltask, libcurl, libpulse, sd-bus: external, modelled as the code uses them.

Next, in this order:

1. Action properties worth proving beside the invariants: which steps of a source
   may change what is published, and that a reconnect delay is reset only by a
   connection (`Hyprland`, `Audio`, `Mpris`).
2. The safety half of the liveness properties: that the step each of them waits for
   stays possible until it is taken (the broadcast of `CatchesUp`, the join of
   `StopReturns`), as invariants about the program counters.
3. An abstract specification that the four watching sources share ("shows the
   present state or is about to look"), and refinements of it.
