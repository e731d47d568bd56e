------------------------------- MODULE Daemon -------------------------------
(***************************************************************************)
(* The services of the daemon and how they talk: the state service         *)
(* (src/service/state.lua), the actions service (src/service/actions.lua)  *)
(* and the sources.  A service handles one message of its inbox at a time  *)
(* and gives way only where it calls another service or sleeps; a send     *)
(* does not wait.  That is ltask, which is external.                       *)
(*                                                                         *)
(* Blocking sources wait for events, or for an HTTP response, inside their *)
(* idle handler and keep a worker thread while they do; every other step   *)
(* needs a worker that is free.                                            *)
(*                                                                         *)
(* A configuration is its version, a domain of the state the number of the *)
(* event its source reported last.                                         *)
(***************************************************************************)
EXTENDS Integers, Sequences, FiniteSets

CONSTANTS
    ReloadOrder,   \* the enabled sources in the order S.reload visits them
    Blocking,      \* those whose idle handler blocks
    Remote,        \* those that make HTTP requests
    MaxWorkers,    \* bound on runtime.workers
    MaxActions,    \* CONTROL_MAX_ACTIONS
    MaxEdits,      \* bound: edits of the configuration file
    MaxEvents,     \* bound: events of each source
    MaxCommands,   \* bound: commands clients have accepted
    ReloadMayFail  \* whether a source's reload handler may raise an error

Source == {ReloadOrder[i] : i \in 1..Len(ReloadOrder)}

ASSUME SourceAssumption ==
    /\ ReloadOrder \in Seq(Source)
    /\ \A i, j \in 1..Len(ReloadOrder) : ReloadOrder[i] = ReloadOrder[j] => i = j
    /\ Remote \subseteq Blocking /\ Blocking \subseteq Source
    /\ Source \cap {"state", "actions", "reload", "rejected", "raises"} = {}
    /\ ReloadMayFail \in BOOLEAN

ASSUME BoundAssumption ==
    MaxEdits \in Nat /\ MaxEvents \in Nat /\ MaxCommands \in Nat

Service == Source \cup {"state", "actions"}

\* What pop_action can return: a reload, a dispatch for a source (remote ones
\* take none), a line that actions.parse or the enabled check rejects, or one
\* on which actions.parse raises an error: a number that does not fit a
\* 64-bit integer fails assert(parse_integer()).
Command == (Source \ Remote) \cup {"reload", "rejected", "raises"}

\* config.load raises for an invalid file; config.reloadable refuses one
\* that needs a restart.
Kind == {"valid", "invalid", "restart"}

VARIABLES
    file,            \* the configuration file: version and kind
    commands,        \* the action queue of the control server
    submitted,       \* how many commands were ever accepted
    workers,         \* runtime.workers
    inbox,           \* messages a service has not handled yet
    \* the state service
    config, generation, last_reload_error, domain, revision,
    published,       \* the state handed to control.publish last
    reload,          \* S.reload: the candidate and the sources still to call
    \* the loop of the actions service: "idle", "calling" while it waits for a
    \* call to return, or "ended" by an error
    apc,
    \* the sources
    source_config, current,
    mode             \* "ready", "waiting" or "requesting"

environment == <<file, commands, submitted, workers>>
stateVars   == <<config, generation, last_reload_error, domain, revision,
                 published, reload>>
sourceVars  == <<source_config, current, mode>>
vars == <<environment, inbox, stateVars, apc, sourceVars>>

\* last_reload_error when the last reload succeeded.
NoError == ""

NoReload == [active |-> FALSE, candidate |-> 0, rest |-> <<>>]

\* config.load accepts runtime.workers only above the number of enabled
\* blocking sources.
WorkersAcceptedMutant(n) == n >= Cardinality(Blocking)
WorkersAccepted(n) == n > Cardinality(Blocking)

Init ==
    /\ file = [version |-> 0, kind |-> "valid"]
    /\ commands = <<>>
    /\ submitted = 0
    /\ workers \in {n \in 1..MaxWorkers : WorkersAccepted(n)}
    /\ inbox = [s \in Service |-> <<>>]
    /\ config = 0
    /\ generation = 1
    /\ last_reload_error = NoError
    /\ domain = [s \in Source |-> 0]
    /\ revision = 0
    /\ published = [revision |-> 0, domain |-> domain, generation |-> 1, error |-> NoError]
    /\ reload = NoReload
    /\ apc = "idle"
    /\ source_config = [s \in Source |-> 0]
    /\ current = [s \in Source |-> 0]
    /\ mode = [s \in Source |-> "ready"]

-----------------------------------------------------------------------------
(* ltask.                                                                  *)

WorkerFree == Cardinality({s \in Source : mode[s] # "ready"}) < workers

\* s takes its next message and sends msg to d.
TakeAndSend(s, d, msg) ==
    inbox' = [inbox EXCEPT ![s] = Tail(@), ![d] = Append(@, msg)]

NextMessage(s, type) == inbox[s] # <<>> /\ Head(inbox[s]).type = type

-----------------------------------------------------------------------------
(* The user and the clients of the control socket.                         *)

EditFile ==
    /\ file.version < MaxEdits
    /\ \E k \in Kind : file' = [version |-> file.version + 1, kind |-> k]
    /\ UNCHANGED <<commands, submitted, workers, inbox, stateVars, apc, sourceVars>>

Submit ==
    /\ submitted < MaxCommands
    /\ Len(commands) < MaxActions
    /\ \E c \in Command : commands' = Append(commands, c)
    /\ submitted' = submitted + 1
    /\ UNCHANGED <<file, workers, inbox, stateVars, apc, sourceVars>>

-----------------------------------------------------------------------------
(* The actions service: one command at a time.                             *)

\* Where the loop is after it has sent a call: it waits for the reply.
CallingMutant == "idle"
Calling == "calling"

\* Nothing catches what actions.parse raises: the loop ltask.fork has started
\* ends with it, and nothing takes commands from the queue any more.
PopAction ==
    /\ WorkerFree
    /\ apc = "idle"
    /\ commands # <<>>
    /\ commands' = Tail(commands)
    /\ LET c == Head(commands) IN
         \/ /\ c = "reload"
            /\ inbox' = [inbox EXCEPT !["state"] = Append(@, [type |-> "reload"])]
            /\ apc' = Calling
         \/ /\ c \in Source
            /\ inbox' = [inbox EXCEPT ![c] = Append(@, [type |-> "dispatch"])]
            /\ apc' = Calling
         \/ /\ c = "rejected"
            /\ UNCHANGED <<inbox, apc>>
         \/ /\ c = "raises"
            /\ apc' = "ended"
            /\ UNCHANGED inbox
    /\ UNCHANGED <<file, submitted, workers, stateVars, sourceVars>>

CallReturns ==
    /\ WorkerFree
    /\ NextMessage("actions", "reply")
    /\ inbox' = [inbox EXCEPT !["actions"] = Tail(@)]
    /\ apc' = "idle"
    /\ UNCHANGED <<environment, stateVars, sourceVars>>

-----------------------------------------------------------------------------
(* The state service.                                                      *)

\* state.merge and the `if changed then publish()` that follows it in S.merge,
\* in reload_failed and at the end of S.reload: the domains, the generation
\* and the error that hold afterwards.  main.lua's one patch, runtime.ready, is
\* merged like a source's, into a domain nobody else touches, and is left out.
MergeAndPublishMutant(dom, gen, err) ==
    LET changed == dom # domain IN
    /\ domain' = dom /\ generation' = gen /\ last_reload_error' = err
    /\ revision' = IF changed THEN revision + 1 ELSE revision
    /\ published' = IF changed
                    THEN [revision |-> revision + 1, domain |-> dom,
                          generation |-> gen, error |-> err]
                    ELSE published

MergeAndPublish(dom, gen, err) ==
    LET changed == <<dom, gen, err>> # <<domain, generation, last_reload_error>> IN
    /\ domain' = dom /\ generation' = gen /\ last_reload_error' = err
    /\ revision' = IF changed THEN revision + 1 ELSE revision
    /\ published' = IF changed
                    THEN [revision |-> revision + 1, domain |-> dom,
                          generation |-> gen, error |-> err]
                    ELSE published

\* The domains with the patch m merged in.
MergedMutant(m) == IF reload.active THEN domain ELSE [domain EXCEPT ![m.source] = m.value]
Merged(m) == [domain EXCEPT ![m.source] = m.value]

\* S.merge, for the patch a source sent.
StateMerge ==
    /\ WorkerFree
    /\ NextMessage("state", "merge")
    /\ MergeAndPublish(Merged(Head(inbox["state"])), generation, last_reload_error)
    /\ inbox' = [inbox EXCEPT !["state"] = Tail(@)]
    /\ UNCHANGED <<environment, config, reload, apc, sourceVars>>

\* reload_failed; S.reload returns to the actions service.
ReloadFailed ==
    /\ MergeAndPublish(domain, generation, "error")
    /\ reload' = NoReload
    /\ TakeAndSend("state", "actions", [type |-> "reply"])
    /\ UNCHANGED config

\* The end of S.reload: the candidate becomes the configuration.
ReloadSucceeds(candidate) ==
    /\ config' = candidate
    /\ MergeAndPublish(domain, generation + 1, NoError)
    /\ reload' = NoReload
    /\ TakeAndSend("state", "actions", [type |-> "reply"])

CallNextSourceMutant(candidate, rest) ==
    IF Len(rest) <= 1
    THEN ReloadSucceeds(candidate)
    ELSE /\ reload' = [active |-> TRUE, candidate |-> candidate,
                       rest |-> Tail(rest)]
         /\ TakeAndSend("state", Head(rest),
                        [type |-> "reload", candidate |-> candidate])
         /\ UNCHANGED <<config, generation, last_reload_error, domain,
                        revision, published>>

\* The loop of S.reload reaches its next source, or its end.
CallNextSource(candidate, rest) ==
    IF rest = <<>>
    THEN ReloadSucceeds(candidate)
    ELSE /\ reload' = [active |-> TRUE, candidate |-> candidate,
                       rest |-> Tail(rest)]
         /\ TakeAndSend("state", Head(rest),
                        [type |-> "reload", candidate |-> candidate])
         /\ UNCHANGED <<config, generation, last_reload_error, domain,
                        revision, published>>

\* What config.load returns.
CandidateMutant == config
Candidate == file.version

\* S.reload up to its first call: the file is read now, not when the client
\* was told "accepted".
StateReload ==
    /\ WorkerFree
    /\ NextMessage("state", "reload")
    /\ IF file.kind = "valid"
       THEN CallNextSource(Candidate, ReloadOrder)
       ELSE ReloadFailed
    /\ UNCHANGED <<environment, apc, sourceVars>>

\* Whether the call of a source's reload returned true.
ReloadedMutant(m) == TRUE
Reloaded(m) == m.ok

\* S.reload goes on when the source it called has answered.
StateReloadGoesOn ==
    /\ WorkerFree
    /\ NextMessage("state", "reloaded")
    /\ IF Reloaded(Head(inbox["state"]))
       THEN CallNextSource(reload.candidate, reload.rest)
       ELSE ReloadFailed
    /\ UNCHANGED <<environment, apc, sourceVars>>

-----------------------------------------------------------------------------
(* The sources.                                                            *)

\* S.reload of a source.
SourceReload(s) ==
    /\ WorkerFree
    /\ mode[s] = "ready"
    /\ NextMessage(s, "reload")
    /\ \E ok \in {TRUE, ~ReloadMayFail} :
         /\ source_config' = IF ok THEN [source_config EXCEPT ![s] = Head(inbox[s]).candidate]
                             ELSE source_config
         /\ TakeAndSend(s, "state", [type |-> "reloaded", ok |-> ok])
    /\ UNCHANGED <<environment, stateVars, apc, current, mode>>

News(s) == [type |-> "merge", source |-> s, value |-> current[s] + 1]

\* S.dispatch of a source, done or refused.  What it changes comes back as an
\* event, but the system source scans its devices before it returns.
SourceDispatch(s) ==
    /\ WorkerFree
    /\ mode[s] = "ready"
    /\ NextMessage(s, "dispatch")
    /\ \/ /\ TakeAndSend(s, "actions", [type |-> "reply"])
          /\ UNCHANGED current
       \/ /\ s \notin Blocking
          /\ current[s] < MaxEvents
          /\ current' = [current EXCEPT ![s] = @ + 1]
          /\ inbox' = [inbox EXCEPT ![s] = Tail(@),
                                    !["state"] = Append(@, News(s)),
                                    !["actions"] = Append(@, [type |-> "reply"])]
    /\ UNCHANGED <<environment, stateVars, apc, source_config, mode>>

\* The idle handler runs when there is no message and blocks: in poll() on
\* the event and wake descriptors or, in a remote source, in a request.
SourceBlocks(s) ==
    /\ s \in Blocking
    /\ WorkerFree
    /\ mode[s] = "ready"
    /\ inbox[s] = <<>>
    /\ \/ mode' = [mode EXCEPT ![s] = "waiting"]
       \/ s \in Remote /\ mode' = [mode EXCEPT ![s] = "requesting"]
    /\ UNCHANGED <<environment, inbox, stateVars, apc, source_config, current>>

\* A message makes the wake descriptor readable, which only poll() notices.
SourceWakes(s) ==
    /\ mode[s] = "waiting"
    /\ inbox[s] # <<>>
    /\ mode' = [mode EXCEPT ![s] = "ready"]
    /\ UNCHANGED <<environment, inbox, stateVars, apc, source_config, current>>

\* A request ends with nothing new or with a failure, at the latest when it
\* times out.
RequestEnds(s) ==
    /\ mode[s] = "requesting"
    /\ mode' = [mode EXCEPT ![s] = "ready"]
    /\ UNCHANGED <<environment, inbox, stateVars, apc, source_config, current>>

\* An event, a response or a scan brings news, which is sent to state.
SourceReports(s) ==
    /\ current[s] < MaxEvents
    /\ IF s \in Blocking THEN mode[s] # "ready" ELSE WorkerFree
    /\ current' = [current EXCEPT ![s] = @ + 1]
    /\ mode' = [mode EXCEPT ![s] = "ready"]
    /\ inbox' = [inbox EXCEPT !["state"] = Append(@, News(s))]
    /\ UNCHANGED <<environment, stateVars, apc, source_config>>

\* Everything the bounds allow has happened and every service is at rest.
Quiet ==
    /\ file.version = MaxEdits
    /\ (submitted = MaxCommands /\ commands = <<>>) \/ apc = "ended"
    /\ \A s \in Service : inbox[s] = <<>>
    /\ UNCHANGED vars

StateService == StateMerge \/ StateReload \/ StateReloadGoesOn
ActionsService == PopAction \/ CallReturns
Handles(s) == SourceReload(s) \/ SourceDispatch(s)

Next ==
    \/ EditFile \/ Submit
    \/ ActionsService
    \/ StateService
    \/ \E s \in Source : \/ Handles(s) \/ SourceBlocks(s) \/ SourceWakes(s)
                         \/ RequestEnds(s) \/ SourceReports(s)
    \/ Quiet

Spec == Init /\ [][Next]_vars

\* Workers run the services that have messages, poll() notices the wake
\* descriptor and requests time out.  Events need never happen.
Fairness ==
    /\ WF_vars(ActionsService)
    /\ WF_vars(StateService)
    /\ \A s \in Source : /\ WF_vars(Handles(s))
                         /\ WF_vars(SourceWakes(s))
                         /\ WF_vars(RequestEnds(s))

FairSpec == Spec /\ Fairness

-----------------------------------------------------------------------------
(* Properties.                                                             *)

Message ==
    [type : {"reload", "dispatch", "reply"}]
      \cup [type : {"reload"}, candidate : 0..MaxEdits]
      \cup [type : {"reloaded"}, ok : BOOLEAN]
      \cup [type : {"merge"}, source : Source, value : 0..MaxEvents]

\* Type correctness.
TypeOK ==
    /\ file \in [version : 0..MaxEdits, kind : Kind]
    /\ commands \in Seq(Command)
    /\ submitted \in 0..MaxCommands
    /\ workers \in 1..MaxWorkers
    /\ inbox \in [Service -> Seq(Message)]
    /\ config \in 0..MaxEdits
    /\ generation \in Nat
    /\ last_reload_error \in {NoError, "error"}
    /\ domain \in [Source -> 0..MaxEvents]
    /\ revision \in Nat
    /\ published \in [revision : Nat, domain : [Source -> 0..MaxEvents],
                      generation : Nat, error : {NoError, "error"}]
    /\ reload \in [active : BOOLEAN, candidate : 0..MaxEdits, rest : Seq(Source)]
    /\ apc \in {"idle", "calling", "ended"}
    /\ source_config \in [Source -> 0..MaxEdits]
    /\ current \in [Source -> 0..MaxEvents]
    /\ mode \in [Source -> {"ready", "waiting", "requesting"}]

\* Between reloads state and every source run the same configuration: a
\* rejected file changes none of them, and a second reload never begins while
\* the first one waits for a source with its candidate in a local, which only
\* the actions service's one-at-a-time loop ensures.  When a source's handler
\* raises an error the sources before it have switched already; then the
\* reported error is cleared only once all agree again.
ConfigurationsAgree ==
    (~reload.active /\ (last_reload_error = NoError \/ ~ReloadMayFail))
      => \A s \in Source : source_config[s] = config

\* What the control server shows is the state as it is after every message:
\* no change of a domain, of the generation or of the error goes unpublished.
PublishedIsCurrent ==
    published = [revision |-> revision, domain |-> domain,
                 generation |-> generation, error |-> last_reload_error]

\* Where the news of s that state has not merged yet are in its inbox.
Pending(s) == {i \in 1..Len(inbox["state"]) :
                 inbox["state"][i].type = "merge" /\ inbox["state"][i].source = s}

\* A source's news is merged in the order it was sent and none is lost while
\* S.reload has given way: what state still has to merge is, in order and
\* each once, what the source has reported beyond the state's domain.
NoNewsLost ==
    \A s \in Source : LET news == inbox["state"] IN
        /\ domain[s] <= current[s]
        /\ {news[i].value : i \in Pending(s)} = (domain[s] + 1)..current[s]
        /\ \A i, j \in Pending(s) : i < j => news[i].value < news[j].value

\* A new generation means that every source has already switched to the
\* configuration that state adopts in the same step, and the error is gone.
GenerationMeansApplied ==
    [][generation' # generation =>
         /\ generation' = generation + 1
         /\ last_reload_error' = NoError
         /\ \A s \in Source : source_config[s] = config']_vars

\* Every command is finished and the next one begun: neither a slow request
\* nor sources that wait for events keep the daemon from handling it.  Only a
\* line on which actions.parse raises an error ends this.
CommandsFinish ==
    (commands # <<>> \/ apc = "calling")
      ~> \/ commands = <<>> /\ apc = "idle"
         \/ apc = "ended"

\* A command is in the queue.
Queued(c) == \E i \in 1..Len(commands) : commands[i] = c

\* A reload that is queued after the last edit of the file, to a valid one,
\* brings that file into effect, or an error is reported because a source's
\* handler raised one, or the loop that should take it has ended on an
\* earlier line.
ReloadApplies ==
    (file = [version |-> MaxEdits, kind |-> "valid"]
       /\ Queued("reload"))
      ~> \/ config = MaxEdits /\ \A s \in Source : source_config[s] = MaxEdits
         \/ ReloadMayFail /\ last_reload_error # NoError
         \/ apc = "ended"

\* README, "Configuration reload": "The client first receives accepted; observe
\* the actual result through the generation and error fields".  So every
\* reload in the queue is taken from it, whatever was queued before it.
AcceptedReloadsRun == Queued("reload") ~> ~Queued("reload")
=============================================================================
