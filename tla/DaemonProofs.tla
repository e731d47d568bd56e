---------------------------- MODULE DaemonProofs ----------------------------
(***************************************************************************)
(* Proofs about Daemon: whatever the sources report and however the        *)
(* services interleave, the state and every source agree on the            *)
(* configuration, a new generation means that every source has it, and no  *)
(* news is lost.                                                           *)
(*                                                                         *)
(* The argument: the actions service waits for each call, so at most one   *)
(* call or answer is under way in the whole daemon; while S.reload waits   *)
(* it is with the source S.reload visits, or on its way back.              *)
(***************************************************************************)
EXTENDS Daemon, TLAPS

\* The message at position i of s is a call or an answer.
Token(s, i) == i \in 1..Len(inbox[s]) /\ inbox[s][i].type # "merge"

\* At most one call or answer is under way, and none unless the actions
\* service waits for it.
OneToken ==
    /\ \A s, t \in Service : \A i, j \in Nat : Token(s, i) /\ Token(t, j) => s = t /\ i = j
    /\ apc # "calling" => ~reload.active /\ \A s \in Service : \A i \in Nat : ~Token(s, i)

\* The position of the source that S.reload has called last.
Called == Len(ReloadOrder) - Len(reload.rest)

\* Where S.reload is: the sources before the one it called have switched.
Visiting ==
    reload.active =>
      /\ Called \in 1..Len(ReloadOrder)
      /\ \A i \in 1..Len(reload.rest) : reload.rest[i] = ReloadOrder[Called + i]
      /\ \A i \in 1..Len(ReloadOrder) :
           i < Called => source_config[ReloadOrder[i]] = reload.candidate

\* What is under way while S.reload waits for a source.
ReloadToken(s, m) ==
    \/ m.type = "reload" /\ s = ReloadOrder[Called] /\ m.candidate = reload.candidate
    \/ /\ m.type = "reloaded" /\ s = "state"
       /\ m.ok => source_config[ReloadOrder[Called]] = reload.candidate
       /\ ~m.ok => ReloadMayFail

\* What is under way while it does not.
OtherToken(s, m) ==
    \/ m.type = "reload" /\ s = "state"
    \/ m.type = "dispatch" /\ s \in Source
    \/ m.type = "reply" /\ s = "actions"

\* Every call and answer is where S.reload or the actions service sent it.
TokenKnown ==
    \A s \in Service : \A i \in Nat : Token(s, i) =>
       IF reload.active THEN ReloadToken(s, inbox[s][i]) ELSE OtherToken(s, inbox[s][i])

Inv == OneToken /\ Visiting /\ TokenKnown /\ ConfigurationsAgree
-----------------------------------------------------------------------------
(* Types.                                                                  *)

\* A sequence without its first element, by position.
LEMMA Shifted ==
    ASSUME NEW S, NEW q \in Seq(S), q # <<>>
    PROVE  /\ Tail(q) \in Seq(S)
           /\ Head(q) \in S /\ Head(q) = q[1]
           /\ Len(q) \in Nat /\ Len(q) >= 1
           /\ Len(Tail(q)) = Len(q) - 1
           /\ \A i \in 1..(Len(q) - 1) : Tail(q)[i] = q[i + 1]
  OBVIOUS

\* A sequence with one more element, by position.
LEMMA Extended ==
    ASSUME NEW S, NEW q \in Seq(S), NEW m \in S
    PROVE  /\ Append(q, m) \in Seq(S)
           /\ Len(q) \in Nat
           /\ Len(Append(q, m)) = Len(q) + 1
           /\ \A i \in 1..Len(q) : Append(q, m)[i] = q[i]
           /\ Append(q, m)[Len(q) + 1] = m
  OBVIOUS

\* The services are the sources and two more.
LEMMA Services ==
    /\ "state" \in Service /\ "actions" \in Service /\ Source \subseteq Service
    /\ "state" \notin Source /\ "actions" \notin Source
    /\ "reload" \notin Source /\ "rejected" \notin Source
  BY SourceAssumption DEF Service

\* The two values of last_reload_error differ.
LEMMA Errors == NoError # "error"
  BY Zenon DEF NoError

\* The messages by their type.
LEMMA Messages ==
    /\ [type |-> "reload"] \in Message
    /\ [type |-> "dispatch"] \in Message
    /\ [type |-> "reply"] \in Message
    /\ \A c \in 0..MaxEdits : [type |-> "reload", candidate |-> c] \in Message
    /\ \A ok \in BOOLEAN : [type |-> "reloaded", ok |-> ok] \in Message
    /\ \A s \in Source, v \in 0..MaxEvents :
         [type |-> "merge", source |-> s, value |-> v] \in Message
    /\ \A m \in Message : m.type = "merge" => m.source \in Source /\ m.value \in 0..MaxEvents
    /\ \A m \in Message : m.type = "reloaded" => m.ok \in BOOLEAN
  BY DEF Message

\* TypeOK, in three parts.
PublishedOK == published \in [revision : Nat, domain : [Source -> 0..MaxEvents],
                             generation : Nat, error : {NoError, "error"}]
InboxOK == inbox \in [Service -> Seq(Message)]
RestOK ==
    /\ file \in [version : 0..MaxEdits, kind : Kind]
    /\ commands \in Seq(Command)
    /\ submitted \in 0..MaxCommands
    /\ workers \in 1..MaxWorkers
    /\ config \in 0..MaxEdits
    /\ generation \in Nat
    /\ last_reload_error \in {NoError, "error"}
    /\ domain \in [Source -> 0..MaxEvents]
    /\ revision \in Nat
    /\ reload \in [active : BOOLEAN, candidate : 0..MaxEdits, rest : Seq(Source)]
    /\ apc \in {"idle", "calling", "ended"}
    /\ source_config \in [Source -> 0..MaxEdits]
    /\ current \in [Source -> 0..MaxEvents]
    /\ mode \in [Source -> {"ready", "waiting", "requesting"}]

\* What TakeAndSend makes of the inboxes, service by service.
LEMMA Taken ==
    ASSUME InboxOK, NEW s \in Service, NEW d \in Service, s # d, inbox[s] # <<>>,
           NEW msg \in Message, TakeAndSend(s, d, msg)
    PROVE  /\ InboxOK'
           /\ inbox'[s] = Tail(inbox[s])
           /\ inbox'[d] = Append(inbox[d], msg)
           /\ \A t \in Service : t # s /\ t # d => inbox'[t] = inbox[t]
<1>1. /\ inbox[s] \in Seq(Message) /\ inbox[d] \in Seq(Message)
      /\ Tail(inbox[s]) \in Seq(Message) /\ Append(inbox[d], msg) \in Seq(Message)
  BY Shifted, Extended DEF InboxOK
<1>2. inbox' = [t \in Service |-> IF t = s THEN Tail(inbox[s])
                                  ELSE IF t = d THEN Append(inbox[d], msg) ELSE inbox[t]]
  BY DEF InboxOK, TakeAndSend
<1>3. QED
  BY <1>1, <1>2 DEF InboxOK

\* MergeAndPublish keeps the types of the state.
LEMMA MergedTypes ==
    ASSUME RestOK, PublishedOK, NEW dom \in [Source -> 0..MaxEvents], NEW gen \in Nat,
           NEW err \in {NoError, "error"}, MergeAndPublish(dom, gen, err)
    PROVE  /\ domain' \in [Source -> 0..MaxEvents] /\ generation' \in Nat
           /\ last_reload_error' \in {NoError, "error"} /\ revision' \in Nat
           /\ PublishedOK'
           /\ domain' = dom /\ generation' = gen /\ last_reload_error' = err
<1> DEFINE p == [revision |-> revision + 1, domain |-> dom, generation |-> gen,
                 error |-> err]
<1>1. domain' = dom /\ generation' = gen /\ last_reload_error' = err
  BY DEF MergeAndPublish
<1>2. \/ revision' = revision + 1 /\ published' = p
      \/ revision' = revision /\ published' = published
  <2>1. CASE <<dom, gen, err>> = <<domain, generation, last_reload_error>>
    BY <2>1, Zenon DEF MergeAndPublish
  <2>2. CASE <<dom, gen, err>> # <<domain, generation, last_reload_error>>
    BY <2>2, Zenon DEF MergeAndPublish
  <2>3. QED
    BY <2>1, <2>2
<1>3. revision \in Nat /\ revision + 1 \in Nat
  BY DEF RestOK
<1>4. p \in [revision : Nat, domain : [Source -> 0..MaxEvents],
             generation : Nat, error : {NoError, "error"}]
  BY <1>3
<1>5. QED
  BY <1>1, <1>2, <1>3, <1>4, Zenon DEF PublishedOK

\* The three parts are TypeOK.
LEMMA TypeParts == TypeOK <=> InboxOK /\ RestOK /\ PublishedOK
  BY Zenon DEF TypeOK, InboxOK, RestOK, PublishedOK

\* An inbox after one more message.
LEMMA Sent ==
    ASSUME InboxOK, NEW d \in Service, NEW msg \in Message,
           inbox' = [inbox EXCEPT ![d] = Append(@, msg)]
    PROVE  /\ InboxOK'
           /\ inbox'[d] = Append(inbox[d], msg)
           /\ \A t \in Service : t # d => inbox'[t] = inbox[t]
  BY Extended DEF InboxOK

\* An inbox after its first message is handled.
LEMMA Handled ==
    ASSUME InboxOK, NEW s \in Service, inbox[s] # <<>>,
           inbox' = [inbox EXCEPT ![s] = Tail(@)]
    PROVE  /\ InboxOK'
           /\ inbox'[s] = Tail(inbox[s])
           /\ \A t \in Service : t # s => inbox'[t] = inbox[t]
  BY Shifted DEF InboxOK

\* The first message of an inbox is a message.
LEMMA FirstMessage ==
    ASSUME InboxOK, NEW s \in Service, NEW type, NextMessage(s, type)
    PROVE  /\ inbox[s] # <<>> /\ inbox[s] \in Seq(Message)
           /\ Head(inbox[s]) \in Message /\ Head(inbox[s]).type = type
           /\ Head(inbox[s]) = inbox[s][1] /\ 1 \in 1..Len(inbox[s])
<1>1. inbox[s] # <<>> /\ inbox[s] \in Seq(Message) /\ Head(inbox[s]).type = type
  BY DEF InboxOK, NextMessage
<1>2. QED
  BY <1>1, Shifted

\* A reload that a source takes carries the candidate of S.reload.
LEMMA SourceCandidate ==
    ASSUME InboxOK, TokenKnown, NEW s \in Source, NextMessage(s, "reload")
    PROVE  /\ reload.active
           /\ s = ReloadOrder[Called]
           /\ Head(inbox[s]).candidate = reload.candidate
<1>1. s \in Service /\ s # "state" /\ s # "actions"
  BY Services
<1>2. Token(s, 1) /\ Head(inbox[s]) = inbox[s][1] /\ inbox[s][1].type = "reload"
  BY <1>1, FirstMessage DEF Token
<1>3. IF reload.active THEN ReloadToken(s, inbox[s][1]) ELSE OtherToken(s, inbox[s][1])
  BY <1>1, <1>2 DEF TokenKnown
<1>4. QED
  BY <1>1, <1>2, <1>3 DEF ReloadToken, OtherToken

\* The end of a reload keeps the types.
LEMMA ReloadTypes ==
    ASSUME InboxOK, RestOK, PublishedOK, inbox["state"] # <<>>,
           \/ ReloadFailed
           \/ \E c \in 0..MaxEdits : \E rest \in Seq(Source) : CallNextSource(c, rest),
           UNCHANGED <<environment, apc, sourceVars>>
    PROVE  InboxOK' /\ RestOK' /\ PublishedOK'
<1> USE Services
<1>1. NoReload \in [active : BOOLEAN, candidate : 0..MaxEdits, rest : Seq(Source)]
  BY BoundAssumption DEF NoReload
<1>2. ASSUME NEW gen \in Nat, NEW err \in {NoError, "error"}, MergeAndPublish(domain, gen, err),
             reload' = NoReload, TakeAndSend("state", "actions", [type |-> "reply"]),
             config' \in 0..MaxEdits
      PROVE  InboxOK' /\ RestOK' /\ PublishedOK'
  <2>1. InboxOK'
    BY <1>2, Messages, Taken
  <2>2. domain \in [Source -> 0..MaxEvents]
    BY DEF RestOK
  <2>3. PublishedOK' /\ domain' \in [Source -> 0..MaxEvents] /\ generation' \in Nat
        /\ last_reload_error' \in {NoError, "error"} /\ revision' \in Nat
    BY <1>2, <2>2, MergedTypes
  <2>4. RestOK'
    BY <1>1, <1>2, <2>3 DEF RestOK, environment, sourceVars
  <2>5. QED
    BY <2>1, <2>3, <2>4
<1>3. CASE ReloadFailed
  <2>1. generation \in Nat /\ config \in 0..MaxEdits
    BY DEF RestOK
  <2>2. QED
    BY <1>2, <1>3, <2>1 DEF ReloadFailed
<1>4. ASSUME NEW c \in 0..MaxEdits, NEW rest \in Seq(Source), CallNextSource(c, rest)
      PROVE  InboxOK' /\ RestOK' /\ PublishedOK'
  <2>1. CASE rest = <<>>
    <3>1. generation + 1 \in Nat
      BY DEF RestOK
    <3>2. QED
      BY <1>2, <1>4, <2>1, <3>1 DEF CallNextSource, ReloadSucceeds
  <2>2. CASE rest # <<>>
    <3>1. Head(rest) \in Source /\ Tail(rest) \in Seq(Source)
      BY <2>2, Shifted
    <3>2. /\ reload' = [active |-> TRUE, candidate |-> c, rest |-> Tail(rest)]
          /\ TakeAndSend("state", Head(rest), [type |-> "reload", candidate |-> c])
          /\ UNCHANGED <<config, generation, last_reload_error, domain, revision, published>>
      BY <1>4, <2>2 DEF CallNextSource
    <3>3. InboxOK'
      BY <3>1, <3>2, Messages, Taken
    <3>4. RestOK' /\ PublishedOK'
      BY <3>1, <3>2 DEF RestOK, PublishedOK, environment, sourceVars
    <3>5. QED
      BY <3>3, <3>4
  <2>3. QED
    BY <2>1, <2>2
<1>5. QED
  BY <1>3, <1>4

\* Every step keeps the types.
LEMMA TypeStep ==
    ASSUME TypeOK, TokenKnown, [Next]_vars
    PROVE  TypeOK'
<1>0. InboxOK /\ RestOK /\ PublishedOK
  BY TypeParts
<1> SUFFICES InboxOK' /\ RestOK' /\ PublishedOK'
  BY TypeParts, PTL
<1> USE Services, BoundAssumption
<1>1. CASE UNCHANGED vars \/ Quiet
  <2>1. UNCHANGED vars
    BY <1>1 DEF Quiet
  <2>2. QED
    BY <1>0, <2>1 DEF vars, environment, stateVars, sourceVars, InboxOK, RestOK, PublishedOK
<1>2. CASE EditFile
  <2>1. InboxOK'
    BY <1>0, <1>2 DEF EditFile, InboxOK, stateVars, sourceVars
  <2>2. RestOK'
    BY <1>0, <1>2 DEF EditFile, RestOK, stateVars, sourceVars, Kind
  <2>3. PublishedOK'
    BY <1>0, <1>2 DEF EditFile, PublishedOK, stateVars, sourceVars
  <2>4. QED
    BY <2>1, <2>2, <2>3
<1>3. CASE Submit
  <2>1. PICK c \in Command : commands' = Append(commands, c)
    BY <1>3 DEF Submit
  <2>2. commands' \in Seq(Command)
    BY <1>0, <2>1, Extended DEF RestOK
  <2>3. submitted' \in 0..MaxCommands
    BY <1>0, <1>3 DEF Submit, RestOK
  <2>4. /\ UNCHANGED <<file, workers, inbox, stateVars, apc, sourceVars>>
    BY <1>3 DEF Submit
  <2>5. QED
    BY <1>0, <2>2, <2>3, <2>4 DEF InboxOK, RestOK, PublishedOK, stateVars, sourceVars
<1>4. CASE PopAction
  <2>1. InboxOK' /\ apc' \in {"idle", "calling", "ended"}
    <3>1. CASE UNCHANGED inbox /\ apc' \in {apc, "ended"}
      BY <1>0, <3>1 DEF InboxOK, RestOK
    <3>2. CASE inbox' = [inbox EXCEPT !["state"] = Append(@, [type |-> "reload"])]
               /\ apc' = Calling
      BY <1>0, <3>2, Sent, Messages DEF Calling
    <3>3. CASE /\ Head(commands) \in Source
               /\ inbox' = [inbox EXCEPT ![Head(commands)] = Append(@, [type |-> "dispatch"])]
               /\ apc' = Calling
      BY <1>0, <3>3, Sent, Messages DEF Calling
    <3>4. QED
      BY <1>4, <3>1, <3>2, <3>3 DEF PopAction
  <2>2. commands' \in Seq(Command)
    BY <1>0, <1>4, Shifted DEF PopAction, RestOK
  <2>3. QED
    BY <1>0, <1>4, <2>1, <2>2 DEF PopAction, RestOK, PublishedOK, stateVars, sourceVars
<1>5. CASE CallReturns
  <2>1. InboxOK'
    BY <1>0, <1>5, FirstMessage, Handled DEF CallReturns
  <2>2. QED
    BY <1>0, <1>5, <2>1 DEF CallReturns, RestOK, PublishedOK, environment, stateVars, sourceVars
<1>6. CASE StateMerge
  <2> DEFINE m == Head(inbox["state"])
  <2>1. m \in Message /\ m.type = "merge" /\ inbox["state"] # <<>>
    BY <1>0, <1>6, FirstMessage DEF StateMerge
  <2>2. Merged(m) \in [Source -> 0..MaxEvents]
    BY <1>0, <2>1, Messages DEF Merged, RestOK
  <2>3. generation \in Nat /\ last_reload_error \in {NoError, "error"}
    BY <1>0 DEF RestOK
  <2>4. /\ domain' \in [Source -> 0..MaxEvents] /\ generation' \in Nat
        /\ last_reload_error' \in {NoError, "error"} /\ revision' \in Nat
        /\ PublishedOK'
    <3>1. MergeAndPublish(Merged(m), generation, last_reload_error)
      BY <1>6 DEF StateMerge
    <3> HIDE DEF m
    <3>2. QED
      BY <1>0, <2>2, <2>3, <3>1, MergedTypes
  <2>5. InboxOK'
    BY <1>0, <1>6, <2>1, Handled DEF StateMerge
  <2>6. QED
    BY <1>0, <1>6, <2>4, <2>5 DEF StateMerge, RestOK, environment, sourceVars
<1>7. CASE StateReload
  <2>1. inbox["state"] # <<>>
    BY <1>0, <1>7, FirstMessage DEF StateReload
  <2>2. Candidate \in 0..MaxEdits /\ ReloadOrder \in Seq(Source)
    BY <1>0, SourceAssumption DEF RestOK, Candidate
  <2>3. QED
    BY <1>0, <1>7, <2>1, <2>2, ReloadTypes DEF StateReload
<1>8. CASE StateReloadGoesOn
  <2>1. inbox["state"] # <<>>
    BY <1>0, <1>8, FirstMessage DEF StateReloadGoesOn
  <2>2. reload.candidate \in 0..MaxEdits /\ reload.rest \in Seq(Source)
    BY <1>0 DEF RestOK
  <2>3. QED
    BY <1>0, <1>8, <2>1, <2>2, ReloadTypes DEF StateReloadGoesOn
<1>9. ASSUME NEW s \in Source, SourceReload(s)
      PROVE  InboxOK' /\ RestOK' /\ PublishedOK'
  <2>1. PICK ok \in BOOLEAN :
          /\ source_config' = IF ok THEN [source_config EXCEPT ![s] = Head(inbox[s]).candidate]
                              ELSE source_config
          /\ TakeAndSend(s, "state", [type |-> "reloaded", ok |-> ok])
    BY <1>9, SourceAssumption DEF SourceReload
  <2>2. Head(inbox[s]).candidate \in 0..MaxEdits /\ inbox[s] # <<>>
    <3>1. Head(inbox[s]).candidate = reload.candidate /\ inbox[s] # <<>>
      BY <1>0, <1>9, SourceCandidate, FirstMessage DEF SourceReload
    <3>2. QED
      BY <1>0, <3>1 DEF RestOK
  <2>3. source_config' \in [Source -> 0..MaxEdits]
    BY <1>0, <2>1, <2>2 DEF RestOK
  <2>4. InboxOK'
    BY <1>0, <2>1, <2>2, Messages, Taken
  <2>5. QED
    BY <1>0, <1>9, <2>3, <2>4 DEF SourceReload, RestOK, PublishedOK, environment, stateVars
<1>10. ASSUME NEW s \in Source, SourceDispatch(s)
       PROVE  InboxOK' /\ RestOK' /\ PublishedOK'
  <2>1. inbox[s] # <<>> /\ inbox[s] \in Seq(Message)
    BY <1>0, <1>10, FirstMessage DEF SourceDispatch
  <2>2. CASE TakeAndSend(s, "actions", [type |-> "reply"]) /\ UNCHANGED current
    <3>1. InboxOK'
      BY <1>0, <2>1, <2>2, Messages, Taken
    <3>2. QED
      BY <1>0, <1>10, <2>2, <3>1
        DEF SourceDispatch, RestOK, PublishedOK, environment, stateVars
  <2>3. CASE /\ current[s] < MaxEvents
             /\ current' = [current EXCEPT ![s] = @ + 1]
             /\ inbox' = [inbox EXCEPT ![s] = Tail(@),
                                       !["state"] = Append(@, News(s)),
                                       !["actions"] = Append(@, [type |-> "reply"])]
    <3>1. current[s] + 1 \in 0..MaxEvents /\ current' \in [Source -> 0..MaxEvents]
      BY <1>0, <2>3 DEF RestOK
    <3>2. News(s) \in Message
      BY <3>1, Messages DEF News
    <3>3. inbox' = [t \in Service |-> IF t = s THEN Tail(inbox[s])
                                      ELSE IF t = "state" THEN Append(inbox["state"], News(s))
                                      ELSE IF t = "actions"
                                      THEN Append(inbox["actions"], [type |-> "reply"])
                                      ELSE inbox[t]]
      BY <1>0, <2>3 DEF InboxOK
    <3>4. InboxOK'
      BY <1>0, <2>1, <3>2, <3>3, Messages, Shifted, Extended DEF InboxOK
    <3>5. QED
      BY <1>0, <1>10, <3>1, <3>4
        DEF SourceDispatch, RestOK, PublishedOK, environment, stateVars
  <2>4. QED
    BY <1>10, <2>2, <2>3 DEF SourceDispatch
<1>11. ASSUME NEW s \in Source, SourceBlocks(s) \/ SourceWakes(s) \/ RequestEnds(s)
       PROVE  InboxOK' /\ RestOK' /\ PublishedOK'
  BY <1>0, <1>11 DEF SourceBlocks, SourceWakes, RequestEnds, InboxOK, RestOK, PublishedOK,
       environment, stateVars
<1>12. ASSUME NEW s \in Source, SourceReports(s)
       PROVE  InboxOK' /\ RestOK' /\ PublishedOK'
  <2>1. /\ current[s] + 1 \in 0..MaxEvents /\ current' \in [Source -> 0..MaxEvents]
        /\ mode' \in [Source -> {"ready", "waiting", "requesting"}]
    BY <1>0, <1>12 DEF RestOK, SourceReports
  <2>2. News(s) \in Message
    BY <2>1, Messages DEF News
  <2>3. InboxOK'
    BY <1>0, <1>12, <2>2, Sent DEF SourceReports
  <2>4. QED
    BY <1>0, <1>12, <2>1, <2>3 DEF SourceReports, RestOK, PublishedOK, environment, stateVars
<1>13. QED
  BY <1>1, <1>2, <1>3, <1>4, <1>5, <1>6, <1>7, <1>8, <1>9, <1>10, <1>11, <1>12
    DEF Next, ActionsService, StateService, Handles

-----------------------------------------------------------------------------
(* The call or answer that is under way.                                   *)

\* The only one under way is msg, the last message for d.
Lone(d, msg) ==
    \A t \in Service : \A i \in Nat :
       Token(t, i) => t = d /\ i = Len(inbox[d]) /\ inbox[t][i] = msg

\* What is left of an inbox after its first message was there before.
LEMMA TokenShift ==
    ASSUME InboxOK, NEW s \in Service, inbox[s] # <<>>, inbox'[s] = Tail(inbox[s]),
           NEW i \in Nat, Token(s, i)'
    PROVE  /\ Token(s, i + 1) /\ inbox'[s][i] = inbox[s][i + 1]
           /\ i + 1 \in Nat /\ i + 1 # 1
<1>1. inbox[s] \in Seq(Message)
  BY DEF InboxOK
<1>2. Len(inbox[s]) \in Nat /\ Len(inbox'[s]) = Len(inbox[s]) - 1
  BY <1>1, Shifted
<1>3. i \in 1..(Len(inbox[s]) - 1) /\ inbox'[s][i].type # "merge"
  BY <1>2 DEF Token
<1>4. i + 1 \in 1..Len(inbox[s]) /\ i + 1 \in Nat /\ i + 1 # 1
  BY <1>2, <1>3
<1>5. \A j \in 1..(Len(inbox[s]) - 1) : Tail(inbox[s])[j] = inbox[s][j + 1]
  BY <1>1, Shifted
<1>6. inbox'[s][i] = inbox[s][i + 1]
  BY <1>3, <1>5
<1>7. QED
  BY <1>3, <1>4, <1>6 DEF Token

\* What is in an inbox that got a message was there before or is that message.
LEMMA TokenAppend ==
    ASSUME InboxOK, NEW d \in Service, NEW msg \in Message,
           inbox'[d] = Append(inbox[d], msg), NEW i \in Nat, Token(d, i)'
    PROVE  \/ Token(d, i) /\ inbox'[d][i] = inbox[d][i]
           \/ i = Len(inbox'[d]) /\ inbox'[d][i] = msg /\ msg.type # "merge"
<1>1. inbox[d] \in Seq(Message)
  BY DEF InboxOK
<1>2. /\ Len(inbox[d]) \in Nat /\ Len(inbox'[d]) = Len(inbox[d]) + 1
      /\ \A j \in 1..Len(inbox[d]) : inbox'[d][j] = inbox[d][j]
      /\ inbox'[d][Len(inbox[d]) + 1] = msg
  BY <1>1, Extended
<1>3. i \in 1..(Len(inbox[d]) + 1) /\ inbox'[d][i].type # "merge"
  BY <1>2 DEF Token
<1>4. CASE i \in 1..Len(inbox[d])
  BY <1>2, <1>3, <1>4 DEF Token
<1>5. CASE i = Len(inbox[d]) + 1
  BY <1>2, <1>3, <1>5
<1>6. QED
  BY <1>2, <1>3, <1>4, <1>5

\* An inbox that stays the same keeps what is under way.
LEMMA TokenSame ==
    ASSUME NEW t \in Service, inbox'[t] = inbox[t], NEW i \in Nat, Token(t, i)'
    PROVE  Token(t, i) /\ inbox'[t][i] = inbox[t][i]
  BY DEF Token

\* Handling the one under way and sending another leaves that one.
LEMMA TokenMoved ==
    ASSUME InboxOK, OneToken, NEW s \in Service, NEW d \in Service, s # d, Token(s, 1),
           NEW msg \in Message, TakeAndSend(s, d, msg)
    PROVE  Lone(d, msg)'
<1>1. inbox[s] # <<>>
  BY DEF Token
<1>2. /\ inbox'[s] = Tail(inbox[s])
      /\ inbox'[d] = Append(inbox[d], msg)
      /\ \A t \in Service : t # s /\ t # d => inbox'[t] = inbox[t]
  BY <1>1, Taken
<1>3. \A t \in Service : \A i \in Nat : Token(t, i) => t = s /\ i = 1
  BY DEF OneToken
<1>4. ASSUME NEW t \in Service, NEW i \in Nat, Token(t, i)'
      PROVE  t = d /\ i = Len(inbox'[d]) /\ inbox'[t][i] = msg
  <2>1. CASE t = s
    BY <1>1, <1>2, <1>3, <1>4, <2>1, TokenShift
  <2>2. CASE t = d
    BY <1>2, <1>3, <1>4, <2>2, TokenAppend
  <2>3. CASE t # s /\ t # d
    BY <1>2, <1>3, <1>4, <2>3, TokenSame
  <2>4. QED
    BY <2>1, <2>2, <2>3
<1>5. QED
  BY <1>4 DEF Lone

\* A call that is sent while nothing is under way is the only one.
LEMMA TokenSent ==
    ASSUME InboxOK, \A t \in Service : \A i \in Nat : ~Token(t, i),
           NEW d \in Service, NEW msg \in Message,
           inbox' = [inbox EXCEPT ![d] = Append(@, msg)]
    PROVE  Lone(d, msg)'
<1>1. /\ inbox'[d] = Append(inbox[d], msg)
      /\ \A t \in Service : t # d => inbox'[t] = inbox[t]
  BY Sent
<1>2. ASSUME NEW t \in Service, NEW i \in Nat, Token(t, i)'
      PROVE  t = d /\ i = Len(inbox'[d]) /\ inbox'[t][i] = msg
  <2>1. CASE t = d
    BY <1>1, <1>2, <2>1, TokenAppend
  <2>2. CASE t # d
    BY <1>1, <1>2, <2>2, TokenSame
  <2>3. QED
    BY <2>1, <2>2
<1>3. QED
  BY <1>2 DEF Lone

\* Handling the one under way leaves none.
LEMMA TokenGone ==
    ASSUME InboxOK, OneToken, NEW s \in Service, Token(s, 1),
           inbox' = [inbox EXCEPT ![s] = Tail(@)]
    PROVE  \A t \in Service : \A i \in Nat : ~Token(t, i)'
<1>1. inbox[s] # <<>>
  BY DEF Token
<1>2. inbox'[s] = Tail(inbox[s]) /\ \A t \in Service : t # s => inbox'[t] = inbox[t]
  BY <1>1, Handled
<1>3. \A t \in Service : \A i \in Nat : Token(t, i) => t = s /\ i = 1
  BY DEF OneToken
<1>4. ASSUME NEW t \in Service, NEW i \in Nat, Token(t, i)'
      PROVE  FALSE
  <2>1. CASE t = s
    BY <1>1, <1>2, <1>3, <1>4, <2>1, TokenShift
  <2>2. CASE t # s
    BY <1>2, <1>3, <1>4, <2>2, TokenSame
  <2>3. QED
    BY <2>1, <2>2
<1>5. QED
  BY <1>4

\* One call or answer under way, in its place, is what the invariant wants.
LEMMA LoneToken ==
    ASSUME NEW d \in Service, NEW msg, Lone(d, msg)', apc' = "calling",
           reload.active' => ReloadToken(d, msg)',
           ~reload.active' => OtherToken(d, msg)'
    PROVE  OneToken' /\ TokenKnown'
<1>1. \A t \in Service : \A i \in Nat :
        Token(t, i)' => t = d /\ i = Len(inbox'[d]) /\ inbox'[t][i] = msg
  BY DEF Lone
<1>2. OneToken'
  BY <1>1 DEF OneToken
<1>3. TokenKnown'
  BY <1>1 DEF TokenKnown
<1>4. QED
  BY <1>2, <1>3

\* The first message of an inbox that is a call or an answer is the one under
\* way; the actions service waits for it.
LEMMA FirstToken ==
    ASSUME InboxOK, OneToken, TokenKnown, NEW s \in Service, NEW type, type # "merge",
           NextMessage(s, type)
    PROVE  /\ Token(s, 1) /\ apc = "calling"
           /\ Head(inbox[s]).type = type
           /\ IF reload.active THEN ReloadToken(s, Head(inbox[s]))
              ELSE OtherToken(s, Head(inbox[s]))
<1>1. Token(s, 1) /\ Head(inbox[s]) = inbox[s][1] /\ Head(inbox[s]).type = type
  BY FirstMessage DEF Token
<1>2. QED
  BY <1>1 DEF OneToken, TokenKnown

-----------------------------------------------------------------------------
(* The invariant.                                                          *)

\* A step that only reports or merges news, or blocks or wakes a source: what
\* is under way moves up at most.
LEMMA Carried ==
    ASSUME Inv, UNCHANGED <<apc, reload, source_config, config, last_reload_error>>,
           \A t \in Service : \A i \in Nat : Token(t, i)' =>
              \E j \in Nat : Token(t, j) /\ inbox'[t][i] = inbox[t][j],
           \A t \in Service : \A i, j \in Nat : Token(t, i)' /\ Token(t, j)' => i = j
    PROVE  Inv'
<1>1. Visiting' /\ ConfigurationsAgree'
  BY DEF Inv, Visiting, ConfigurationsAgree, Called
<1>2. OneToken'
  <2>1. /\ \A s, t \in Service : \A i, j \in Nat : Token(s, i) /\ Token(t, j) => s = t
        /\ apc # "calling" => ~reload.active /\ \A s \in Service : \A i \in Nat : ~Token(s, i)
    BY DEF Inv, OneToken
  <2>2. QED
    BY <2>1 DEF OneToken
<1>3. ASSUME NEW t \in Service, NEW i \in Nat, Token(t, i)'
      PROVE  (IF reload.active THEN ReloadToken(t, inbox[t][i])
              ELSE OtherToken(t, inbox[t][i]))'
  <2>1. PICK j \in Nat : Token(t, j) /\ inbox'[t][i] = inbox[t][j]
    BY <1>3
  <2>2. IF reload.active THEN ReloadToken(t, inbox[t][j]) ELSE OtherToken(t, inbox[t][j])
    BY <2>1 DEF Inv, TokenKnown
  <2>3. QED
    BY <2>1, <2>2 DEF ReloadToken, OtherToken, Called
<1>4. QED
  BY <1>1, <1>2, <1>3 DEF Inv, TokenKnown

\* No reload is under way when the actions service is idle, a dispatch is
\* handled, a reply returned, or S.reload begins.
LEMMA NotActive ==
    ASSUME TypeOK, Inv, NEW s \in Service,
           \/ NextMessage(s, "reply") \/ NextMessage(s, "dispatch")
           \/ s = "state" /\ NextMessage(s, "reload")
    PROVE  ~reload.active
<1>1. PICK type \in {"reply", "dispatch", "reload"} :
         NextMessage(s, type) /\ (type = "reload" => s = "state")
  OBVIOUS
<1>2. /\ Head(inbox[s]).type = type
      /\ reload.active => ReloadToken(s, Head(inbox[s]))
  BY <1>1, TypeParts, FirstToken DEF Inv
<1>3. reload.active => ReloadOrder[Called] \in Source
  BY SourceAssumption DEF Inv, Visiting
<1>4. QED
  BY <1>1, <1>2, <1>3, Services DEF ReloadToken

\* The actions service takes a command.
LEMMA PopKeeps ==
    ASSUME TypeOK, Inv, PopAction
    PROVE  Inv'
<1> USE Services
<1>1. ~reload.active /\ \A t \in Service : \A i \in Nat : ~Token(t, i)
  BY DEF PopAction, Inv, OneToken
<1>2. InboxOK
  BY TypeParts
<1>3. Visiting' /\ ConfigurationsAgree'
  BY <1>1 DEF PopAction, Inv, Visiting, ConfigurationsAgree, stateVars, sourceVars
<1>4. ~reload.active'
  BY <1>1 DEF PopAction, stateVars
<1>5. ASSUME NEW d \in Service, NEW msg \in Message,
             inbox' = [inbox EXCEPT ![d] = Append(@, msg)], apc' = Calling,
             OtherToken(d, msg)
      PROVE  Inv'
  <2>1. Lone(d, msg)'
    BY <1>1, <1>2, <1>5, TokenSent
  <2>2. OneToken' /\ TokenKnown'
    BY <1>4, <1>5, <2>1, LoneToken DEF Calling, OtherToken
  <2>3. QED
    BY <1>3, <2>2 DEF Inv
<1>6. CASE UNCHANGED inbox /\ apc' \in {apc, "ended"}
  <2>1. OneToken' /\ TokenKnown'
    BY <1>1, <1>4, <1>6 DEF OneToken, TokenKnown, Token
  <2>2. QED
    BY <1>3, <2>1 DEF Inv
<1>7. CASE /\ inbox' = [inbox EXCEPT !["state"] = Append(@, [type |-> "reload"])]
           /\ apc' = Calling
  BY <1>5, <1>7, Messages DEF OtherToken
<1>8. CASE /\ Head(commands) \in Source
           /\ inbox' = [inbox EXCEPT ![Head(commands)] = Append(@, [type |-> "dispatch"])]
           /\ apc' = Calling
  BY <1>5, <1>8, Messages DEF OtherToken
<1>9. QED
  BY <1>6, <1>7, <1>8 DEF PopAction

\* The actions service gets its answer.
LEMMA ReturnKeeps ==
    ASSUME TypeOK, Inv, CallReturns
    PROVE  Inv'
<1>1. Token("actions", 1) /\ ~reload.active /\ InboxOK
  BY Services, TypeParts, FirstToken, NotActive DEF CallReturns, Inv
<1>2. \A t \in Service : \A i \in Nat : ~Token(t, i)'
  BY <1>1, Services, TokenGone DEF CallReturns, Inv
<1>3. ~reload.active'
  BY <1>1 DEF CallReturns, stateVars
<1>4. OneToken' /\ TokenKnown'
  BY <1>2, <1>3 DEF OneToken, TokenKnown
<1>5. Visiting' /\ ConfigurationsAgree'
  BY <1>1 DEF CallReturns, Inv, Visiting, ConfigurationsAgree, stateVars, sourceVars
<1>6. QED
  BY <1>4, <1>5 DEF Inv

\* A step that makes a new generation.
Applied ==
    generation' # generation =>
      /\ generation' = generation + 1
      /\ last_reload_error' = NoError
      /\ \A s \in Source : source_config[s] = config'

\* The end of S.reload: the answer is the only thing under way, and what holds
\* then is up to the configurations.
LEMMA ReloadEnds ==
    ASSUME InboxOK, OneToken, Token("state", 1), apc = "calling", UNCHANGED apc,
           reload' = NoReload, TakeAndSend("state", "actions", [type |-> "reply"]),
           ConfigurationsAgree'
    PROVE  Inv'
<1>1. Lone("actions", [type |-> "reply"])'
  BY Services, Messages, TokenMoved
<1>2. ~reload.active'
  BY DEF NoReload
<1>3. OneToken' /\ TokenKnown'
  BY <1>1, <1>2, Services, LoneToken DEF OtherToken
<1>4. Visiting'
  BY <1>2 DEF Visiting
<1>5. QED
  BY <1>3, <1>4 DEF Inv

\* S.reload fails: nothing changed if the file was rejected, and only a
\* source that may fail ends it later.
LEMMA FailKeeps ==
    ASSUME TypeOK, Inv, Token("state", 1), ReloadFailed, UNCHANGED <<apc, sourceVars>>,
           apc = "calling", ~reload.active \/ ReloadMayFail
    PROVE  Inv' /\ Applied
<1>1. /\ last_reload_error' = "error" /\ generation' = generation
      /\ config' = config /\ source_config' = source_config
  BY DEF ReloadFailed, MergeAndPublish, sourceVars
<1>2. ConfigurationsAgree'
  BY <1>1, Errors DEF Inv, ConfigurationsAgree
<1>3. QED
  BY <1>1, <1>2, TypeParts, ReloadEnds DEF ReloadFailed, Inv, Applied

\* S.reload succeeds when every source has switched.
LEMMA SuccessKeeps ==
    ASSUME TypeOK, Inv, Token("state", 1), UNCHANGED <<apc, sourceVars>>, apc = "calling",
           NEW c, ReloadSucceeds(c), \A s \in Source : source_config[s] = c
    PROVE  Inv' /\ Applied
<1>1. /\ last_reload_error' = NoError /\ generation' = generation + 1
      /\ config' = c /\ source_config' = source_config
  BY DEF ReloadSucceeds, MergeAndPublish, sourceVars
<1>2. ConfigurationsAgree'
  BY <1>1 DEF ConfigurationsAgree
<1>3. QED
  BY <1>1, <1>2, TypeParts, ReloadEnds DEF ReloadSucceeds, Inv, Applied

\* S.reload calls the source at position n.
LEMMA CallKeeps ==
    ASSUME TypeOK, Inv, Token("state", 1), UNCHANGED <<apc, sourceVars>>, apc = "calling",
           NEW c, c \in 0..MaxEdits, NEW rest \in Seq(Source), rest # <<>>,
           CallNextSource(c, rest), NEW n \in 1..Len(ReloadOrder),
           Len(rest) = Len(ReloadOrder) - n + 1,
           \A i \in 1..Len(rest) : rest[i] = ReloadOrder[n - 1 + i],
           \A i \in 1..Len(ReloadOrder) : i < n => source_config[ReloadOrder[i]] = c
    PROVE  Inv' /\ Applied
<1>1. /\ reload' = [active |-> TRUE, candidate |-> c, rest |-> Tail(rest)]
      /\ TakeAndSend("state", Head(rest), [type |-> "reload", candidate |-> c])
      /\ generation' = generation
  BY DEF CallNextSource
<1>2. /\ Head(rest) \in Source /\ Head(rest) = rest[1]
      /\ Len(rest) \in Nat /\ Len(rest) >= 1 /\ Len(Tail(rest)) = Len(rest) - 1
      /\ \A i \in 1..(Len(rest) - 1) : Tail(rest)[i] = rest[i + 1]
  BY Shifted
<1>3. Len(ReloadOrder) \in Nat
  BY SourceAssumption
<1>4. Called' = n
  BY <1>1, <1>2, <1>3 DEF Called
<1>5. Head(rest) = ReloadOrder[n]
  BY <1>2, <1>3
<1>6. \A i \in 1..Len(Tail(rest)) : Tail(rest)[i] = ReloadOrder[n + i]
  <2>1. ASSUME NEW i \in 1..Len(Tail(rest))
        PROVE  Tail(rest)[i] = ReloadOrder[n + i]
    <3>1. i \in 1..(Len(rest) - 1) /\ i + 1 \in 1..Len(rest) /\ n - 1 + (i + 1) = n + i
      BY <1>2, <1>3
    <3>2. rest[i + 1] = ReloadOrder[n - 1 + (i + 1)]
      BY <3>1
    <3>3. QED
      BY <1>2, <3>1, <3>2
  <2>2. QED
    BY <2>1
<1>7. Visiting'
  BY <1>1, <1>4, <1>6 DEF Visiting, sourceVars
<1>8. Lone(Head(rest), [type |-> "reload", candidate |-> c])'
  BY <1>1, <1>2, Services, Messages, TypeParts, TokenMoved DEF Inv
<1>9. ReloadToken(Head(rest), [type |-> "reload", candidate |-> c])'
  BY <1>1, <1>4, <1>5 DEF ReloadToken
<1>10. OneToken' /\ TokenKnown'
  BY <1>1, <1>2, <1>8, <1>9, Services, LoneToken
<1>11. QED
  BY <1>1, <1>7, <1>10 DEF Inv, ConfigurationsAgree, Applied

\* S.reload begins.
LEMMA ReloadKeeps ==
    ASSUME TypeOK, Inv, StateReload
    PROVE  Inv' /\ Applied
<1>1. /\ Token("state", 1) /\ apc = "calling" /\ ~reload.active
      /\ UNCHANGED <<apc, sourceVars>>
  BY Services, TypeParts, FirstToken, NotActive DEF StateReload, Inv
<1>2. CASE file.kind # "valid"
  BY <1>1, <1>2, FailKeeps DEF StateReload
<1>3. CASE file.kind = "valid" /\ ReloadOrder = <<>>
  <2>1. Source = {}
    BY <1>3 DEF Source
  <2>2. ReloadSucceeds(Candidate)
    BY <1>3 DEF StateReload, CallNextSource
  <2>3. QED
    BY <1>1, <2>1, <2>2, SuccessKeeps
<1>4. CASE file.kind = "valid" /\ ReloadOrder # <<>>
  <2>1. /\ ReloadOrder \in Seq(Source) /\ Len(ReloadOrder) \in Nat
        /\ 1 \in 1..Len(ReloadOrder)
    BY <1>4, SourceAssumption, Shifted
  <2>2. Candidate \in 0..MaxEdits /\ CallNextSource(Candidate, ReloadOrder)
    BY <1>4 DEF StateReload, TypeOK, Candidate
  <2>3. /\ Len(ReloadOrder) = Len(ReloadOrder) - 1 + 1
        /\ \A i \in 1..Len(ReloadOrder) : ReloadOrder[i] = ReloadOrder[1 - 1 + i]
        /\ \A i \in 1..Len(ReloadOrder) : ~(i < 1)
    BY <2>1
  <2>4. QED
    BY <1>1, <1>4, <2>1, <2>2, <2>3, CallKeeps
<1>5. QED
  BY <1>2, <1>3, <1>4

\* S.reload goes on after a source's answer.
LEMMA GoesOnKeeps ==
    ASSUME TypeOK, Inv, StateReloadGoesOn
    PROVE  Inv' /\ Applied
<1> DEFINE m == Head(inbox["state"])
<1>1. /\ Token("state", 1) /\ apc = "calling" /\ m.type = "reloaded"
      /\ IF reload.active THEN ReloadToken("state", m) ELSE OtherToken("state", m)
  BY Services, TypeParts, FirstToken DEF StateReloadGoesOn, Inv
<1>2. /\ reload.active
      /\ m.ok => source_config[ReloadOrder[Called]] = reload.candidate
      /\ ~m.ok => ReloadMayFail
  BY <1>1 DEF ReloadToken, OtherToken
<1>3. UNCHANGED <<apc, sourceVars>>
  BY DEF StateReloadGoesOn
<1>4. CASE ~m.ok
  BY <1>1, <1>2, <1>3, <1>4, FailKeeps DEF StateReloadGoesOn, Reloaded
<1>5. CASE m.ok
  <2>1. CallNextSource(reload.candidate, reload.rest)
    BY <1>5 DEF StateReloadGoesOn, Reloaded
  <2>2. /\ Called \in 1..Len(ReloadOrder)
        /\ \A i \in 1..Len(reload.rest) : reload.rest[i] = ReloadOrder[Called + i]
        /\ \A i \in 1..Len(ReloadOrder) :
             i < Called => source_config[ReloadOrder[i]] = reload.candidate
    BY <1>2 DEF Inv, Visiting
  <2>3. /\ reload.candidate \in 0..MaxEdits /\ reload.rest \in Seq(Source)
        /\ Len(reload.rest) \in Nat /\ Len(ReloadOrder) \in Nat
    BY SourceAssumption DEF TypeOK
  <2>4. \A i \in 1..Len(ReloadOrder) :
          i < Called + 1 => source_config[ReloadOrder[i]] = reload.candidate
    BY <1>2, <1>5, <2>2, <2>3
  <2>5. CASE reload.rest = <<>>
    <3>1. Called = Len(ReloadOrder)
      BY <2>3, <2>5 DEF Called
    <3>2. \A s \in Source : source_config[s] = reload.candidate
      BY <2>3, <2>4, <3>1 DEF Source
    <3>3. ReloadSucceeds(reload.candidate)
      BY <2>1, <2>5 DEF CallNextSource
    <3>4. QED
      BY <1>1, <1>3, <3>2, <3>3, SuccessKeeps
  <2>6. CASE reload.rest # <<>>
    <3> DEFINE n == Called + 1
    <3>1. Len(reload.rest) >= 1
      BY <2>3, <2>6, Shifted
    <3>2. Called \in Nat /\ Len(reload.rest) = Len(ReloadOrder) - Called
      BY <2>3, <2>2 DEF Called
    <3>3. n \in 1..Len(ReloadOrder) /\ Len(reload.rest) = Len(ReloadOrder) - n + 1
      BY <2>3, <3>1, <3>2
    <3>4. \A i \in 1..Len(reload.rest) : reload.rest[i] = ReloadOrder[n - 1 + i]
      BY <2>2, <3>2
    <3>5. \A i \in 1..Len(ReloadOrder) :
            i < n => source_config[ReloadOrder[i]] = reload.candidate
      BY <2>4
    <3> HIDE DEF n, m
    <3>6. QED
      BY <1>1, <1>3, <2>1, <2>3, <2>6, <3>3, <3>4, <3>5, CallKeeps
  <2>7. QED
    BY <2>5, <2>6
<1>6. QED
  BY <1>4, <1>5

\* The source that S.reload called switches, or fails.
LEMMA SourceReloadKeeps ==
    ASSUME TypeOK, Inv, NEW s \in Source, SourceReload(s)
    PROVE  Inv'
<1>1. /\ s \in Service /\ s # "state"
      /\ Token(s, 1) /\ apc = "calling" /\ InboxOK
  BY Services, TypeParts, FirstToken DEF SourceReload, Inv
<1>2. /\ reload.active /\ s = ReloadOrder[Called]
      /\ Head(inbox[s]).candidate = reload.candidate
  BY <1>1, SourceCandidate DEF SourceReload, Inv
<1>3. PICK ok \in {TRUE, ~ReloadMayFail} :
        /\ source_config' = IF ok THEN [source_config EXCEPT ![s] = Head(inbox[s]).candidate]
                            ELSE source_config
        /\ TakeAndSend(s, "state", [type |-> "reloaded", ok |-> ok])
  BY DEF SourceReload
<1>4. ok \in BOOLEAN /\ (~ok => ReloadMayFail)
  BY SourceAssumption
<1>5. UNCHANGED <<reload, apc>>
  BY DEF SourceReload, stateVars
<1>6. Called' = Called
  BY <1>5 DEF Called
<1>7. /\ ok => source_config'[s] = reload.candidate
      /\ \A t \in Source : t # s => source_config'[t] = source_config[t]
  BY <1>2, <1>3 DEF TypeOK
<1>8. Visiting'
  <2>1. /\ Called \in 1..Len(ReloadOrder)
        /\ \A i \in 1..Len(reload.rest) : reload.rest[i] = ReloadOrder[Called + i]
        /\ \A i \in 1..Len(ReloadOrder) :
             i < Called => source_config[ReloadOrder[i]] = reload.candidate
    BY <1>2 DEF Inv, Visiting
  <2>2. Len(ReloadOrder) \in Nat
    BY SourceAssumption
  <2>3. ASSUME NEW i \in 1..Len(ReloadOrder), i < Called
        PROVE  source_config'[ReloadOrder[i]] = reload.candidate
    <3>1. ReloadOrder[i] \in Source /\ i # Called
      BY <2>1, <2>2, <2>3, SourceAssumption
    <3>2. ReloadOrder[i] # s
      BY <1>2, <2>1, <3>1, SourceAssumption
    <3>3. QED
      BY <1>7, <2>1, <2>3, <3>1, <3>2
  <2>4. QED
    BY <1>5, <1>6, <2>1, <2>3 DEF Visiting
<1>9. Lone("state", [type |-> "reloaded", ok |-> ok])'
  BY <1>1, <1>3, <1>4, Services, Messages, TokenMoved DEF Inv
<1>10. ReloadToken("state", [type |-> "reloaded", ok |-> ok])'
  BY <1>2, <1>4, <1>5, <1>6, <1>7 DEF ReloadToken
<1>11. OneToken' /\ TokenKnown'
  BY <1>1, <1>2, <1>5, <1>9, <1>10, Services, LoneToken
<1>12. QED
  BY <1>2, <1>5, <1>8, <1>11 DEF Inv, ConfigurationsAgree

\* The inboxes after a dispatch that also scanned.
LEMMA Scanned ==
    ASSUME InboxOK, NEW s \in Source, inbox[s] # <<>>, NEW news \in Message,
           inbox' = [inbox EXCEPT ![s] = Tail(@), !["state"] = Append(@, news),
                                  !["actions"] = Append(@, [type |-> "reply"])]
    PROVE  /\ inbox'[s] = Tail(inbox[s])
           /\ inbox'["state"] = Append(inbox["state"], news)
           /\ inbox'["actions"] = Append(inbox["actions"], [type |-> "reply"])
           /\ \A t \in Service : t \notin {s, "state", "actions"} => inbox'[t] = inbox[t]
  BY Services DEF InboxOK

\* A source handles a dispatch, and the answer is the only thing under way.
LEMMA DispatchKeeps ==
    ASSUME TypeOK, TypeOK', Inv, NEW s \in Source, SourceDispatch(s)
    PROVE  Inv'
<1>1. /\ s \in Service /\ s # "state" /\ s # "actions"
      /\ Token(s, 1) /\ apc = "calling" /\ InboxOK /\ ~reload.active /\ inbox[s] # <<>>
  BY Services, TypeParts, FirstToken, FirstMessage, NotActive DEF SourceDispatch, Inv
<1>2. UNCHANGED <<reload, apc, source_config, config, last_reload_error>>
  BY DEF SourceDispatch, stateVars
<1>3. Lone("actions", [type |-> "reply"])'
  <2>1. CASE TakeAndSend(s, "actions", [type |-> "reply"])
    BY <1>1, <2>1, Services, Messages, TokenMoved DEF Inv
  <2>2. CASE /\ current' = [current EXCEPT ![s] = @ + 1] /\ current[s] < MaxEvents
             /\ inbox' = [inbox EXCEPT ![s] = Tail(@),
                                       !["state"] = Append(@, News(s)),
                                       !["actions"] = Append(@, [type |-> "reply"])]
    <3>1. News(s) \in Message /\ News(s).type = "merge"
      <4>1. current[s] + 1 \in 0..MaxEvents
        BY <2>2, BoundAssumption DEF TypeOK
      <4>2. QED
        BY <4>1, Messages DEF News
    <3>2. /\ inbox'[s] = Tail(inbox[s])
          /\ inbox'["state"] = Append(inbox["state"], News(s))
          /\ inbox'["actions"] = Append(inbox["actions"], [type |-> "reply"])
          /\ \A t \in Service : t \notin {s, "state", "actions"} => inbox'[t] = inbox[t]
      BY <1>1, <2>2, <3>1, Scanned
    <3>3. \A t \in Service : \A i \in Nat : Token(t, i) => t = s /\ i = 1
      BY <1>1 DEF Inv, OneToken
    <3>4. ASSUME NEW t \in Service, NEW i \in Nat, Token(t, i)'
          PROVE  t = "actions" /\ i = Len(inbox'["actions"])
                 /\ inbox'[t][i] = [type |-> "reply"]
      <4>1. CASE t = s
        BY <1>1, <3>2, <3>3, <3>4, <4>1, TokenShift
      <4>2. CASE t = "state"
        BY <1>1, <3>1, <3>2, <3>3, <3>4, <4>2, Services, TokenAppend
      <4>3. CASE t = "actions"
        BY <1>1, <3>2, <3>3, <3>4, <4>3, Services, Messages, TokenAppend
      <4>4. CASE t \notin {s, "state", "actions"}
        BY <3>2, <3>3, <3>4, <4>4, TokenSame
      <4>5. QED
        BY <4>1, <4>2, <4>3, <4>4
    <3>5. QED
      BY <3>4 DEF Lone
  <2>3. QED
    BY <2>1, <2>2 DEF SourceDispatch
<1>4. OneToken' /\ TokenKnown'
  BY <1>1, <1>2, <1>3, Services, LoneToken DEF OtherToken
<1>5. Visiting' /\ ConfigurationsAgree'
  BY <1>1, <1>2 DEF Inv, Visiting, ConfigurationsAgree
<1>6. QED
  BY <1>4, <1>5 DEF Inv

\* News on their way to state disturb nothing.
LEMMA NewsKeeps ==
    ASSUME TypeOK, Inv, NEW news \in Message, news.type = "merge",
           inbox' = [inbox EXCEPT !["state"] = Append(@, news)],
           UNCHANGED <<apc, reload, source_config, config, last_reload_error>>
    PROVE  Inv'
<1>1. InboxOK
  BY TypeParts
<1>2. /\ inbox'["state"] = Append(inbox["state"], news)
      /\ \A t \in Service : t # "state" => inbox'[t] = inbox[t]
  BY <1>1, Services, Sent
<1>3. ASSUME NEW t \in Service, NEW i \in Nat, Token(t, i)'
      PROVE  Token(t, i) /\ inbox'[t][i] = inbox[t][i]
  <2>1. CASE t = "state"
    <3>1. Token("state", i)' /\ "state" \in Service
      BY <1>3, <2>1
    <3>2. Token("state", i) /\ inbox'["state"][i] = inbox["state"][i]
      BY <1>1, <1>2, <3>1, TokenAppend
    <3>3. QED
      BY <2>1, <3>2
  <2>2. CASE t # "state"
    BY <1>2, <1>3, <2>2, TokenSame
  <2>3. QED
    BY <2>1, <2>2
<1>4. \A t \in Service : \A i, j \in Nat : Token(t, i)' /\ Token(t, j)' => i = j
  BY <1>3 DEF Inv, OneToken
<1>5. QED
  BY <1>3, <1>4, Carried

\* Merged news disturb nothing either.
LEMMA MergeKeeps ==
    ASSUME TypeOK, Inv, StateMerge
    PROVE  Inv'
<1>1. InboxOK /\ inbox["state"] # <<>>
  BY TypeParts, Services, FirstMessage DEF StateMerge
<1>2. /\ inbox'["state"] = Tail(inbox["state"])
      /\ \A t \in Service : t # "state" => inbox'[t] = inbox[t]
  BY <1>1, Services, Handled DEF StateMerge
<1>3. UNCHANGED <<apc, reload, source_config, config, last_reload_error>>
  BY DEF StateMerge, MergeAndPublish, sourceVars
<1>4. \A i \in Nat : Token("state", i)' =>
        /\ i + 1 \in Nat /\ Token("state", i + 1)
        /\ inbox'["state"][i] = inbox["state"][i + 1]
  BY <1>1, <1>2, Services, TokenShift
<1>5. \A t \in Service : \A i \in Nat : t # "state" /\ Token(t, i)' =>
        Token(t, i) /\ inbox'[t][i] = inbox[t][i]
  BY <1>2, TokenSame
<1>6. \A t \in Service : \A i \in Nat : Token(t, i)' =>
        \E j \in Nat : Token(t, j) /\ inbox'[t][i] = inbox[t][j]
  BY <1>4, <1>5
<1>7. ASSUME NEW t \in Service, NEW i \in Nat, NEW j \in Nat, Token(t, i)', Token(t, j)'
      PROVE  i = j
  <2>1. CASE t = "state"
    <3>1. i + 1 = j + 1
      BY <1>4, <1>7, <2>1, Services DEF Inv, OneToken
    <3>2. QED
      BY <3>1
  <2>2. CASE t # "state"
    BY <1>5, <1>7, <2>2 DEF Inv, OneToken
  <2>3. QED
    BY <2>1, <2>2
<1>8. QED
  BY <1>3, <1>6, <1>7, Carried

\* Every step keeps the invariant, and a new generation is one that every
\* source has.
LEMMA InvStep ==
    ASSUME TypeOK, TypeOK', Inv, [Next]_vars
    PROVE  Inv' /\ Applied
<1>1. ASSUME UNCHANGED <<inbox, apc, reload, source_config, config, last_reload_error>>
      PROVE  Inv'
  <2>1. \A t \in Service : \A i \in Nat : Token(t, i)' =>
          Token(t, i) /\ inbox'[t][i] = inbox[t][i]
    BY <1>1 DEF Token
  <2>2. \A t \in Service : \A i, j \in Nat : Token(t, i)' /\ Token(t, j)' => i = j
    BY <2>1 DEF Inv, OneToken
  <2>3. QED
    BY <1>1, <2>1, <2>2, Carried
<1>2. CASE \/ UNCHANGED vars \/ Quiet \/ EditFile \/ Submit
           \/ \E s \in Source : SourceBlocks(s) \/ SourceWakes(s) \/ RequestEnds(s)
  BY <1>1, <1>2 DEF vars, Quiet, EditFile, Submit, SourceBlocks, SourceWakes, RequestEnds,
       environment, stateVars, sourceVars, Applied
<1>3. CASE PopAction
  BY <1>3, PopKeeps DEF PopAction, stateVars, Applied
<1>4. CASE CallReturns
  BY <1>4, ReturnKeeps DEF CallReturns, stateVars, Applied
<1>5. CASE StateMerge
  BY <1>5, MergeKeeps DEF StateMerge, MergeAndPublish, Applied
<1>6. CASE StateReload
  BY <1>6, ReloadKeeps
<1>7. CASE StateReloadGoesOn
  BY <1>7, GoesOnKeeps
<1>8. ASSUME NEW s \in Source, SourceReload(s)
      PROVE  Inv' /\ Applied
  BY <1>8, SourceReloadKeeps DEF SourceReload, stateVars, Applied
<1>9. ASSUME NEW s \in Source, SourceDispatch(s)
      PROVE  Inv' /\ Applied
  BY <1>9, DispatchKeeps DEF SourceDispatch, stateVars, Applied
<1>10. ASSUME NEW s \in Source, SourceReports(s)
       PROVE  Inv' /\ Applied
  <2>0. current[s] \in 0..MaxEvents /\ current[s] < MaxEvents
    BY <1>10, TypeParts DEF SourceReports, RestOK
  <2>1. current[s] + 1 \in 0..MaxEvents
    BY <2>0, BoundAssumption
  <2>2. News(s) \in Message /\ News(s).type = "merge"
    BY <2>1, Messages DEF News
  <2>3. QED
    BY <1>10, <2>2, NewsKeeps DEF SourceReports, stateVars, Applied
<1>11. QED
  BY <1>2, <1>3, <1>4, <1>5, <1>6, <1>7, <1>8, <1>9, <1>10
    DEF Next, ActionsService, StateService, Handles

-----------------------------------------------------------------------------
(* News in order.                                                          *)

\* m is news of s.
IsNews(m, s) == m.type = "merge" /\ m.source = s

\* The news of s in q are lo + 1 to hi, each once and in order.
Ordered(q, s, lo, hi) ==
    /\ lo <= hi
    /\ \A i \in 1..Len(q) : IsNews(q[i], s) => q[i].value \in (lo + 1)..hi
    /\ \A v \in (lo + 1)..hi : \E i \in 1..Len(q) : IsNews(q[i], s) /\ q[i].value = v
    /\ \A i, j \in 1..Len(q) :
         IsNews(q[i], s) /\ IsNews(q[j], s) /\ i < j => q[i].value < q[j].value

\* NoNewsLost, one message at a time.
AllOrdered == \A s \in Source : Ordered(inbox["state"], s, domain[s], current[s])

\* The two say the same.
LEMMA NewsOrdered == NoNewsLost <=> AllOrdered
  BY DEF NoNewsLost, AllOrdered, Pending, Ordered, IsNews

\* Another message behind the news changes nothing.
LEMMA AppendOther ==
    ASSUME NEW q \in Seq(Message), NEW s, NEW lo \in Nat, NEW hi \in Nat,
           Ordered(q, s, lo, hi), NEW m \in Message, ~IsNews(m, s)
    PROVE  Ordered(Append(q, m), s, lo, hi)
<1> DEFINE r == Append(q, m)
<1>1. /\ Len(q) \in Nat /\ Len(r) = Len(q) + 1
      /\ \A i \in 1..Len(q) : r[i] = q[i] /\ i \in 1..Len(r)
      /\ r[Len(q) + 1] = m
  BY Extended
<1>2. \A i \in 1..Len(r) : IsNews(r[i], s) => i \in 1..Len(q)
  BY <1>1
<1> HIDE DEF r
<1>3. QED
  <2>1. lo <= hi /\ \A i \in 1..Len(r) : IsNews(r[i], s) => r[i].value \in (lo + 1)..hi
    BY <1>1, <1>2 DEF Ordered
  <2>2. \A v \in (lo + 1)..hi : \E i \in 1..Len(r) : IsNews(r[i], s) /\ r[i].value = v
    BY <1>1 DEF Ordered
  <2>3. \A i, j \in 1..Len(r) :
          IsNews(r[i], s) /\ IsNews(r[j], s) /\ i < j => r[i].value < r[j].value
    BY <1>1, <1>2 DEF Ordered
  <2>4. QED
    BY <2>1, <2>2, <2>3 DEF Ordered, r

\* The next news of s goes behind the others.
LEMMA AppendNews ==
    ASSUME NEW q \in Seq(Message), NEW s, NEW lo \in Nat, NEW hi \in Nat,
           Ordered(q, s, lo, hi), NEW m \in Message, IsNews(m, s), m.value = hi + 1
    PROVE  Ordered(Append(q, m), s, lo, hi + 1)
<1> DEFINE r == Append(q, m)
<1>1. /\ Len(q) \in Nat /\ Len(r) = Len(q) + 1
      /\ \A i \in 1..Len(q) : r[i] = q[i] /\ i \in 1..Len(r)
      /\ r[Len(q) + 1] = m
  BY Extended
<1>2. /\ Len(q) + 1 \in 1..Len(r)
      /\ \A i \in 1..Len(r) : i \in 1..Len(q) \/ i = Len(q) + 1
  BY <1>1
<1>3. \A i \in 1..Len(q) : IsNews(r[i], s) => r[i].value \in (lo + 1)..hi
  BY <1>1 DEF Ordered
<1> HIDE DEF r
<1>4. lo <= hi + 1 /\ \A i \in 1..Len(r) : IsNews(r[i], s) => r[i].value \in (lo + 1)..(hi + 1)
  <2>1. lo <= hi /\ hi + 1 \in (lo + 1)..(hi + 1)
        /\ \A v \in (lo + 1)..hi : v \in (lo + 1)..(hi + 1)
    BY DEF Ordered
  <2>2. QED
    BY <1>1, <1>2, <1>3, <2>1
<1>5. ASSUME NEW v \in (lo + 1)..(hi + 1)
      PROVE  \E i \in 1..Len(r) : IsNews(r[i], s) /\ r[i].value = v
  <2>1. CASE v = hi + 1
    BY <1>1, <1>2, <2>1
  <2>2. CASE v # hi + 1
    <3>1. v \in (lo + 1)..hi
      BY <2>2
    <3>2. PICK i \in 1..Len(q) : IsNews(q[i], s) /\ q[i].value = v
      BY <3>1 DEF Ordered
    <3>3. QED
      BY <1>1, <3>2
  <2>3. QED
    BY <2>1, <2>2
<1>6. ASSUME NEW i \in 1..Len(r), NEW j \in 1..Len(r), IsNews(r[i], s), IsNews(r[j], s), i < j
      PROVE  r[i].value < r[j].value
  <2>1. CASE j \in 1..Len(q)
    <3>1. i \in 1..Len(q)
      BY <1>1, <1>6, <2>1
    <3>2. r[i] = q[i] /\ r[j] = q[j]
      BY <1>1, <2>1, <3>1
    <3>3. QED
      BY <1>6, <2>1, <3>1, <3>2 DEF Ordered
  <2>2. CASE j = Len(q) + 1
    <3>1. i \in 1..Len(q)
      BY <1>1, <1>2, <1>6, <2>2
    <3>2. r[i].value \in (lo + 1)..hi /\ r[j].value = hi + 1
      BY <1>1, <1>3, <1>6, <2>2, <3>1
    <3>3. QED
      BY <3>2
  <2>3. QED
    BY <1>2, <2>1, <2>2
<1>7. QED
  BY <1>4, <1>5, <1>6 DEF Ordered, r

\* Taking the first message off: if it is news of s it is the next one.
LEMMA TailOrdered ==
    ASSUME NEW q \in Seq(Message), q # <<>>, NEW s, NEW lo \in Nat, NEW hi \in Nat,
           Ordered(q, s, lo, hi)
    PROVE  /\ ~IsNews(Head(q), s) => Ordered(Tail(q), s, lo, hi)
           /\ IsNews(Head(q), s) => /\ Head(q).value = lo + 1
                                    /\ Ordered(Tail(q), s, lo + 1, hi)
<1> DEFINE r == Tail(q)
<1>1. /\ Len(q) \in Nat /\ Len(q) >= 1 /\ Len(r) = Len(q) - 1
      /\ Head(q) = q[1]
      /\ \A i \in 1..(Len(q) - 1) : r[i] = q[i + 1]
  BY Shifted
<1>2. \A i \in 1..Len(r) : i + 1 \in 1..Len(q) /\ r[i] = q[i + 1] /\ 1 < i + 1
  BY <1>1
<1>3. \A i \in 1..Len(q) : i = 1 \/ (i - 1 \in 1..Len(r) /\ r[i - 1] = q[i])
  <2>1. ASSUME NEW i \in 1..Len(q), i # 1
        PROVE  i - 1 \in 1..Len(r) /\ r[i - 1] = q[i]
    <3>1. i - 1 \in 1..(Len(q) - 1) /\ (i - 1) + 1 = i
      BY <1>1, <2>1
    <3>2. QED
      BY <1>1, <3>1
  <2>2. QED
    BY <2>1
<1>4. 1 \in 1..Len(q)
  BY <1>1
<1> HIDE DEF r
<1>5. \A i, j \in 1..Len(r) :
        IsNews(r[i], s) /\ IsNews(r[j], s) /\ i < j => r[i].value < r[j].value
  <2>1. ASSUME NEW i \in 1..Len(r), NEW j \in 1..Len(r), IsNews(r[i], s), IsNews(r[j], s), i < j
        PROVE  r[i].value < r[j].value
    <3>1. i + 1 \in 1..Len(q) /\ j + 1 \in 1..Len(q) /\ i + 1 < j + 1
      BY <1>2, <2>1
    <3>2. QED
      BY <1>2, <2>1, <3>1 DEF Ordered
  <2>2. QED
    BY <2>1
<1>6. CASE ~IsNews(Head(q), s)
  <2>1. lo <= hi /\ \A i \in 1..Len(r) : IsNews(r[i], s) => r[i].value \in (lo + 1)..hi
    BY <1>2 DEF Ordered
  <2>2. \A v \in (lo + 1)..hi : \E i \in 1..Len(r) : IsNews(r[i], s) /\ r[i].value = v
    <3>1. ASSUME NEW v \in (lo + 1)..hi
          PROVE  \E i \in 1..Len(r) : IsNews(r[i], s) /\ r[i].value = v
      <4>1. PICK i \in 1..Len(q) : IsNews(q[i], s) /\ q[i].value = v
        BY DEF Ordered
      <4>2. QED
        BY <1>1, <1>3, <1>6, <4>1
    <3>2. QED
      BY <3>1
  <2>3. Ordered(r, s, lo, hi)
    BY <1>5, <2>1, <2>2 DEF Ordered
  <2>4. QED
    BY <1>6, <2>3 DEF r
<1>7. CASE IsNews(Head(q), s)
  <2>1. q[1].value \in (lo + 1)..hi
    BY <1>1, <1>4, <1>7 DEF Ordered
  <2>2. q[1].value = lo + 1
    <3>1. lo + 1 \in (lo + 1)..hi
      BY <2>1
    <3>2. PICK i \in 1..Len(q) : IsNews(q[i], s) /\ q[i].value = lo + 1
      BY <3>1 DEF Ordered
    <3>3. CASE i = 1
      BY <3>2, <3>3
    <3>4. CASE i # 1
      <4>1. 1 < i
        BY <1>1, <3>4
      <4>2. q[1].value < q[i].value
        BY <1>1, <1>4, <1>7, <3>2, <4>1 DEF Ordered
      <4>3. QED
        BY <2>1, <3>2, <4>2
    <3>5. QED
      BY <3>3, <3>4
  <2>3. \A i \in 1..Len(r) : IsNews(r[i], s) => r[i].value \in (lo + 1 + 1)..hi
    <3>1. ASSUME NEW i \in 1..Len(r), IsNews(r[i], s)
          PROVE  r[i].value \in (lo + 1 + 1)..hi
      <4>1. /\ i + 1 \in 1..Len(q) /\ r[i] = q[i + 1] /\ 1 < i + 1
        BY <1>2
      <4>2. q[i + 1].value \in (lo + 1)..hi /\ q[1].value < q[i + 1].value
        BY <1>1, <1>4, <1>7, <3>1, <4>1 DEF Ordered
      <4>3. QED
        BY <2>2, <4>1, <4>2
    <3>2. QED
      BY <3>1
  <2>4. ASSUME NEW v \in (lo + 1 + 1)..hi
        PROVE  \E i \in 1..Len(r) : IsNews(r[i], s) /\ r[i].value = v
    <3>1. v \in (lo + 1)..hi /\ v # lo + 1
      OBVIOUS
    <3>2. PICK i \in 1..Len(q) : IsNews(q[i], s) /\ q[i].value = v
      BY <3>1 DEF Ordered
    <3>3. i # 1
      BY <2>2, <3>1, <3>2
    <3>4. QED
      BY <1>3, <3>2, <3>3
  <2>5. lo + 1 <= hi
    BY <2>1
  <2>6. Ordered(r, s, lo + 1, hi)
    BY <1>5, <2>3, <2>4, <2>5 DEF Ordered
  <2>7. QED
    BY <1>1, <1>7, <2>2, <2>6 DEF r
<1>8. QED
  BY <1>6, <1>7

\* Every step keeps the news in order.
LEMMA NewsStep ==
    ASSUME TypeOK, TypeOK', NoNewsLost, [Next]_vars
    PROVE  NoNewsLost'
<1> DEFINE q == inbox["state"]
<1>0. /\ InboxOK /\ RestOK /\ q \in Seq(Message)
      /\ \A s \in Source : domain[s] \in Nat /\ current[s] \in Nat
      /\ \A s \in Source : Ordered(q, s, domain[s], current[s])
  <2>1. InboxOK /\ RestOK
    BY TypeParts
  <2>2. q \in Seq(Message)
    BY <2>1, Services DEF InboxOK
  <2>3. \A s \in Source : domain[s] \in Nat /\ current[s] \in Nat
    BY <2>1, BoundAssumption DEF RestOK
  <2>4. QED
    BY <2>1, <2>2, <2>3, NewsOrdered DEF AllOrdered
<1> SUFFICES AllOrdered'
  BY NewsOrdered, PTL
<1> SUFFICES \A s \in Source : Ordered(q', s, domain'[s], current'[s])
  BY DEF AllOrdered
<1> USE Services
<1> HIDE DEF q
<1>1. ASSUME q' = q, UNCHANGED <<domain, current>>
      PROVE  \A s \in Source : Ordered(q', s, domain'[s], current'[s])
  BY <1>0, <1>1
<1>2. ASSUME NEW m \in Message, m.type # "merge", q' = Append(q, m),
             UNCHANGED <<domain, current>>
      PROVE  \A s \in Source : Ordered(q', s, domain'[s], current'[s])
  BY <1>0, <1>2, AppendOther DEF IsNews
<1>3. ASSUME NEW s \in Source, News(s) \in Message, q' = Append(q, News(s)), UNCHANGED domain,
             current' = [current EXCEPT ![s] = @ + 1]
      PROVE  \A t \in Source : Ordered(q', t, domain'[t], current'[t])
  <2>1. IsNews(News(s), s) /\ News(s).value = current[s] + 1
        /\ \A t \in Source : t # s => ~IsNews(News(s), t)
    BY DEF IsNews, News
  <2>2. current'[s] = current[s] + 1 /\ \A t \in Source : t # s => current'[t] = current[t]
    BY <1>0, <1>3 DEF RestOK
  <2>3. Ordered(q', s, domain'[s], current'[s])
    BY <1>0, <1>3, <2>1, <2>2, AppendNews
  <2>4. \A t \in Source : t # s => Ordered(q', t, domain'[t], current'[t])
    BY <1>0, <1>3, <2>1, <2>2, AppendOther
  <2>5. QED
    BY <2>3, <2>4
<1>4. ASSUME q # <<>>, Head(q).type # "merge", q' = Tail(q), UNCHANGED <<domain, current>>
      PROVE  \A s \in Source : Ordered(q', s, domain'[s], current'[s])
  BY <1>0, <1>4, TailOrdered DEF IsNews
<1>5. CASE UNCHANGED vars \/ Quiet \/ EditFile \/ Submit
  <2>1. UNCHANGED <<inbox, domain, current>>
    BY <1>5 DEF vars, Quiet, EditFile, Submit, stateVars, sourceVars
  <2>2. QED
    BY <1>1, <2>1 DEF q
<1>6. CASE PopAction
  <2>1. UNCHANGED <<domain, current>>
    BY <1>6 DEF PopAction, stateVars, sourceVars
  <2>2. CASE UNCHANGED inbox
    BY <1>1, <2>1, <2>2 DEF q
  <2>3. CASE inbox' = [inbox EXCEPT !["state"] = Append(@, [type |-> "reload"])]
    <3>1. q' = Append(q, [type |-> "reload"])
      BY <1>0, <2>3, Messages, Sent DEF q
    <3>2. QED
      BY <1>2, <2>1, <3>1, Messages
  <2>4. CASE /\ Head(commands) \in Source
             /\ inbox' = [inbox EXCEPT ![Head(commands)] = Append(@, [type |-> "dispatch"])]
    <3>1. q' = q
      BY <1>0, <2>4, Messages, Sent DEF q
    <3>2. QED
      BY <1>1, <2>1, <3>1
  <2>5. QED
    BY <1>6, <2>2, <2>3, <2>4 DEF PopAction
<1>7. CASE CallReturns
  <2>1. UNCHANGED <<domain, current>>
    BY <1>7 DEF CallReturns, stateVars, sourceVars
  <2>2. q' = q
    BY <1>0, <1>7, FirstMessage, Handled DEF CallReturns, q
  <2>3. QED
    BY <1>1, <2>1, <2>2
<1>8. CASE StateMerge
  <2> DEFINE m == Head(q)
  <2>1. q # <<>> /\ m \in Message /\ m.type = "merge" /\ m.source \in Source
    BY <1>0, <1>8, FirstMessage, Messages DEF StateMerge, q
  <2>2. q' = Tail(q) /\ UNCHANGED current
    BY <1>0, <1>8, <2>1, Handled DEF StateMerge, sourceVars, q
  <2>3. domain' = [domain EXCEPT ![m.source] = m.value]
    BY <1>8 DEF StateMerge, MergeAndPublish, Merged, q
  <2>4. /\ domain'[m.source] = m.value
        /\ \A t \in Source : t # m.source => domain'[t] = domain[t]
    BY <1>0, <2>1, <2>3 DEF RestOK
  <2>5. IsNews(m, m.source) /\ \A t \in Source : t # m.source => ~IsNews(m, t)
    BY <2>1 DEF IsNews
  <2>6. /\ m.value = domain[m.source] + 1
        /\ Ordered(Tail(q), m.source, domain[m.source] + 1, current[m.source])
    BY <1>0, <2>1, <2>5, TailOrdered
  <2>7. \A t \in Source : t # m.source => Ordered(Tail(q), t, domain[t], current[t])
    BY <1>0, <2>1, <2>5, TailOrdered
  <2> HIDE DEF m
  <2>8. QED
    BY <2>2, <2>4, <2>6, <2>7
<1>9. ASSUME NEW type \in {"reload", "reloaded"}, NextMessage("state", type),
             \/ ReloadFailed
             \/ \E c \in 0..MaxEdits : \E rest \in Seq(Source) : CallNextSource(c, rest),
             UNCHANGED sourceVars
      PROVE  \A s \in Source : Ordered(q', s, domain'[s], current'[s])
  <2>1. q # <<>> /\ Head(q).type # "merge"
    BY <1>0, <1>9, FirstMessage DEF q
  <2>2. \E d \in Service : \E msg \in Message : d # "state" /\ TakeAndSend("state", d, msg)
    <3>1. CASE ReloadFailed
      BY <3>1, Messages DEF ReloadFailed
    <3>2. ASSUME NEW c \in 0..MaxEdits, NEW rest \in Seq(Source), CallNextSource(c, rest)
          PROVE  \E d \in Service : \E msg \in Message :
                    d # "state" /\ TakeAndSend("state", d, msg)
      <4>1. CASE rest = <<>>
        BY <3>2, <4>1, Messages DEF CallNextSource, ReloadSucceeds
      <4>2. CASE rest # <<>>
        <5>1. Head(rest) \in Source
          BY <4>2, Shifted
        <5>2. QED
          BY <3>2, <4>2, <5>1, Messages DEF CallNextSource
      <4>3. QED
        BY <4>1, <4>2
    <3>3. QED
      BY <1>9, <3>1, <3>2
  <2>3. q' = Tail(q)
    BY <1>0, <2>1, <2>2, Taken DEF q
  <2>4. UNCHANGED <<domain, current>>
    BY <1>9 DEF ReloadFailed, CallNextSource, ReloadSucceeds, MergeAndPublish, sourceVars
  <2>5. QED
    BY <1>4, <2>1, <2>3, <2>4
<1>10. CASE StateReload
  <2>1. Candidate \in 0..MaxEdits /\ ReloadOrder \in Seq(Source)
    BY <1>0, SourceAssumption DEF RestOK, Candidate
  <2>2. QED
    BY <1>9, <1>10, <2>1 DEF StateReload
<1>11. CASE StateReloadGoesOn
  <2>1. reload.candidate \in 0..MaxEdits /\ reload.rest \in Seq(Source)
    BY <1>0 DEF RestOK
  <2>2. QED
    BY <1>9, <1>11, <2>1 DEF StateReloadGoesOn
<1>12. ASSUME NEW s \in Source, SourceReload(s)
       PROVE  \A t \in Source : Ordered(q', t, domain'[t], current'[t])
  <2>1. PICK ok \in BOOLEAN : TakeAndSend(s, "state", [type |-> "reloaded", ok |-> ok])
    BY <1>12, SourceAssumption DEF SourceReload
  <2>2. q' = Append(q, [type |-> "reloaded", ok |-> ok])
    BY <1>0, <1>12, <2>1, FirstMessage, Messages, Taken DEF SourceReload, q
  <2>3. UNCHANGED <<domain, current>>
    BY <1>12 DEF SourceReload, stateVars
  <2>4. QED
    BY <1>2, <2>2, <2>3, Messages
<1>13. ASSUME NEW s \in Source, SourceDispatch(s)
       PROVE  \A t \in Source : Ordered(q', t, domain'[t], current'[t])
  <2>1. inbox[s] # <<>> /\ UNCHANGED domain
    BY <1>0, <1>13, FirstMessage DEF SourceDispatch, stateVars
  <2>2. CASE TakeAndSend(s, "actions", [type |-> "reply"]) /\ UNCHANGED current
    <3>1. q' = q
      BY <1>0, <2>1, <2>2, Messages, Taken DEF q
    <3>2. QED
      BY <1>1, <2>1, <2>2, <3>1
  <2>3. CASE /\ current[s] < MaxEvents
             /\ current' = [current EXCEPT ![s] = @ + 1]
             /\ inbox' = [inbox EXCEPT ![s] = Tail(@),
                                       !["state"] = Append(@, News(s)),
                                       !["actions"] = Append(@, [type |-> "reply"])]
    <3>1. current[s] + 1 \in 0..MaxEvents
      BY <1>0, <2>3, BoundAssumption DEF RestOK
    <3>2. News(s) \in Message
      BY <3>1, Messages DEF News
    <3>3. q' = Append(q, News(s))
      BY <1>0, <2>1, <2>3, <3>2, Scanned DEF q
    <3>4. QED
      BY <1>3, <2>1, <2>3, <3>2, <3>3
  <2>4. QED
    BY <1>13, <2>2, <2>3 DEF SourceDispatch
<1>14. ASSUME NEW s \in Source, SourceBlocks(s) \/ SourceWakes(s) \/ RequestEnds(s)
       PROVE  \A t \in Source : Ordered(q', t, domain'[t], current'[t])
  <2>1. UNCHANGED <<inbox, domain, current>>
    BY <1>14 DEF SourceBlocks, SourceWakes, RequestEnds, stateVars
  <2>2. QED
    BY <1>1, <2>1 DEF q
<1>15. ASSUME NEW s \in Source, SourceReports(s)
       PROVE  \A t \in Source : Ordered(q', t, domain'[t], current'[t])
  <2>1. current[s] + 1 \in 0..MaxEvents
    BY <1>0, <1>15, BoundAssumption DEF RestOK, SourceReports
  <2>2. News(s) \in Message
    BY <2>1, Messages DEF News
  <2>3. q' = Append(q, News(s))
    BY <1>0, <1>15, <2>2, Sent DEF SourceReports, q
  <2>4. QED
    BY <1>3, <1>15, <2>2, <2>3 DEF SourceReports, stateVars
<1>16. QED
  BY <1>5, <1>6, <1>7, <1>8, <1>10, <1>11, <1>12, <1>13, <1>14, <1>15
    DEF Next, ActionsService, StateService, Handles

\* Whatever MergeAndPublish changes is published.
LEMMA PublishStep ==
    ASSUME PublishedIsCurrent, [Next]_vars
    PROVE  PublishedIsCurrent'
<1>1. ASSUME NEW dom, NEW gen, NEW err, MergeAndPublish(dom, gen, err)
      PROVE  PublishedIsCurrent'
  <2>1. CASE <<dom, gen, err>> = <<domain, generation, last_reload_error>>
    BY <1>1, <2>1, Zenon DEF MergeAndPublish, PublishedIsCurrent
  <2>2. CASE <<dom, gen, err>> # <<domain, generation, last_reload_error>>
    BY <1>1, <2>2, Zenon DEF MergeAndPublish, PublishedIsCurrent
  <2>3. QED
    BY <2>1, <2>2
<1>2. ASSUME UNCHANGED <<domain, generation, last_reload_error, revision, published>>
      PROVE  PublishedIsCurrent'
  BY <1>2 DEF PublishedIsCurrent
<1>3. CASE StateMerge \/ StateReload \/ StateReloadGoesOn
  <2>1. ASSUME NEW c, NEW rest, CallNextSource(c, rest)
        PROVE  PublishedIsCurrent'
    BY <1>1, <1>2, <2>1, Zenon DEF CallNextSource, ReloadSucceeds
  <2>2. CASE ReloadFailed
    BY <1>1, <2>2, Zenon DEF ReloadFailed
  <2>3. CASE StateMerge
    BY <1>1, <2>3, Zenon DEF StateMerge
  <2>4. QED
    BY <1>3, <2>1, <2>2, <2>3 DEF StateReload, StateReloadGoesOn
<1>4. CASE UNCHANGED vars \/ Quiet \/ EditFile \/ Submit \/ PopAction \/ CallReturns
  BY <1>2, <1>4 DEF vars, Quiet, EditFile, Submit, PopAction, CallReturns, stateVars
<1>5. ASSUME NEW s \in Source, \/ SourceReload(s) \/ SourceDispatch(s) \/ SourceBlocks(s)
                               \/ SourceWakes(s) \/ RequestEnds(s) \/ SourceReports(s)
      PROVE  PublishedIsCurrent'
  BY <1>2, <1>5 DEF SourceReload, SourceDispatch, SourceBlocks, SourceWakes, RequestEnds,
       SourceReports, stateVars
<1>6. QED
  BY <1>3, <1>4, <1>5 DEF Next, ActionsService, StateService, Handles

-----------------------------------------------------------------------------
(* The theorems.                                                           *)

\* The initial state has the types and satisfies the invariants.
LEMMA Initially == Init => TypeOK /\ Inv /\ PublishedIsCurrent /\ NoNewsLost
<1> SUFFICES ASSUME Init PROVE TypeOK /\ Inv /\ PublishedIsCurrent /\ NoNewsLost
  OBVIOUS
<1> USE BoundAssumption, SourceAssumption
<1>1. TypeOK
  <2>1. InboxOK
    BY DEF Init, InboxOK
  <2>2. NoReload \in [active : BOOLEAN, candidate : 0..MaxEdits, rest : Seq(Source)]
    BY DEF NoReload
  <2>3. /\ domain \in [Source -> 0..MaxEvents] /\ source_config \in [Source -> 0..MaxEdits]
        /\ current \in [Source -> 0..MaxEvents]
        /\ mode \in [Source -> {"ready", "waiting", "requesting"}]
        /\ workers \in 1..MaxWorkers
    BY DEF Init
  <2>4. RestOK
    BY <2>2, <2>3 DEF Init, RestOK, Kind
  <2>5. PublishedOK
    BY <2>3 DEF Init, PublishedOK
  <2>6. QED
    BY <2>1, <2>4, <2>5, TypeParts
<1>2. \A s \in Service : inbox[s] = <<>>
  BY DEF Init
<1>3. \A s \in Service : \A i \in Nat : ~Token(s, i)
  BY <1>2 DEF Token
<1>4. ~reload.active
  BY DEF Init, NoReload
<1>5. Inv
  BY <1>3, <1>4 DEF Init, Inv, OneToken, Visiting, TokenKnown, ConfigurationsAgree
<1>6. PublishedIsCurrent
  BY DEF Init, PublishedIsCurrent
<1>7. AllOrdered
  BY <1>2, Services DEF Init, AllOrdered, Ordered
<1>8. QED
  BY <1>1, <1>5, <1>6, <1>7, NewsOrdered

\* At most one call is under way and S.reload knows which, in every reachable
\* state, and every variable keeps its type.
THEOREM Invariance == Spec => [](TypeOK /\ Inv)
<1>1. Init => TypeOK /\ Inv
  BY Initially
<1>2. TypeOK /\ Inv /\ [Next]_vars => TypeOK' /\ Inv'
  BY TypeStep, InvStep DEF Inv
<1>3. QED
  BY <1>1, <1>2, PTL DEF Spec

\* Every variable keeps its type, for any set of sources and any bounds.
THEOREM TypeCorrect == Spec => []TypeOK
  BY Invariance, PTL

\* Between reloads state and every source run the same configuration: neither
\* a rejected file nor S.reload giving way between its calls lets them
\* diverge, unless a source's handler raises an error, which is reported.
THEOREM ConfigurationsStayEqual == Spec => []ConfigurationsAgree
<1>1. Inv => ConfigurationsAgree
  BY DEF Inv
<1>2. QED
  BY <1>1, Invariance, PTL

\* The generation that clients see moves by one, and only when every source
\* already runs the configuration that state adopts.
THEOREM GenerationIsApplied == Spec => GenerationMeansApplied
<1>1. TypeOK /\ TypeOK' /\ Inv /\ [Next]_vars =>
        [generation' # generation =>
           /\ generation' = generation + 1
           /\ last_reload_error' = NoError
           /\ \A s \in Source : source_config[s] = config']_vars
  BY InvStep DEF Applied
<1>2. QED
  BY <1>1, Invariance, PTL DEF Spec, GenerationMeansApplied

\* What the control server has been handed is the state as it is.
THEOREM PublishedStaysCurrent == Spec => []PublishedIsCurrent
<1>1. Init => PublishedIsCurrent
  BY Initially
<1>2. PublishedIsCurrent /\ [Next]_vars => PublishedIsCurrent'
  BY PublishStep
<1>3. QED
  BY <1>1, <1>2, PTL DEF Spec

\* No news of a source is lost, repeated or merged out of order, although
\* S.reload gives way in the middle.
THEOREM NewsIsKept == Spec => []NoNewsLost
<1>1. Init => NoNewsLost
  BY Initially
<1>2. TypeOK /\ TypeOK' /\ NoNewsLost /\ [Next]_vars => NoNewsLost'
  BY NewsStep
<1>3. QED
  BY <1>1, <1>2, TypeCorrect, PTL DEF Spec
=============================================================================
