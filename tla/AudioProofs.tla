---------------------------- MODULE AudioProofs -----------------------------
(***************************************************************************)
(* The audio source misses no change, for any sinks, changes, actions and  *)
(* failures: whatever the service does not show yet is announced by an     *)
(* answer, a question or an event that is on its way.                      *)
(***************************************************************************)
EXTENDS Audio, TLAPS

-----------------------------------------------------------------------------
(* Types.                                                                  *)

Volume == {RawVolume(p) : p \in Percent \cup {0}}
Setting == [muted : BOOLEAN, volume : Volume]

Request == [op : {"subscribe", "server"}]
             \cup [op : {"sink"}, sink : Sink]
             \cup [op : {"mute"}, sink : Sink, muted : BOOLEAN]
             \cup [op : {"volume"}, sink : Sink, volume : Volume]

Reply == [op : {"subscribed"}, success : BOOLEAN]
           \cup [op : {"server"}, default : Sink \cup {NoSink}]
           \cup [op : {"sink"}, sink : Sink, found : BOOLEAN, muted : BOOLEAN,
                 volume : Volume]
           \cup [op : {"event"}, facility : {"server", "sink"}]

SourceType ==
    [context : {"none", "connecting", "ready", "failed"}, connected : BOOLEAN,
     error : BOOLEAN, sink : Sink \cup {NoSink}, available : BOOLEAN,
     muted : BOOLEAN, volume : Volume, notified : BOOLEAN]

\* What the variables that the argument is about range over.
TypeOK ==
    /\ alive \in BOOLEAN /\ subscribed \in BOOLEAN
    /\ sinks \in SUBSET Sink
    /\ default \in Sink \cup {NoSink}
    /\ setting \in [Sink -> Setting]
    /\ news \in SUBSET {"server", "sink"}
    /\ requests \in Seq(Request) /\ replies \in Seq(Reply)
    /\ source \in SourceType
    /\ pc \in {"idle", "opening", "opened", "drained", "flagged", "ending", "backoff"}
    /\ changed \in BOOLEAN /\ ended \in BOOLEAN

-----------------------------------------------------------------------------
(* The inductive invariant.                                                *)

\* The server's default is one of its sinks, if it has any.
DefaultKnown == default \in sinks \/ (sinks = {} /\ default = NoSink)

\* Where the context is while the service is at each of its points, and what
\* a context that is not ready has left on the connection.
Link ==
    /\ source.context = "connecting" => pc = "opening"
    /\ source.context = "ready" => source.connected
    /\ pc = "backoff" => source.context = "none"
    /\ source.context # "ready" => requests = <<>> /\ replies = <<>>
    /\ subscribed => alive /\ source.context = "ready"
    /\ news # {} => subscribed

\* A question about the server follows the request to subscribe.
AsksAfterSubscribing ==
    \A i \in 1..Len(requests) : requests[i].op = "subscribe" =>
        \E j \in (i + 1)..Len(requests) : requests[j].op = "server"

\* A change that the reply at i, or any earlier one, does not know of will make
\* the source ask for the default sink again, or it is in a later reply.
AsksAgain(i) ==
    \/ news # {}
    \/ \E j \in (i + 1)..Len(replies) : replies[j].op \in {"event", "server"}
    \/ \E j \in 1..Len(requests) : requests[j].op = "server"

\* A question or an answer about a sink is behind i in its queue.
SinkAsked(i) == \E j \in (i + 1)..Len(requests) : requests[j].op = "sink"
SinkAnswered(i) == \E j \in (i + 1)..Len(replies) : replies[j].op = "sink"

\* What the server said of its default is so, or the source asks again.
DefaultsRight ==
    \A i \in 1..Len(replies) : replies[i].op = "server" =>
        replies[i].default = default \/ AsksAgain(i)

\* What the server said of a sink is so, or the source asks again.
Accurate(reply) ==
    /\ reply.found <=> reply.sink \in sinks
    /\ reply.muted = setting[reply.sink].muted
    /\ reply.volume = setting[reply.sink].volume
AnswersRight ==
    \A i \in 1..Len(replies) : replies[i].op = "sink" =>
        Accurate(replies[i]) \/ AsksAgain(i)

\* The last answer about a sink is about the default one, if there is one.
LastAnswerWanted ==
    \A i \in 1..Len(replies) : replies[i].op = "sink" =>
        \/ replies[i].sink = default \/ default = NoSink
        \/ AsksAgain(0) \/ SinkAnswered(i) \/ SinkAsked(0)
LastQuestionWanted ==
    \A i \in 1..Len(requests) : requests[i].op = "sink" =>
        \/ requests[i].sink = default \/ default = NoSink
        \/ AsksAgain(0) \/ SinkAsked(i)

\* The source has what the server has.
Fresh ==
    IF default = NoSink THEN ~source.available
    ELSE /\ source.available /\ source.sink = default
         /\ source.muted = setting[default].muted
         /\ source.volume = setting[default].volume

SourceFresh == Fresh \/ AsksAgain(0) \/ SinkAnswered(0) \/ SinkAsked(0)

\* A subscribed source gets to know every change.
Hears ==
    subscribed => /\ DefaultsRight /\ AnswersRight
                  /\ LastAnswerWanted /\ LastQuestionWanted /\ SourceFresh

\* An error is still to be seen by the service, or is about to end the source.
ErrorSeen ==
    source.context = "ready" /\ source.error =>
        \/ source.notified \/ pc = "drained"
        \/ pc \in {"flagged", "ending"} /\ ended

\* What the service has not published is notified, or will be.
SourceShown ==
    source.context = "ready" =>
        \/ source.notified \/ pc \in {"opening", "opened", "ending"}
        \/ pc \in {"drained", "flagged"} /\ changed
        \/ SinkAnswered(0) \/ SinkAsked(0)
        \/ published = SnapshotOf(source)

Inv == /\ TypeOK
       /\ DefaultKnown
       /\ Link
       /\ AsksAfterSubscribing
       /\ Hears
       /\ ErrorSeen
       /\ SourceShown

-----------------------------------------------------------------------------
(* Volumes.                                                                *)

\* The rounding of lsource_dispatch and the one of lsource_snapshot cancel out.
LEMMA RoundTrip ==
    ASSUME NEW p \in 0..100
    PROVE  /\ RawVolume(p) \in Nat
           /\ ShownVolume(RawVolume(p)) = p
<1> DEFINE r == RawVolume(p)
<1> DEFINE h == Norm \div 2
<1>1. Norm \in Nat /\ Norm >= 200 /\ p * Norm \in Nat
  BY VolumeAssumption
<1>2. r \in Nat /\ 100 * r <= p * Norm /\ p * Norm < 100 * r + 100
  BY <1>1 DEF RawVolume
<1>3. h \in Nat /\ 2 * h <= Norm /\ h >= 100
  BY <1>1
<1>4. ShownVolume(r) = (r * 100 + h) \div Norm
  BY DEF ShownVolume
<1> HIDE DEF r, h
<1>5. p * Norm <= r * 100 + h /\ r * 100 + h < p * Norm + Norm
  BY <1>1, <1>2, <1>3
<1>6. ASSUME NEW N \in Nat, NEW a \in Nat, N > 0, p * N <= a, a < p * N + N
      PROVE  a \div N = p
  BY <1>6
<1>7. (r * 100 + h) \div Norm = p
  BY <1>1, <1>2, <1>3, <1>5, <1>6
<1>8. QED
  BY <1>2, <1>4, <1>7 DEF r

\* The percentages of set-volume, and the 0 of a sink nobody has set.
LEMMA Percents == Percent \cup {0} \subseteq 0..100
  BY VolumeAssumption

\* RawVolume(0) is the volume of a new sink.
LEMMA ZeroVolume == 0 \in Volume
<1>1. RawVolume(0) = 0
  BY VolumeAssumption DEF RawVolume
<1>2. QED
  BY <1>1 DEF Volume

\* What lsource_snapshot shows of a volume is the percentage it was set to.
LEMMA ShownIsPercent ==
    ASSUME NEW v \in Volume
    PROVE  ShownVolume(v) = PercentOf(v)
<1>1. \E p \in Percent \cup {0} : RawVolume(p) = v
  BY DEF Volume
<1>2. PercentOf(v) \in Percent \cup {0} /\ RawVolume(PercentOf(v)) = v
  <2> HIDE DEF RawVolume
  <2>1. QED
    BY <1>1, Zenon DEF PercentOf
<1>3. QED
  <2> HIDE DEF RawVolume, PercentOf, ShownVolume
  <2>1. QED
    BY <1>2, RoundTrip, Percents

-----------------------------------------------------------------------------
(* Messages.                                                               *)

\* What the source and the service send.
LEMMA Requests ==
    /\ [op |-> "subscribe"] \in Request /\ [op |-> "server"] \in Request
    /\ \A s \in Sink : [op |-> "sink", sink |-> s] \in Request
    /\ \A s \in Sink, m \in BOOLEAN :
         [op |-> "mute", sink |-> s, muted |-> m] \in Request
    /\ \A s \in Sink, v \in Volume :
         [op |-> "volume", sink |-> s, volume |-> v] \in Request
  BY DEF Request

\* What the server reads in a request.
LEMMA RequestFields ==
    ASSUME NEW r \in Request
    PROVE  /\ r.op \in {"sink", "mute", "volume"} => r.sink \in Sink
           /\ r.op = "mute" => r.muted \in BOOLEAN
           /\ r.op = "volume" => r.volume \in Volume
  BY DEF Request

\* What the server sends.
LEMMA Replies ==
    /\ \A b \in BOOLEAN : [op |-> "subscribed", success |-> b] \in Reply
    /\ \A s \in Sink \cup {NoSink} : [op |-> "server", default |-> s] \in Reply
    /\ \A s \in Sink, b \in BOOLEAN, m \in BOOLEAN, v \in Volume :
         [op |-> "sink", sink |-> s, found |-> b, muted |-> m, volume |-> v] \in Reply
    /\ \A f \in {"server", "sink"} : [op |-> "event", facility |-> f] \in Reply
  BY DEF Reply

\* What a callback reads in a reply.
LEMMA ReplyFields ==
    ASSUME NEW r \in Reply
    PROVE  /\ r.op = "server" => r.default \in Sink \cup {NoSink}
           /\ r.op = "sink" => /\ r.sink \in Sink /\ r.found \in BOOLEAN
                               /\ r.muted \in BOOLEAN /\ r.volume \in Volume
           /\ r.op \in {"subscribed", "server", "sink", "event"}
  BY DEF Reply

\* Taking the first message of a queue.
LEMMA Taken ==
    ASSUME NEW S, NEW q \in Seq(S), q # <<>>
    PROVE  /\ Head(q) \in S /\ Tail(q) \in Seq(S)
           /\ Len(q) \in Nat /\ Len(q) >= 1 /\ Len(Tail(q)) = Len(q) - 1
           /\ Head(q) = q[1]
           /\ \A i \in 1..(Len(q) - 1) : Tail(q)[i] = q[i + 1]
  OBVIOUS

\* Adding a message at the end of a queue.
LEMMA Added ==
    ASSUME NEW S, NEW q \in Seq(S), NEW x \in S
    PROVE  /\ Append(q, x) \in Seq(S)
           /\ Len(q) \in Nat /\ Len(Append(q, x)) = Len(q) + 1
           /\ Append(q, x)[Len(q) + 1] = x
           /\ \A i \in 1..Len(q) : Append(q, x)[i] = q[i]
  OBVIOUS

-----------------------------------------------------------------------------
(* struct audio_source.                                                    *)

\* close_source leaves a source of the right type.
LEMMA NoSourceType == NoSource \in SourceType
  BY ZeroVolume DEF NoSource, SourceType

\* What reset_snapshot, set_error and notify leave together.
LEMMA LostSource ==
    ASSUME NEW s \in SourceType
    PROVE  /\ Lost(s) \in SourceType
           /\ ~Lost(s).available /\ Lost(s).error /\ Lost(s).notified
           /\ Lost(s).context = s.context /\ Lost(s).connected = s.connected
<1> DEFINE t == ResetSnapshot(s)
<1>1. /\ t \in SourceType /\ ~t.available
      /\ t.context = s.context /\ t.connected = s.connected
  BY ZeroVolume DEF ResetSnapshot, SourceType
<1> HIDE DEF t
<1> DEFINE u == SetError(t)
<1>2. /\ u \in SourceType /\ ~u.available /\ u.error
      /\ u.context = s.context /\ u.connected = s.connected
  BY <1>1 DEF SetError, SourceType
<1> HIDE DEF u
<1>3. /\ Notify(u) \in SourceType /\ ~Notify(u).available /\ Notify(u).error
      /\ Notify(u).notified
      /\ Notify(u).context = s.context /\ Notify(u).connected = s.connected
  BY <1>2 DEF Notify, SourceType
<1>4. Lost(s) = Notify(u)
  BY DEF Lost, u, t
<1>5. QED
  BY <1>3, <1>4

-----------------------------------------------------------------------------
(* What is on its way.                                                     *)

\* q is still there, perhaps with more behind it.
Extends(new, old) ==
    /\ Len(new) \in Nat /\ Len(new) >= Len(old)
    /\ \A i \in 1..Len(old) : new[i] = old[i]

\* A callback took a reply: what was behind it is one place nearer.
LEMMA ReplyTaken ==
    ASSUME TypeOK, replies # <<>>, replies' = Tail(replies),
           news' = news, Extends(requests', requests)
    PROVE  /\ \A i \in Nat : AsksAgain(i + 1) => AsksAgain(i)'
           /\ Head(replies).op \notin {"event", "server"} =>
                (AsksAgain(0) => AsksAgain(0)')
           /\ \A i \in Nat : SinkAnswered(i + 1) => SinkAnswered(i)'
           /\ \A i \in Nat : SinkAsked(i) => SinkAsked(i)'
<1>1. /\ Len(replies) \in Nat /\ Len(replies) >= 1 /\ Len(replies') = Len(replies) - 1
      /\ Head(replies) = replies[1]
      /\ \A i \in 1..(Len(replies) - 1) : replies'[i] = replies[i + 1]
  BY Taken DEF TypeOK
<1>2. Len(requests) \in Nat
  BY DEF TypeOK
<1>3. ASSUME NEW i \in Nat, NEW j \in (i + 2)..Len(replies)
      PROVE  j - 1 \in (i + 1)..Len(replies') /\ replies'[j - 1] = replies[j]
  BY <1>1
<1>4. \A j \in 1..Len(requests) : j \in 1..Len(requests') /\ requests'[j] = requests[j]
  BY <1>2 DEF Extends
<1>5. ASSUME NEW i \in Nat, AsksAgain(i + 1) PROVE AsksAgain(i)'
  <2>1. CASE news # {}
    BY <2>1 DEF AsksAgain
  <2>2. CASE \E j \in (i + 2)..Len(replies) : replies[j].op \in {"event", "server"}
    BY <2>2, <1>3 DEF AsksAgain
  <2>3. CASE \E j \in 1..Len(requests) : requests[j].op = "server"
    BY <2>3, <1>4 DEF AsksAgain
  <2>4. QED
    BY <1>5, <2>1, <2>2, <2>3 DEF AsksAgain
<1>6. ASSUME Head(replies).op \notin {"event", "server"}, AsksAgain(0)
      PROVE  AsksAgain(0)'
  <2>1. AsksAgain(0 + 1)
    BY <1>6, <1>1 DEF AsksAgain
  <2>2. QED
    BY <2>1, <1>5
<1>7. ASSUME NEW i \in Nat, SinkAnswered(i + 1) PROVE SinkAnswered(i)'
  <2>1. PICK j \in (i + 2)..Len(replies) : replies[j].op = "sink"
    BY <1>7 DEF SinkAnswered
  <2>2. QED
    BY <2>1, <1>3 DEF SinkAnswered
<1>8. ASSUME NEW i \in Nat, SinkAsked(i) PROVE SinkAsked(i)'
  <2>1. PICK j \in (i + 1)..Len(requests) : requests[j].op = "sink"
    BY <1>8 DEF SinkAsked
  <2>2. j \in 1..Len(requests) /\ j \in (i + 1)..Len(requests')
    BY <2>1, <1>2 DEF Extends
  <2>3. QED
    BY <2>1, <2>2, <1>4 DEF SinkAsked
<1>9. QED
  BY <1>5, <1>6, <1>7, <1>8

\* The server took a request.
LEMMA RequestTaken ==
    ASSUME TypeOK, requests # <<>>, requests' = Tail(requests),
           news' = news, Extends(replies', replies)
    PROVE  /\ Head(requests).op # "server" =>
                \A i \in Nat : AsksAgain(i) => AsksAgain(i)'
           /\ \A i \in Nat : SinkAsked(i + 1) => SinkAsked(i)'
           /\ Head(requests).op # "sink" => (SinkAsked(0) => SinkAsked(0)')
           /\ \A i \in Nat : SinkAnswered(i) => SinkAnswered(i)'
<1>1. /\ Len(requests) \in Nat /\ Len(requests) >= 1
      /\ Len(requests') = Len(requests) - 1 /\ Head(requests) = requests[1]
      /\ \A i \in 1..(Len(requests) - 1) : requests'[i] = requests[i + 1]
  BY Taken DEF TypeOK
<1>2. Len(replies) \in Nat
  BY DEF TypeOK
<1>3. ASSUME NEW i \in Nat, NEW j \in (i + 2)..Len(requests)
      PROVE  j - 1 \in (i + 1)..Len(requests') /\ requests'[j - 1] = requests[j]
  BY <1>1
<1>4. ASSUME NEW i \in Nat, NEW j \in (i + 1)..Len(replies)
      PROVE  j \in (i + 1)..Len(replies') /\ replies'[j] = replies[j]
  BY <1>2 DEF Extends
<1>5. ASSUME Head(requests).op # "server", NEW i \in Nat, AsksAgain(i)
      PROVE  AsksAgain(i)'
  <2>1. CASE news # {}
    BY <2>1 DEF AsksAgain
  <2>2. CASE \E j \in (i + 1)..Len(replies) : replies[j].op \in {"event", "server"}
    BY <2>2, <1>4 DEF AsksAgain
  <2>3. CASE \E j \in 1..Len(requests) : requests[j].op = "server"
    <3>1. PICK j \in 1..Len(requests) : requests[j].op = "server"
      BY <2>3
    <3>2. j \in (0 + 2)..Len(requests) /\ 0 \in Nat
      BY <3>1, <1>1, <1>5
    <3>3. j - 1 \in 1..Len(requests') /\ requests'[j - 1] = requests[j]
      BY <3>2, <1>1
    <3>4. QED
      BY <3>1, <3>3 DEF AsksAgain
  <2>4. QED
    BY <1>5, <2>1, <2>2, <2>3 DEF AsksAgain
<1>6. ASSUME NEW i \in Nat, SinkAsked(i + 1) PROVE SinkAsked(i)'
  <2>1. PICK j \in (i + 2)..Len(requests) : requests[j].op = "sink"
    BY <1>6 DEF SinkAsked
  <2>2. QED
    BY <2>1, <1>3 DEF SinkAsked
<1>7. ASSUME Head(requests).op # "sink", SinkAsked(0) PROVE SinkAsked(0)'
  <2>1. SinkAsked(0 + 1)
    BY <1>7, <1>1 DEF SinkAsked
  <2>2. QED
    BY <2>1, <1>6
<1>8. ASSUME NEW i \in Nat, SinkAnswered(i) PROVE SinkAnswered(i)'
  <2>1. PICK j \in (i + 1)..Len(replies) : replies[j].op = "sink"
    BY <1>8 DEF SinkAnswered
  <2>2. QED
    BY <2>1, <1>4 DEF SinkAnswered
<1>9. QED
  BY <1>5, <1>6, <1>7, <1>8

\* A queue with a message added, or as it was, is extended.
LEMMA Longer ==
    ASSUME NEW S, NEW q \in Seq(S)
    PROVE  /\ Extends(q, q)
           /\ \A x \in S : Extends(Append(q, x), q)
  BY Added DEF Extends
-----------------------------------------------------------------------------
(* Every change is heard of.                                               *)

\* A source that asks again about everything has heard of everything.
LEMMA AskingHears ==
    ASSUME \A i \in Nat : AsksAgain(i)', TypeOK'
    PROVE  Hears'
<1>1. \A i \in 1..Len(replies') : i \in Nat
  OBVIOUS
<1>2. 0 \in Nat
  OBVIOUS
<1>3. QED
  BY <1>1, <1>2 DEF Hears, DefaultsRight, AnswersRight, LastAnswerWanted,
     LastQuestionWanted, SourceFresh

\* The server has something to announce.
LEMMA NewsHears ==
    ASSUME TypeOK', subscribed' => news' # {}
    PROVE  Hears'
<1>1. CASE subscribed'
  BY <1>1, AskingHears DEF AsksAgain
<1>2. CASE ~subscribed'
  BY <1>2 DEF Hears
<1>3. QED
  BY <1>1, <1>2

\* The source has asked the server for its default.
LEMMA QuestionHears ==
    ASSUME TypeOK', \E j \in 1..Len(requests') : requests'[j].op = "server"
    PROVE  Hears'
  BY AskingHears DEF AsksAgain

\* Nothing that the argument is about has changed.
LEMMA NothingHeard ==
    ASSUME Hears, subscribed' => subscribed,
           UNCHANGED <<sinks, default, setting, news, requests, replies>>,
           source'.available = source.available, source'.sink = source.sink,
           source'.muted = source.muted, source'.volume = source.volume
    PROVE  Hears'
<1>1. CASE ~subscribed'
  BY <1>1 DEF Hears
<1>2. CASE subscribed'
  <2>1. \A i : /\ AsksAgain(i)' <=> AsksAgain(i)
               /\ SinkAsked(i)' <=> SinkAsked(i)
               /\ SinkAnswered(i)' <=> SinkAnswered(i)
    BY DEF AsksAgain, SinkAsked, SinkAnswered
  <2>2. Fresh' <=> Fresh
    BY DEF Fresh
  <2>3. \A r : Accurate(r)' <=> Accurate(r)
    BY DEF Accurate
  <2> HIDE DEF AsksAgain, SinkAsked, SinkAnswered, Fresh, Accurate
  <2>4. QED
    BY <1>2, <2>1, <2>2, <2>3 DEF Hears, DefaultsRight, AnswersRight,
       LastAnswerWanted, LastQuestionWanted, SourceFresh
<1>3. QED
  BY <1>1, <1>2

\* The server's state is as it was.
LEMMA SameServer ==
    ASSUME UNCHANGED <<sinks, default, setting>>
    PROVE  \A r : Accurate(r)' <=> Accurate(r)
  BY DEF Accurate

\* sink_info and subscribe_complete: a reply that asks for nothing.
LEMMA AnswerHears ==
    ASSUME TypeOK, DefaultKnown, Hears, TypeOK',
           replies # <<>>, replies' = Tail(replies),
           Head(replies).op \in {"subscribed", "sink"},
           UNCHANGED <<sinks, default, setting, subscribed, news, requests>>,
           Head(replies).op = "subscribed" =>
             /\ source'.available = source.available /\ source'.sink = source.sink
             /\ source'.muted = source.muted /\ source'.volume = source.volume,
           Head(replies).op = "sink" =>
             IF Head(replies).found
             THEN /\ source'.available /\ source'.sink = Head(replies).sink
                  /\ source'.muted = Head(replies).muted
                  /\ source'.volume = Head(replies).volume
             ELSE ~source'.available
    PROVE  Hears'
<1> SUFFICES ASSUME subscribed PROVE Hears'
  BY DEF Hears
<1>1. /\ Len(replies) \in Nat /\ Len(replies) >= 1 /\ Len(replies') = Len(replies) - 1
      /\ Head(replies) = replies[1]
      /\ \A i \in 1..(Len(replies) - 1) : replies'[i] = replies[i + 1]
  BY Taken DEF TypeOK
<1>2. Extends(requests', requests)
  BY Longer DEF TypeOK
<1>3. /\ \A i \in Nat : AsksAgain(i + 1) => AsksAgain(i)'
      /\ AsksAgain(0) => AsksAgain(0)'
      /\ \A i \in Nat : SinkAnswered(i + 1) => SinkAnswered(i)'
      /\ \A i \in Nat : SinkAsked(i) => SinkAsked(i)'
  BY <1>2, ReplyTaken
<1>4. \A i \in 1..Len(replies') :
        i \in Nat /\ i + 1 \in 1..Len(replies) /\ replies'[i] = replies[i + 1]
  BY <1>1
<1>5. 0 \in Nat /\ 1 \in 1..Len(replies)
  BY <1>1
<1>6. /\ DefaultsRight /\ AnswersRight /\ LastAnswerWanted /\ LastQuestionWanted
      /\ SourceFresh
  BY DEF Hears
<1>7. DefaultsRight'
  BY <1>3, <1>4, <1>6 DEF DefaultsRight
<1>8. AnswersRight'
  BY <1>3, <1>4, <1>6, SameServer DEF AnswersRight
<1>9. LastAnswerWanted'
  BY <1>3, <1>4, <1>5, <1>6 DEF LastAnswerWanted
<1>10. LastQuestionWanted'
  <2>1. \A i \in 1..Len(requests') : i \in Nat
    OBVIOUS
  <2>2. QED
    BY <1>3, <1>6, <2>1 DEF LastQuestionWanted
<1>11. SourceFresh'
  <2>1. AsksAgain(0 + 1) => AsksAgain(0)'
    BY <1>3, <1>5
  <2>2. SinkAnswered(0 + 1) => SinkAnswered(0)'
    BY <1>3, <1>5
  <2>3. SinkAsked(0) => SinkAsked(0)'
    BY <1>3, <1>5
  <2>4. CASE Head(replies).op = "subscribed"
    <3>1. Fresh => Fresh'
      BY <2>4 DEF Fresh
    <3>2. SinkAnswered(0) => SinkAnswered(0 + 1)
      BY <2>4, <1>1 DEF SinkAnswered
    <3>3. QED
      BY <1>3, <1>6, <2>2, <2>3, <3>1, <3>2 DEF SourceFresh
  <2>5. CASE Head(replies).op = "sink"
    <3>1. \/ replies[1].sink = default \/ default = NoSink
          \/ AsksAgain(0) \/ SinkAnswered(1) \/ SinkAsked(0)
      BY <2>5, <1>1, <1>5, <1>6 DEF LastAnswerWanted
    <3>2. Accurate(replies[1]) \/ AsksAgain(1)
      BY <2>5, <1>1, <1>5, <1>6 DEF AnswersRight
    <3>3. CASE /\ Accurate(replies[1])
               /\ replies[1].sink = default \/ default = NoSink
      <4>1. Fresh'
        BY <2>5, <3>3, <1>1, SinkAssumption DEF Fresh, Accurate, DefaultKnown, TypeOK
      <4>2. QED
        BY <4>1 DEF SourceFresh
    <3>4. CASE AsksAgain(1) \/ AsksAgain(0) \/ SinkAnswered(1) \/ SinkAsked(0)
      BY <3>4, <1>3, <2>1, <2>2, <2>3 DEF SourceFresh
    <3>5. QED
      BY <3>1, <3>2, <3>3, <3>4
  <2>6. QED
    BY <2>4, <2>5
<1>12. QED
  BY <1>7, <1>8, <1>9, <1>10, <1>11 DEF Hears
\* server_info: the reply to the question about the default.
LEMMA ServerInfoHears ==
    ASSUME TypeOK, DefaultKnown, Hears, TypeOK',
           replies # <<>>, replies' = Tail(replies), Head(replies).op = "server",
           UNCHANGED <<sinks, default, setting, subscribed, news>>,
           IF Head(replies).default = NoSink
           THEN requests' = requests /\ ~source'.available
           ELSE requests' = Append(requests, [op |-> "sink", sink |-> Head(replies).default])
    PROVE  Hears'
<1> SUFFICES ASSUME subscribed PROVE Hears'
  BY DEF Hears
<1> DEFINE d == Head(replies).default
<1>1. /\ Len(replies) \in Nat /\ Len(replies) >= 1 /\ Len(replies') = Len(replies) - 1
      /\ Head(replies) = replies[1] /\ Head(replies) \in Reply
      /\ \A i \in 1..(Len(replies) - 1) : replies'[i] = replies[i + 1]
  BY Taken DEF TypeOK
<1>2. d \in Sink \cup {NoSink}
  BY <1>1, ReplyFields
<1>3. d # NoSink =>
        /\ [op |-> "sink", sink |-> d] \in Request
        /\ requests' = Append(requests, [op |-> "sink", sink |-> d])
  BY <1>2, Requests
<1>4. Extends(requests', requests)
  BY <1>3, Longer DEF TypeOK
<1>5. /\ \A i \in Nat : AsksAgain(i + 1) => AsksAgain(i)'
      /\ \A i \in Nat : SinkAnswered(i + 1) => SinkAnswered(i)'
      /\ \A i \in Nat : SinkAsked(i) => SinkAsked(i)'
  BY <1>4, ReplyTaken
<1>6. \A i \in 1..Len(replies') :
        i \in Nat /\ i + 1 \in 1..Len(replies) /\ replies'[i] = replies[i + 1]
  BY <1>1
<1>7. 0 \in Nat /\ 1 \in 1..Len(replies) /\ 0 + 1 = 1
  BY <1>1
<1>8. /\ DefaultsRight /\ AnswersRight /\ LastAnswerWanted /\ LastQuestionWanted
      /\ SourceFresh
  BY DEF Hears
<1>9. d = default \/ AsksAgain(0)'
  BY <1>1, <1>5, <1>7, <1>8 DEF DefaultsRight
<1>10. DefaultsRight'
  BY <1>5, <1>6, <1>8 DEF DefaultsRight
<1>11. AnswersRight'
  BY <1>5, <1>6, <1>8, SameServer DEF AnswersRight
<1>12. CASE d = NoSink
  <2>1. default = NoSink \/ AsksAgain(0)'
    BY <1>9, <1>12
  <2>2. LastAnswerWanted' /\ LastQuestionWanted'
    BY <2>1 DEF LastAnswerWanted, LastQuestionWanted
  <2>3. default = NoSink => Fresh'
    BY <1>12 DEF Fresh
  <2>4. SourceFresh'
    BY <2>1, <2>3 DEF SourceFresh
  <2>5. QED
    BY <1>10, <1>11, <2>2, <2>4 DEF Hears
<1>13. CASE d # NoSink
  <2> DEFINE n == Len(requests) + 1
  <2>1. /\ n \in Nat /\ Len(requests') = n /\ requests'[n].op = "sink"
        /\ requests'[n].sink = d
    BY <1>3, <1>13, Added DEF TypeOK
  <2> HIDE DEF n, d
  <2>2. \A i \in 0..(n - 1) : SinkAsked(i)'
    BY <2>1 DEF SinkAsked
  <2>3. SinkAsked(0)'
    BY <2>2, Added DEF n, TypeOK
  <2>4. LastAnswerWanted' /\ SourceFresh'
    BY <2>3 DEF LastAnswerWanted, SourceFresh
  <2>5. \A i \in 1..Len(requests') : i \in 0..(n - 1) \/ i = n
    BY <2>1
  <2>6. LastQuestionWanted'
    BY <1>9, <2>1, <2>2, <2>5 DEF LastQuestionWanted
  <2>7. QED
    BY <1>10, <1>11, <2>4, <2>6 DEF Hears
<1>14. QED
  BY <1>12, <1>13

\* The server answers the question about its default.
LEMMA ServerAnswerHears ==
    ASSUME TypeOK, Hears, TypeOK', requests # <<>>, requests' = Tail(requests),
           Head(requests).op = "server",
           replies' = Append(replies, [op |-> "server", default |-> default]),
           UNCHANGED <<sinks, default, setting, subscribed, news, source>>
    PROVE  Hears'
<1> SUFFICES ASSUME subscribed PROVE Hears'
  BY DEF Hears
<1> DEFINE n == Len(replies) + 1
<1>1. [op |-> "server", default |-> default] \in Reply
  BY Replies DEF TypeOK
<1>2. /\ Len(replies) \in Nat /\ n \in Nat /\ n > 0
      /\ Len(replies') = n /\ replies'[n].op = "server"
      /\ replies'[n].default = default
      /\ \A i \in 1..(n - 1) : replies'[i] = replies[i]
  BY <1>1, Added DEF TypeOK
<1> HIDE DEF n
<1>3. \A i \in 0..(n - 1) : AsksAgain(i)'
  BY <1>2 DEF AsksAgain
<1>4. AsksAgain(0)'
  BY <1>2, <1>3
<1>5. \A i \in 1..Len(replies') : i \in 0..(n - 1) \/ i = n
  BY <1>2
<1>6. DefaultsRight'
  BY <1>2, <1>3, <1>5 DEF DefaultsRight
<1>7. AnswersRight'
  BY <1>2, <1>3, <1>5 DEF AnswersRight
<1>8. QED
  BY <1>4, <1>6, <1>7 DEF Hears, LastAnswerWanted, LastQuestionWanted, SourceFresh

\* The server announces a change.
LEMMA EventHears ==
    ASSUME TypeOK, TypeOK', NEW f \in {"server", "sink"},
           replies' = Append(replies, [op |-> "event", facility |-> f])
    PROVE  Hears'
<1> DEFINE n == Len(replies) + 1
<1>1. [op |-> "event", facility |-> f] \in Reply
  BY Replies
<1>2. /\ Len(replies) \in Nat /\ n \in Nat /\ n > 0
      /\ Len(replies') = n /\ replies'[n].op = "event"
      /\ \A i \in 1..(n - 1) : replies'[i] = replies[i]
  BY <1>1, Added DEF TypeOK
<1> HIDE DEF n
<1>3. \A i \in 0..(n - 1) : AsksAgain(i)'
  BY <1>2 DEF AsksAgain
<1>4. AsksAgain(0)'
  BY <1>2, <1>3
<1>5. \A i \in 1..Len(replies') : i \in 0..(n - 1) \/ i = n
  BY <1>2
<1>6. QED
  BY <1>2, <1>3, <1>4, <1>5 DEF Hears, DefaultsRight, AnswersRight,
     LastAnswerWanted, LastQuestionWanted, SourceFresh

\* The server answers a question about a sink.
LEMMA SinkAnswerHears ==
    ASSUME TypeOK, DefaultKnown, Hears, TypeOK',
           requests # <<>>, requests' = Tail(requests), Head(requests).op = "sink",
           UNCHANGED <<sinks, default, setting, subscribed, news, source>>,
           NEW reply \in Reply, replies' = Append(replies, reply),
           reply.op = "sink", reply.sink = Head(requests).sink, Accurate(reply)
    PROVE  Hears'
<1> SUFFICES ASSUME subscribed PROVE Hears'
  BY DEF Hears
<1> DEFINE n == Len(replies) + 1
<1>1. /\ Len(replies) \in Nat /\ n \in Nat /\ n > 0
      /\ Len(replies') = n /\ replies'[n] = reply
      /\ \A i \in 1..(n - 1) : replies'[i] = replies[i]
  BY Added DEF TypeOK
<1>2. /\ Len(requests) \in Nat /\ Len(requests) >= 1
      /\ Len(requests') = Len(requests) - 1 /\ Head(requests) = requests[1]
      /\ \A i \in 1..(Len(requests) - 1) : requests'[i] = requests[i + 1]
  BY Taken DEF TypeOK
<1>3. Extends(replies', replies)
  BY Longer DEF TypeOK
<1>4. /\ \A i \in Nat : AsksAgain(i) => AsksAgain(i)'
      /\ \A i \in Nat : SinkAsked(i + 1) => SinkAsked(i)'
  BY <1>3, RequestTaken
<1>5. /\ DefaultsRight /\ AnswersRight /\ LastAnswerWanted /\ LastQuestionWanted
      /\ SourceFresh
  BY DEF Hears
<1>6. /\ 0 \in Nat /\ 1 \in 1..Len(requests) /\ 0 + 1 = 1
      /\ 1..Len(replies) = 1..(n - 1)
  BY <1>1, <1>2
<1> HIDE DEF n
<1>7. \A i \in 1..Len(replies') : i \in Nat /\ (i \in 1..(n - 1) \/ i = n)
  BY <1>1
<1>8. \A i \in 0..(n - 1) : SinkAnswered(i)'
  BY <1>1 DEF SinkAnswered
<1>9. SinkAnswered(0)'
  BY <1>1, <1>8
<1>10. DefaultsRight'
  BY <1>1, <1>4, <1>5, <1>6, <1>7 DEF DefaultsRight
<1>11. AnswersRight'
  BY <1>1, <1>4, <1>5, <1>6, <1>7, SameServer DEF AnswersRight
<1>12. LastAnswerWanted'
  <2>1. \/ reply.sink = default \/ default = NoSink
        \/ AsksAgain(0) \/ SinkAsked(1)
    BY <1>2, <1>5, <1>6 DEF LastQuestionWanted
  <2>2. \/ reply.sink = default \/ default = NoSink
        \/ AsksAgain(0)' \/ SinkAsked(0)'
    BY <2>1, <1>4, <1>6
  <2>3. \A i \in 1..(n - 1) : SinkAnswered(i)'
    BY <1>8, <1>1
  <2>4. QED
    BY <1>1, <1>7, <2>2, <2>3 DEF LastAnswerWanted
<1>13. LastQuestionWanted'
  <2>1. \A i \in 1..Len(requests') :
          i \in Nat /\ i + 1 \in 1..Len(requests) /\ requests'[i] = requests[i + 1]
    BY <1>2
  <2>2. QED
    BY <1>4, <1>5, <1>6, <2>1 DEF LastQuestionWanted
<1>14. QED
  BY <1>9, <1>10, <1>11, <1>12, <1>13 DEF Hears, SourceFresh

\* The server takes a request to change a setting, and nothing changes.
LEMMA OrderTakenHears ==
    ASSUME TypeOK, Hears, TypeOK', requests # <<>>, requests' = Tail(requests),
           Head(requests).op \in {"mute", "volume"},
           UNCHANGED <<sinks, default, setting, subscribed, news, replies, source>>
    PROVE  Hears'
<1> SUFFICES ASSUME subscribed PROVE Hears'
  BY DEF Hears
<1>1. /\ Len(requests) \in Nat /\ Len(requests') = Len(requests) - 1
      /\ \A i \in 1..(Len(requests) - 1) : requests'[i] = requests[i + 1]
  BY Taken DEF TypeOK
<1>2. Extends(replies', replies)
  BY Longer DEF TypeOK
<1>3. /\ \A i \in Nat : AsksAgain(i) => AsksAgain(i)'
      /\ \A i \in Nat : SinkAsked(i + 1) => SinkAsked(i)'
      /\ SinkAsked(0) => SinkAsked(0)'
      /\ \A i \in Nat : SinkAnswered(i) => SinkAnswered(i)'
  BY <1>2, RequestTaken
<1>4. \A i \in 1..Len(requests') :
        i \in Nat /\ i + 1 \in 1..Len(requests) /\ requests'[i] = requests[i + 1]
  BY <1>1
<1>5. 0 \in Nat /\ \A i \in 1..Len(replies) : i \in Nat
  OBVIOUS
<1>6. Fresh => Fresh'
  BY DEF Fresh
<1>7. DefaultsRight' /\ AnswersRight'
  BY <1>3, <1>5, SameServer DEF Hears, DefaultsRight, AnswersRight
<1>8. LastAnswerWanted'
  BY <1>3, <1>5 DEF Hears, LastAnswerWanted
<1>9. LastQuestionWanted'
  BY <1>3, <1>4, <1>5 DEF Hears, LastQuestionWanted
<1>10. QED
  BY <1>3, <1>5, <1>6, <1>7, <1>8, <1>9 DEF Hears, SourceFresh

\* lsource_dispatch sends a request to change a setting.
LEMMA OrderHears ==
    ASSUME TypeOK, Hears, TypeOK', NEW r \in Request, r.op \in {"mute", "volume"},
           requests' = Append(requests, r),
           UNCHANGED <<sinks, default, setting, subscribed, news, replies, source>>
    PROVE  Hears'
<1> SUFFICES ASSUME subscribed PROVE Hears'
  BY DEF Hears
<1>1. /\ Len(requests) \in Nat /\ Len(requests') = Len(requests) + 1
      /\ requests'[Len(requests) + 1] = r
      /\ \A i \in 1..Len(requests) : requests'[i] = requests[i]
  BY Added DEF TypeOK
<1>2. \A i \in Nat : AsksAgain(i) => AsksAgain(i)'
  BY <1>1 DEF AsksAgain
<1>3. \A i \in Nat : SinkAsked(i) => SinkAsked(i)'
  BY <1>1 DEF SinkAsked
<1>4. \A i \in Nat : SinkAnswered(i) => SinkAnswered(i)'
  BY DEF SinkAnswered
<1>5. \A i \in 1..Len(requests') : requests'[i].op = "sink" =>
        i \in Nat /\ i \in 1..Len(requests) /\ requests'[i] = requests[i]
  BY <1>1
<1>6. 0 \in Nat /\ \A i \in 1..Len(replies) : i \in Nat
  OBVIOUS
<1>7. Fresh => Fresh'
  BY DEF Fresh
<1>8. DefaultsRight' /\ AnswersRight'
  BY <1>2, <1>6, SameServer DEF Hears, DefaultsRight, AnswersRight
<1>9. LastAnswerWanted'
  BY <1>2, <1>3, <1>4, <1>6 DEF Hears, LastAnswerWanted
<1>10. LastQuestionWanted'
  BY <1>2, <1>3, <1>5, <1>6 DEF Hears, LastQuestionWanted
<1>11. QED
  BY <1>2, <1>3, <1>4, <1>6, <1>7, <1>8, <1>9, <1>10 DEF Hears, SourceFresh
-----------------------------------------------------------------------------
(* Each action keeps the invariant: the service.                           *)

\* The order of the first questions does not depend on what follows them ...
LEMMA SubscribingAdded ==
    ASSUME TypeOK, AsksAfterSubscribing, NEW r \in Request, r.op # "subscribe",
           requests' = Append(requests, r)
    PROVE  AsksAfterSubscribing'
<1>1. /\ Len(requests) \in Nat /\ Len(requests') = Len(requests) + 1
      /\ requests'[Len(requests) + 1] = r
      /\ \A i \in 1..Len(requests) : requests'[i] = requests[i]
  BY Added DEF TypeOK
<1>2. QED
  BY <1>1 DEF AsksAfterSubscribing

\* ... or on what was before them.
LEMMA SubscribingTaken ==
    ASSUME TypeOK, AsksAfterSubscribing, requests # <<>>, requests' = Tail(requests)
    PROVE  AsksAfterSubscribing'
<1>1. /\ Len(requests) \in Nat /\ Len(requests') = Len(requests) - 1
      /\ \A i \in 1..(Len(requests) - 1) : requests'[i] = requests[i + 1]
  BY Taken DEF TypeOK
<1>2. SUFFICES ASSUME NEW i \in 1..Len(requests'), requests'[i].op = "subscribe"
               PROVE  \E j \in (i + 1)..Len(requests') : requests'[j].op = "server"
  BY DEF AsksAfterSubscribing
<1>3. i + 1 \in 1..Len(requests) /\ requests[i + 1].op = "subscribe"
  BY <1>1, <1>2
<1>4. PICK j \in (i + 2)..Len(requests) : requests[j].op = "server"
  BY <1>3 DEF AsksAfterSubscribing
<1>5. j - 1 \in (i + 1)..Len(requests') /\ requests'[j - 1] = requests[j]
  BY <1>1, <1>4
<1>6. QED
  BY <1>4, <1>5

\* disconnect, after which the source knows nothing and owes nothing.
LEMMA DisconnectStep ==
    ASSUME Inv, Disconnect, pc' \in {"backoff", "idle"},
           changed' \in BOOLEAN, ended' \in BOOLEAN
    PROVE  Inv'
<1>1. /\ source' = NoSource /\ source'.context = "none" /\ subscribed' = FALSE
      /\ requests' = <<>> /\ replies' = <<>> /\ news' = {}
      /\ UNCHANGED <<alive, sinks, default, setting>>
  BY DEF Disconnect, NoSource
<1>2. TypeOK'
  <2>1. <<>> \in Seq(Request) /\ <<>> \in Seq(Reply)
    OBVIOUS
  <2>2. source' \in SourceType
    BY <1>1, NoSourceType
  <2>3. QED
    BY <1>1, <2>1, <2>2 DEF Inv, TypeOK
<1>3. AsksAfterSubscribing'
  BY <1>1 DEF AsksAfterSubscribing
<1>4. QED
  BY <1>1, <1>2, <1>3 DEF Inv, DefaultKnown, Link, Hears, ErrorSeen, SourceShown

\* A step of the service that leaves the source and the server alone.
LEMMA ServiceStep ==
    ASSUME Inv, UNCHANGED <<serverVars, linkVars, source>>,
           pc' \in {"idle", "opening", "opened", "drained", "flagged", "ending"},
           changed' \in BOOLEAN, ended' \in BOOLEAN,
           source.context = "connecting" => pc' = "opening",
           ErrorSeen', SourceShown'
    PROVE  Inv'
<1>1. TypeOK'
  BY DEF Inv, TypeOK, serverVars, linkVars
<1>2. Hears'
  BY NothingHeard DEF Inv, serverVars, linkVars
<1>3. AsksAfterSubscribing'
  BY DEF Inv, AsksAfterSubscribing, linkVars
<1>4. DefaultKnown'
  BY DEF Inv, DefaultKnown, serverVars
<1>5. Link'
  BY DEF Inv, Link, serverVars, linkVars
<1>6. QED
  BY <1>1, <1>2, <1>3, <1>4, <1>5 DEF Inv

\* What is on its way only depends on the two queues.
LEMMA SameLink ==
    ASSUME UNCHANGED linkVars
    PROVE  /\ SinkAnswered(0)' <=> SinkAnswered(0)
           /\ SinkAsked(0)' <=> SinkAsked(0)
  BY DEF SinkAnswered, SinkAsked, linkVars

\* What the service would show depends on the source alone.
LEMMA SameSnapshot ==
    ASSUME source' = source
    PROVE  SnapshotOf(source)' = SnapshotOf(source)
  BY DEF SnapshotOf

\* lopen begins: nothing is on the connection yet.
LEMMA OpenStep ==
    ASSUME Inv, Open
    PROVE  Inv'
<1>1. /\ source = NoSource /\ source.context = "none" /\ source.volume = 0
      /\ source' = [NoSource EXCEPT !.context = "connecting"]
      /\ source'.context = "connecting" /\ pc' = "opening"
      /\ UNCHANGED <<serverVars, linkVars, changed, ended>>
  BY DEF Open, NoSource
<1>2. source' \in SourceType
  BY <1>1, NoSourceType DEF SourceType
<1>3. TypeOK'
  BY <1>1, <1>2 DEF Inv, TypeOK, serverVars, linkVars
<1>4. ~subscribed /\ ~subscribed' /\ requests' = <<>> /\ replies' = <<>>
  BY <1>1 DEF Inv, Link, serverVars, linkVars
<1>5. AsksAfterSubscribing'
  BY <1>4 DEF AsksAfterSubscribing
<1>6. QED
  BY <1>1, <1>3, <1>4, <1>5 DEF Inv, DefaultKnown, Link, Hears, ErrorSeen,
     SourceShown, serverVars

\* lopen returns or fails, or the idle handler ends a source.
LEMMA OpenEnds ==
    ASSUME Inv, OpenFails \/ OpenReturns \/ End
    PROVE  Inv'
<1>1. CASE OpenFails \/ End
  <2>1. changed' \in BOOLEAN /\ ended' \in BOOLEAN
    BY <1>1 DEF OpenFails, End, Inv, TypeOK
  <2>2. QED
    BY <1>1, <2>1, DisconnectStep DEF OpenFails, End
<1>2. CASE OpenReturns
  <2>1. changed' \in BOOLEAN /\ ended' \in BOOLEAN
    BY <1>2 DEF OpenReturns, Inv, TypeOK
  <2>2. CASE Disconnect /\ pc' = "backoff"
    BY <2>1, <2>2, DisconnectStep
  <2>3. CASE /\ source.context = "ready" /\ pc' = "opened"
             /\ UNCHANGED <<serverVars, linkVars, source, published>>
    <3>1. ErrorSeen' /\ SourceShown'
      BY <1>2, <2>3 DEF OpenReturns, Inv, ErrorSeen, SourceShown
    <3>2. QED
      BY <2>1, <2>3, <3>1, ServiceStep
  <2>4. QED
    BY <1>2, <2>2, <2>3 DEF OpenReturns
<1>3. QED
  BY <1>1, <1>2

\* The end of connect publishes a first snapshot.
LEMMA ConnectedStep ==
    ASSUME Inv, Connected
    PROVE  Inv'
<1>1. /\ pc = "opened" /\ pc' = "idle" /\ published' = SnapshotOf(source)
      /\ UNCHANGED <<serverVars, linkVars, source, changed, ended>>
  BY DEF Connected
<1>2. SourceShown'
  BY <1>1, SameSnapshot DEF SourceShown
<1>3. ErrorSeen'
  BY <1>1 DEF Inv, ErrorSeen
<1>4. changed' \in BOOLEAN /\ ended' \in BOOLEAN
  BY <1>1 DEF Inv, TypeOK
<1>5. source.context # "connecting"
  BY <1>1 DEF Inv, Link
<1>6. QED
  BY <1>1, <1>2, <1>3, <1>4, <1>5, ServiceStep

\* lsource_wait drains the pipe and remembers that it was not empty.
LEMMA WaitStep ==
    ASSUME Inv, WaitReturns
    PROVE  Inv'
<1>1. /\ pc = "idle" /\ pc' = "drained" /\ changed' = source.notified
      /\ source' = [source EXCEPT !.notified = FALSE]
      /\ UNCHANGED <<serverVars, linkVars, ended, published>>
  BY DEF WaitReturns
<1>2. source \in SourceType
  BY DEF Inv, TypeOK
<1>3. /\ source' \in SourceType /\ changed' \in BOOLEAN
      /\ source'.context = source.context /\ source'.connected = source.connected
      /\ source'.available = source.available /\ source'.sink = source.sink
      /\ source'.muted = source.muted /\ source'.volume = source.volume
      /\ source'.error = source.error
  BY <1>1, <1>2 DEF SourceType
<1>4. TypeOK'
  BY <1>1, <1>3 DEF Inv, TypeOK, serverVars, linkVars
<1>5. Hears'
  BY <1>1, <1>3, NothingHeard DEF Inv, serverVars, linkVars
<1>6. AsksAfterSubscribing' /\ DefaultKnown'
  BY <1>1 DEF Inv, AsksAfterSubscribing, DefaultKnown, linkVars, serverVars
<1>7. Link'
  BY <1>1, <1>3 DEF Inv, Link, serverVars, linkVars
<1>8. ErrorSeen'
  BY <1>1 DEF ErrorSeen
<1>9. SnapshotOf(source)' = SnapshotOf(source)
  BY <1>3 DEF SnapshotOf
<1>10. SourceShown'
  <2> HIDE DEF SnapshotOf
  <2>1. QED
    BY <1>1, <1>3, <1>9, SameLink DEF Inv, SourceShown
<1>11. QED
  BY <1>4, <1>5, <1>6, <1>7, <1>8, <1>10 DEF Inv

\* lsource_wait reads an error that is still there.
LEMMA FlagsStep ==
    ASSUME Inv, ReadFlags
    PROVE  Inv'
<1>1. /\ pc = "drained" /\ pc' = "flagged"
      /\ ended' = (source.error \/ (~source.connected /\ source.context = "failed"))
      /\ UNCHANGED <<serverVars, linkVars, source, changed, published>>
  BY DEF ReadFlags
<1>2. changed' \in BOOLEAN /\ ended' \in BOOLEAN /\ (source.error => ended')
  <2>1. source.error \in BOOLEAN
    BY DEF Inv, TypeOK, SourceType
  <2>2. QED
    BY <1>1, <2>1, Zenon DEF Inv, TypeOK
<1>3. ErrorSeen'
  BY <1>1, <1>2 DEF ErrorSeen
<1>4. SourceShown'
  BY <1>1, SameLink, SameSnapshot DEF Inv, SourceShown
<1>5. source.context # "connecting"
  BY <1>1 DEF Inv, Link
<1>6. QED
  BY <1>1, <1>2, <1>3, <1>4, <1>5, ServiceStep

\* The idle handler publishes after a notification.
LEMMA PublishStep ==
    ASSUME Inv, PublishChanged
    PROVE  Inv'
<1>1. /\ pc = "flagged" /\ pc' = IF ended THEN "ending" ELSE "idle"
      /\ published' = IF changed THEN SnapshotOf(source) ELSE published
      /\ changed' = FALSE
      /\ UNCHANGED <<serverVars, linkVars, source, ended>>
  BY DEF PublishChanged
<1>2. changed' \in BOOLEAN /\ ended' \in BOOLEAN
  BY <1>1 DEF Inv, TypeOK
<1>3. ErrorSeen'
  BY <1>1 DEF Inv, ErrorSeen
<1>4. SourceShown'
  <2> HIDE DEF SnapshotOf
  <2>1. QED
    BY <1>1, SameLink, SameSnapshot DEF Inv, SourceShown
<1>5. source.context # "connecting"
  BY <1>1 DEF Inv, Link
<1>6. QED
  BY <1>1, <1>2, <1>3, <1>4, <1>5, ServiceStep

\* The backoff ends, or a reload changes the delays.
LEMMA BackoffStep ==
    ASSUME Inv, BackoffEnds \/ BackoffWoken \/ Reload
    PROVE  Inv'
<1>1. /\ pc \in {"idle", "backoff"} /\ pc' = "idle"
      /\ UNCHANGED <<serverVars, linkVars, source, changed, ended, published>>
  BY DEF BackoffEnds, BackoffWoken, Reload
<1>2. changed' \in BOOLEAN /\ ended' \in BOOLEAN
  BY <1>1 DEF Inv, TypeOK
<1>3. source.context # "connecting" /\ (pc = "backoff" => source.context = "none")
  BY <1>1 DEF Inv, Link
<1>4. ErrorSeen'
  BY <1>1, <1>3 DEF Inv, ErrorSeen
<1>5. SourceShown'
  BY <1>1, <1>3, SameLink, SameSnapshot DEF Inv, SourceShown
<1>6. QED
  BY <1>1, <1>2, <1>3, <1>4, <1>5, ServiceStep

\* lsource_dispatch.
LEMMA DispatchStep ==
    ASSUME Inv, NEW r \in Request, r.op \in {"mute", "volume"}, Dispatch(r)
    PROVE  Inv'
<1>1. /\ pc = "idle"
      /\ UNCHANGED <<serverVars, replies, serviceVars>>
      /\ IF source.context = "ready"
         THEN requests' = Append(requests, r) /\ UNCHANGED source
         ELSE source' = SetError(source) /\ UNCHANGED requests
  BY DEF Dispatch
<1>2. TypeOK
  BY DEF Inv
<1>3. CASE source.context = "ready"
  <2>1. requests' = Append(requests, r) /\ requests' \in Seq(Request)
    <3>1. requests \in Seq(Request)
      BY <1>2 DEF TypeOK
    <3>2. requests' = Append(requests, r)
      BY <1>1, <1>3
    <3>3. QED
      BY <3>1, <3>2, Added
  <2>2. TypeOK'
    BY <1>1, <1>3, <2>1 DEF Inv, TypeOK, serverVars, serviceVars
  <2>3. Hears'
    BY <1>1, <1>2, <1>3, <2>2, OrderHears DEF Inv, serverVars
  <2>4. AsksAfterSubscribing'
    BY <1>2, <2>1, SubscribingAdded DEF Inv
  <2>5. DefaultKnown' /\ Link' /\ ErrorSeen'
    BY <1>1, <1>3 DEF Inv, DefaultKnown, Link, ErrorSeen, serverVars, serviceVars
  <2>6. /\ Len(requests) \in Nat /\ Len(requests') = Len(requests) + 1
        /\ \A i \in 1..Len(requests) : requests'[i] = requests[i]
    BY <1>2, <2>1, Added DEF TypeOK
  <2>7. /\ SinkAsked(0) => SinkAsked(0)'
        /\ SinkAnswered(0) => SinkAnswered(0)'
    BY <1>1, <2>6 DEF SinkAsked, SinkAnswered
  <2>8. SourceShown'
    BY <1>1, <1>3, <2>7, SameSnapshot DEF Inv, SourceShown, serviceVars
  <2>9. QED
    BY <2>2, <2>3, <2>4, <2>5, <2>8 DEF Inv
<1>4. CASE source.context # "ready"
  <2>1. source' = SetError(source) /\ source \in SourceType
    BY <1>1, <1>2, <1>4 DEF TypeOK
  <2>2. source' \in SourceType /\ source'.context = source.context
    BY <2>1 DEF SetError, SourceType
  <2>3. TypeOK'
    BY <1>1, <1>2, <1>4, <2>2 DEF TypeOK, serverVars, serviceVars
  <2>4. ~subscribed /\ ~subscribed' /\ requests' = <<>> /\ replies' = <<>>
    BY <1>1, <1>4 DEF Inv, Link, serverVars
  <2>5. AsksAfterSubscribing'
    BY <2>4 DEF AsksAfterSubscribing
  <2>6. Link' /\ DefaultKnown'
    BY <1>1, <1>4, <2>2, <2>4 DEF Inv, Link, DefaultKnown, serverVars, serviceVars
  <2>7. QED
    BY <1>4, <2>2, <2>3, <2>4, <2>5, <2>6 DEF Inv, Hears, ErrorSeen, SourceShown
<1>5. QED
  BY <1>3, <1>4

\* set-volume, set-mute and toggle-mute.
LEMMA UserStep ==
    ASSUME Inv, User
    PROVE  Inv'
<1>1. source.sink \in Sink \cup {NoSink} /\ source.muted \in BOOLEAN
  BY DEF Inv, TypeOK, SourceType
<1>2. ASSUME NEW p \in Percent, SetVolume(p) PROVE Inv'
  <2>1. source.sink \in Sink
    BY <1>1, <1>2 DEF SetVolume, Dispatch
  <2>2. RawVolume(p) \in Volume
    BY DEF Volume
  <2> DEFINE r == [op |-> "volume", sink |-> source.sink, volume |-> RawVolume(p)]
  <2>3. r \in Request /\ r.op \in {"mute", "volume"}
    <3> HIDE DEF RawVolume
    <3>1. QED
      BY <2>1, <2>2, Requests
  <2>4. Dispatch(r)
    BY <1>2 DEF SetVolume
  <2> HIDE DEF r
  <2>5. QED
    BY <2>3, <2>4, DispatchStep
<1>3. ASSUME NEW m \in BOOLEAN, SetMute(m) PROVE Inv'
  <2>1. source.sink \in Sink
    BY <1>1, <1>3 DEF SetMute, Dispatch
  <2> DEFINE r == [op |-> "mute", sink |-> source.sink, muted |-> m]
  <2>2. r \in Request /\ r.op \in {"mute", "volume"}
    BY <2>1, Requests
  <2>3. Dispatch(r)
    BY <1>3 DEF SetMute
  <2> HIDE DEF r
  <2>4. QED
    BY <2>2, <2>3, DispatchStep
<1>4. (~source.muted) \in BOOLEAN
  BY <1>1
<1>5. QED
  BY <1>2, <1>3, <1>4 DEF User, ToggleMute
-----------------------------------------------------------------------------
(* ... the callbacks ...                                                   *)

\* context_state_changed subscribes and asks when the context is ready.
LEMMA ReadyStep ==
    ASSUME Inv, ContextReady
    PROVE  Inv'
<1>1. /\ source.context = "connecting" /\ pc = "opening"
      /\ source' = [source EXCEPT !.context = "ready", !.connected = TRUE,
                                  !.error = FALSE]
      /\ requests' = <<[op |-> "subscribe"], [op |-> "server"]>>
      /\ UNCHANGED <<serverVars, replies, serviceVars>>
  BY DEF ContextReady, Inv, Link
<1>2. /\ source' \in SourceType /\ source'.context = "ready"
      /\ source'.connected /\ ~source'.error
  BY <1>1 DEF Inv, TypeOK, SourceType
<1>3. requests' \in Seq(Request)
  BY <1>1, Requests
<1>4. TypeOK'
  BY <1>1, <1>2, <1>3 DEF Inv, TypeOK, serverVars, serviceVars
<1>5. AsksAfterSubscribing'
  <2>1. Len(requests') = 2 /\ requests'[2].op = "server" /\ requests'[1].op = "subscribe"
    BY <1>1
  <2>2. QED
    BY <2>1 DEF AsksAfterSubscribing
<1>6. ~subscribed'
  BY <1>1 DEF Inv, Link, serverVars
<1>7. Link' /\ DefaultKnown'
  BY <1>1, <1>2, <1>6 DEF Inv, Link, DefaultKnown, serverVars, serviceVars
<1>8. QED
  BY <1>1, <1>2, <1>4, <1>5, <1>6, <1>7 DEF Inv, Hears, ErrorSeen, SourceShown,
     serviceVars

\* context_state_changed drops everything when the context has failed.
LEMMA FailedStep ==
    ASSUME Inv, ContextFails
    PROVE  Inv'
<1>1. /\ source.context \in {"connecting", "ready"} /\ ~alive
      /\ source' = [Lost(source) EXCEPT !.context = "failed", !.connected = FALSE]
      /\ requests' = <<>> /\ replies' = <<>>
      /\ UNCHANGED <<serverVars, serviceVars>>
  BY DEF ContextFails
<1>2. Lost(source) \in SourceType
  BY LostSource DEF Inv, TypeOK
<1>3. source' \in SourceType /\ source'.context = "failed"
  <2> DEFINE l == Lost(source)
  <2>1. l \in SourceType /\ source' = [l EXCEPT !.context = "failed", !.connected = FALSE]
    BY <1>1, <1>2
  <2> HIDE DEF l
  <2>2. QED
    BY <2>1 DEF SourceType
<1>4. TypeOK'
  <2>1. <<>> \in Seq(Request) /\ <<>> \in Seq(Reply)
    OBVIOUS
  <2>2. QED
    BY <1>1, <1>3, <2>1 DEF Inv, TypeOK, serverVars, serviceVars
<1>5. AsksAfterSubscribing'
  BY <1>1 DEF AsksAfterSubscribing
<1>6. ~subscribed'
  BY <1>1 DEF Inv, Link, serverVars
<1>7. Link' /\ DefaultKnown'
  BY <1>1, <1>3, <1>6 DEF Inv, Link, DefaultKnown, serverVars, serviceVars
<1>8. QED
  BY <1>3, <1>4, <1>5, <1>6, <1>7 DEF Inv, Hears, ErrorSeen, SourceShown

\* What every callback that takes a reply does.
Takes ==
    /\ source.context = "ready" /\ replies # <<>> /\ replies' = Tail(replies)
    /\ UNCHANGED <<serverVars, serviceVars>>

\* A callback whose effect on the rest of the state is known.
LEMMA TakesStep ==
    ASSUME Inv, Takes, source' \in SourceType, requests' \in Seq(Request),
           source'.context = "ready", source'.connected = source.connected,
           AsksAfterSubscribing', TypeOK' => Hears',
           source'.error => source.error \/ source'.notified,
           source.notified => source'.notified,
           source'.notified \/ SinkAsked(0)' \/
             (source' = source /\
                (SinkAnswered(0) \/ SinkAsked(0) => SinkAnswered(0)' \/ SinkAsked(0)'))
    PROVE  Inv'
<1>1. /\ source.context = "ready" /\ UNCHANGED <<serverVars, serviceVars>>
      /\ replies' \in Seq(Reply)
  BY Taken DEF Takes, Inv, TypeOK
<1>2. TypeOK'
  BY <1>1 DEF Inv, TypeOK, serverVars, serviceVars
<1>3. Link' /\ DefaultKnown'
  BY <1>1 DEF Inv, Link, DefaultKnown, serverVars, serviceVars
<1>4. ErrorSeen'
  BY <1>1 DEF Inv, ErrorSeen, serviceVars
<1>5. SourceShown'
  BY <1>1, SameSnapshot DEF Inv, SourceShown, serviceVars
<1>6. QED
  BY <1>2, <1>3, <1>4, <1>5 DEF Inv

\* Answers about sinks are one place nearer unless the one taken was the last.
LEMMA SinkNearer ==
    ASSUME TypeOK, replies # <<>>, replies' = Tail(replies),
           Extends(requests', requests), Head(replies).op # "sink"
    PROVE  SinkAnswered(0) \/ SinkAsked(0) => SinkAnswered(0)' \/ SinkAsked(0)'
<1>1. /\ Len(replies) \in Nat /\ Len(replies) >= 1 /\ Len(replies') = Len(replies) - 1
      /\ Head(replies) = replies[1]
      /\ \A i \in 1..(Len(replies) - 1) : replies'[i] = replies[i + 1]
  BY Taken DEF TypeOK
<1>2. ASSUME SinkAnswered(0) PROVE SinkAnswered(0)'
  <2>1. PICK j \in 1..Len(replies) : replies[j].op = "sink"
    BY <1>2 DEF SinkAnswered
  <2>2. j - 1 \in (0 + 1)..Len(replies') /\ replies'[j - 1] = replies[j]
    BY <1>1, <2>1
  <2>3. QED
    BY <2>1, <2>2 DEF SinkAnswered
<1>3. ASSUME SinkAsked(0) PROVE SinkAsked(0)'
  <2>1. Len(requests) \in Nat
    BY DEF TypeOK
  <2>2. PICK j \in 1..Len(requests) : requests[j].op = "sink"
    BY <1>3 DEF SinkAsked
  <2>3. j \in (0 + 1)..Len(requests') /\ requests'[j] = requests[j]
    BY <2>1, <2>2 DEF Extends
  <2>4. QED
    BY <2>2, <2>3 DEF SinkAsked
<1>4. QED
  BY <1>2, <1>3

\* subscribe_complete notifies of a refusal.
LEMMA SubscribeCompleteStep ==
    ASSUME Inv, Takes, Head(replies).op = "subscribed",
           SubscribeComplete(Head(replies).success)
    PROVE  Inv'
<1>1. TypeOK /\ source \in SourceType /\ requests \in Seq(Request)
  BY DEF Inv, TypeOK
<1>2. requests' = requests
  BY DEF SubscribeComplete
<1>3. source' = source \/ source' = Notify(SetError(source))
  BY DEF SubscribeComplete
<1>4. /\ source' \in SourceType
      /\ source'.context = source.context /\ source'.connected = source.connected
      /\ source'.available = source.available /\ source'.sink = source.sink
      /\ source'.muted = source.muted /\ source'.volume = source.volume
      /\ source' = source \/ source'.notified
      /\ source.notified => source'.notified
      /\ source'.error => source.error \/ source'.notified
  <2>1. CASE source' = source
    BY <1>1, <2>1
  <2>2. CASE source' = Notify(SetError(source))
    <3> DEFINE e == SetError(source)
    <3>1. /\ e \in SourceType /\ e.context = source.context
          /\ e.connected = source.connected
          /\ e.available = source.available /\ e.sink = source.sink
          /\ e.muted = source.muted /\ e.volume = source.volume
      BY <1>1 DEF SetError, SourceType
    <3>2. source' = [e EXCEPT !.notified = TRUE]
      BY <2>2 DEF Notify
    <3> HIDE DEF e
    <3>3. QED
      BY <3>1, <3>2 DEF SourceType
  <2>3. QED
    BY <1>3, <2>1, <2>2
<1>5. AsksAfterSubscribing'
  BY <1>2 DEF Inv, AsksAfterSubscribing
<1>6. TypeOK' => Hears'
  BY <1>1, <1>2, <1>4, AnswerHears DEF Inv, Takes, serverVars
<1>7. Extends(requests', requests)
  BY <1>1, <1>2, Longer
<1>8. SinkAnswered(0) \/ SinkAsked(0) => SinkAnswered(0)' \/ SinkAsked(0)'
  BY <1>1, <1>7, SinkNearer DEF Takes
<1>9. QED
  BY <1>1, <1>2, <1>4, <1>5, <1>6, <1>8, TakesStep DEF Takes

\* subscribe_event asks for the default sink, whatever the event is about.
LEMMA SubscribeEventStep ==
    ASSUME Inv, Takes, Head(replies).op = "event",
           SubscribeEvent(Head(replies).facility)
    PROVE  Inv'
<1> DEFINE r == [op |-> "server"]
<1>1. TypeOK /\ source \in SourceType /\ requests \in Seq(Request) /\ r \in Request
  BY Requests DEF Inv, TypeOK
<1>2. source' = source /\ requests' = Append(requests, r)
  BY DEF Takes, SubscribeEvent, RequestServerInfo, Ask
<1>3. r.op = "server" /\ r.op # "subscribe"
  OBVIOUS
<1> HIDE DEF r
<1>4. /\ requests' \in Seq(Request) /\ Len(requests) \in Nat
      /\ Len(requests') = Len(requests) + 1 /\ requests'[Len(requests) + 1] = r
  BY <1>1, <1>2, Added
<1>5. AsksAfterSubscribing'
  BY <1>1, <1>2, <1>3, SubscribingAdded DEF Inv
<1>6. TypeOK' => Hears'
  <2>1. Len(requests) + 1 \in 1..Len(requests')
    BY <1>4
  <2>2. QED
    BY <1>3, <1>4, <2>1, QuestionHears
<1>7. Extends(requests', requests)
  BY <1>1, <1>2, Longer
<1>8. SinkAnswered(0) \/ SinkAsked(0) => SinkAnswered(0)' \/ SinkAsked(0)'
  BY <1>1, <1>7, SinkNearer DEF Takes
<1>9. QED
  BY <1>1, <1>2, <1>4, <1>5, <1>6, <1>8, TakesStep DEF Takes

\* server_info asks for the sink it is told of, or reports that there is none.
LEMMA ServerInfoStep ==
    ASSUME Inv, Takes, Head(replies).op = "server",
           ServerInfo(Head(replies).default)
    PROVE  Inv'
<1> DEFINE d == Head(replies).default
<1> DEFINE s == [source EXCEPT !.sink = d]
<1> DEFINE r == [op |-> "sink", sink |-> d]
<1>1. TypeOK /\ source \in SourceType /\ requests \in Seq(Request)
  BY DEF Inv, TypeOK
<1>2. d \in Sink \cup {NoSink}
  BY <1>1, Taken, ReplyFields DEF TypeOK, Takes
<1>3. /\ s \in SourceType /\ s.sink = d /\ s.context = "ready"
      /\ s.connected = source.connected /\ s.error = source.error
      /\ s.notified = source.notified
  BY <1>1, <1>2 DEF Takes, SourceType
<1>4. IF d = NoSink THEN source' = Lost(s) /\ requests' = requests
      ELSE source' = s /\ requests' = Append(requests, r)
  BY <1>3 DEF ServerInfo, RequestSinkInfo, Ask
<1> HIDE DEF s
<1>5. CASE d = NoSink
  <2>1. /\ source' \in SourceType /\ ~source'.available /\ source'.error
        /\ source'.notified /\ source'.context = "ready"
        /\ source'.connected = source.connected
    BY <1>3, <1>4, <1>5, LostSource
  <2>2. requests' = requests
    BY <1>4, <1>5
  <2>3. AsksAfterSubscribing'
    BY <2>2 DEF Inv, AsksAfterSubscribing
  <2>4. TypeOK' => Hears'
    BY <1>1, <1>5, <2>1, <2>2, ServerInfoHears DEF Inv, Takes, serverVars
  <2>5. QED
    BY <1>1, <2>1, <2>2, <2>3, <2>4, TakesStep
<1>6. CASE d # NoSink
  <2>1. r \in Request /\ r.op = "sink"
    BY <1>2, <1>6, Requests
  <2>2. source' = s /\ requests' = Append(requests, r)
    BY <1>4, <1>6
  <2>3. AsksAfterSubscribing'
    <3> HIDE DEF r
    <3>1. QED
      BY <1>1, <2>1, <2>2, SubscribingAdded DEF Inv
  <2>4. TypeOK' => Hears'
    BY <1>1, <1>6, <2>2, ServerInfoHears DEF Inv, Takes, serverVars
  <2> HIDE DEF r
  <2>5. /\ requests' \in Seq(Request) /\ Len(requests) \in Nat
        /\ Len(requests') = Len(requests) + 1 /\ requests'[Len(requests) + 1] = r
    BY <1>1, <2>1, <2>2, Added
  <2>6. SinkAsked(0)'
    <3>1. Len(requests) + 1 \in (0 + 1)..Len(requests')
      BY <2>5
    <3>2. QED
      BY <2>1, <2>5, <3>1 DEF SinkAsked
  <2>7. QED
    BY <1>1, <1>3, <2>2, <2>3, <2>4, <2>5, <2>6, TakesStep
<1>7. QED
  BY <1>5, <1>6

\* sink_info takes over what it is told and notifies.
LEMMA SinkInfoStep ==
    ASSUME Inv, Takes, Head(replies).op = "sink", SinkInfo(Head(replies))
    PROVE  Inv'
<1> DEFINE r == Head(replies)
<1>1. TypeOK /\ source \in SourceType /\ requests \in Seq(Request)
  BY DEF Inv, TypeOK
<1>2. /\ r.sink \in Sink /\ r.found \in BOOLEAN
      /\ r.muted \in BOOLEAN /\ r.volume \in Volume
  BY <1>1, Taken, ReplyFields DEF TypeOK, Takes
<1>3. requests' = requests
  BY DEF SinkInfo
<1>4. /\ source' \in SourceType /\ source'.notified
      /\ source'.context = source.context /\ source'.connected = source.connected
      /\ IF r.found
         THEN /\ source'.available /\ source'.sink = r.sink
              /\ source'.muted = r.muted /\ source'.volume = r.volume
         ELSE ~source'.available
  <2>1. CASE ~r.found
    <3>1. source' = Lost(source)
      BY <2>1 DEF SinkInfo
    <3>2. QED
      BY <1>1, <2>1, <3>1, LostSource
  <2>2. CASE r.found
    <3> DEFINE s == [source EXCEPT !.sink = r.sink, !.muted = r.muted,
                       !.volume = r.volume, !.available = TRUE, !.error = FALSE]
    <3>1. source' = [s EXCEPT !.notified = TRUE]
      BY <2>2 DEF SinkInfo, Notify
    <3>2. /\ s \in SourceType /\ s.context = source.context
          /\ s.connected = source.connected
          /\ s.available /\ s.sink = r.sink /\ s.muted = r.muted
          /\ s.volume = r.volume
      <4> HIDE DEF r
      <4>1. QED
        BY <1>1, <1>2 DEF SourceType
    <3> HIDE DEF s, r
    <3>3. QED
      BY <2>2, <3>1, <3>2 DEF SourceType
  <2>3. QED
    BY <2>1, <2>2
<1>5. AsksAfterSubscribing'
  BY <1>3 DEF Inv, AsksAfterSubscribing
<1>6. TypeOK' => Hears'
  BY <1>1, <1>3, <1>4, AnswerHears DEF Inv, Takes, serverVars
<1>7. QED
  BY <1>1, <1>3, <1>4, <1>5, <1>6, TakesStep DEF Takes

\* Every callback keeps the invariant.
LEMMA CallbackStep ==
    ASSUME Inv, Callback
    PROVE  Inv'
<1>1. Takes
  BY DEF Callback, Takes
<1>2. QED
  BY <1>1, SubscribeCompleteStep, SubscribeEventStep, ServerInfoStep, SinkInfoStep
     DEF Callback
-----------------------------------------------------------------------------
(* ... and the server.                                                     *)

\* What the server does leaves the source and the service alone.
LEMMA ServerStep ==
    ASSUME Inv, UNCHANGED <<source, serviceVars>>,
           alive' \in BOOLEAN, subscribed' \in BOOLEAN,
           sinks' \in SUBSET Sink, default' \in Sink \cup {NoSink},
           setting' \in [Sink -> Setting], news' \in SUBSET {"server", "sink"},
           requests' \in Seq(Request), replies' \in Seq(Reply),
           DefaultKnown', Link', AsksAfterSubscribing', TypeOK' => Hears',
           SinkAnswered(0) \/ SinkAsked(0) => SinkAnswered(0)' \/ SinkAsked(0)'
    PROVE  Inv'
<1>1. TypeOK'
  BY DEF Inv, TypeOK, serviceVars
<1>2. ErrorSeen'
  BY DEF Inv, ErrorSeen, serviceVars
<1>3. SourceShown'
  BY SameSnapshot DEF Inv, SourceShown, serviceVars
<1>4. QED
  BY <1>1, <1>2, <1>3 DEF Inv

\* A request is taken: what follows it is one place nearer.
LEMMA RequestNearer ==
    ASSUME TypeOK, requests # <<>>, requests' = Tail(requests),
           \/ Extends(replies', replies) /\ Head(requests).op # "sink"
           \/ \E reply \in Reply : reply.op = "sink" /\ replies' = Append(replies, reply)
    PROVE  SinkAnswered(0) \/ SinkAsked(0) => SinkAnswered(0)' \/ SinkAsked(0)'
<1>1. CASE \E reply \in Reply : reply.op = "sink" /\ replies' = Append(replies, reply)
  <2>1. PICK reply \in Reply : reply.op = "sink" /\ replies' = Append(replies, reply)
    BY <1>1
  <2>2. /\ Len(replies) \in Nat /\ Len(replies') = Len(replies) + 1
        /\ replies'[Len(replies) + 1].op = "sink"
    BY <2>1, Added DEF TypeOK
  <2>3. Len(replies) + 1 \in (0 + 1)..Len(replies')
    BY <2>2
  <2>4. QED
    BY <2>2, <2>3 DEF SinkAnswered
<1>2. CASE Extends(replies', replies) /\ Head(requests).op # "sink"
  <2>1. /\ Len(requests) \in Nat /\ Len(requests) >= 1
        /\ Len(requests') = Len(requests) - 1 /\ Head(requests) = requests[1]
        /\ \A i \in 1..(Len(requests) - 1) : requests'[i] = requests[i + 1]
    BY Taken DEF TypeOK
  <2>2. ASSUME SinkAsked(0) PROVE SinkAsked(0)'
    <3>1. PICK j \in 1..Len(requests) : requests[j].op = "sink"
      BY <2>2 DEF SinkAsked
    <3>2. j - 1 \in (0 + 1)..Len(requests') /\ requests'[j - 1] = requests[j]
      BY <1>2, <2>1, <3>1
    <3>3. QED
      BY <3>1, <3>2 DEF SinkAsked
  <2>3. ASSUME SinkAnswered(0) PROVE SinkAnswered(0)'
    <3>1. PICK j \in 1..Len(replies) : replies[j].op = "sink"
      BY <2>3 DEF SinkAnswered
    <3>2. Len(replies) \in Nat
      BY DEF TypeOK
    <3>3. j \in (0 + 1)..Len(replies') /\ replies'[j] = replies[j]
      BY <1>2, <3>1, <3>2 DEF Extends
    <3>4. QED
      BY <3>1, <3>3 DEF SinkAnswered
  <2>4. QED
    BY <2>2, <2>3
<1>3. QED
  BY <1>1, <1>2

\* The queues after the server has taken a request and perhaps answered it.
Served ==
    /\ alive /\ requests # <<>> /\ requests' = Tail(requests)
    /\ UNCHANGED <<alive, sinks, default, source, serviceVars>>

\* What taking a request leaves of the connection.
LEMMA ServedQueues ==
    ASSUME Inv, Served
    PROVE  /\ source.context = "ready"
           /\ requests \in Seq(Request) /\ replies \in Seq(Reply)
           /\ Head(requests) \in Request
           /\ requests' \in Seq(Request)
           /\ AsksAfterSubscribing' /\ DefaultKnown'
           /\ (news' # {} => subscribed') => Link'
<1>1. TypeOK /\ requests \in Seq(Request) /\ replies \in Seq(Reply)
  BY DEF Inv, TypeOK
<1>2. Head(requests) \in Request /\ requests' \in Seq(Request)
  BY <1>1, Taken DEF Served
<1>3. source.context = "ready"
  BY DEF Inv, Link, Served
<1>4. AsksAfterSubscribing'
  BY <1>1, SubscribingTaken DEF Inv, Served
<1>5. DefaultKnown'
  BY DEF Inv, DefaultKnown, Served
<1>6. (news' # {} => subscribed') => Link'
  BY <1>3 DEF Inv, Link, Served, serviceVars
<1>7. QED
  BY <1>1, <1>2, <1>3, <1>4, <1>5, <1>6

\* A subscription begins with the question for the default still to be answered.
LEMMA ServeSubscribe ==
    ASSUME Inv, Served, Head(requests).op = "subscribe", subscribed' \in BOOLEAN,
           subscribed => subscribed',
           Answer([op |-> "subscribed", success |-> subscribed']),
           UNCHANGED <<setting, news>>
    PROVE  Inv'
<1> DEFINE reply == [op |-> "subscribed", success |-> subscribed']
<1>1. TypeOK
  BY DEF Inv
<1>2. reply \in Reply
  BY Replies
<1>3. replies' = Append(replies, reply)
  BY DEF Answer
<1> HIDE DEF reply
<1>4. replies' \in Seq(Reply) /\ Extends(replies', replies)
  BY <1>2, <1>3, ServedQueues, Added, Longer
<1>5. SinkAnswered(0) \/ SinkAsked(0) => SinkAnswered(0)' \/ SinkAsked(0)'
  BY <1>1, <1>4, RequestNearer DEF Served
<1>6. TypeOK' => Hears'
  <2>1. /\ Len(requests) \in Nat /\ Len(requests) >= 1
        /\ Len(requests') = Len(requests) - 1 /\ Head(requests) = requests[1]
        /\ \A i \in 1..(Len(requests) - 1) : requests'[i] = requests[i + 1]
    BY ServedQueues, Taken DEF Served
  <2>2. PICK j \in 2..Len(requests) : requests[j].op = "server"
    <3>1. AsksAfterSubscribing
      BY DEF Inv
    <3>2. 1 \in 1..Len(requests) /\ requests[1].op = "subscribe"
      BY <2>1
    <3>3. QED
      BY <3>1, <3>2 DEF AsksAfterSubscribing
  <2>3. j - 1 \in 1..Len(requests') /\ requests'[j - 1] = requests[j]
    BY <2>1, <2>2
  <2>4. QED
    BY <2>2, <2>3, QuestionHears
<1>7. Link'
  BY ServedQueues DEF Inv, Link
<1>8. QED
  BY <1>1, <1>4, <1>5, <1>6, <1>7, ServedQueues, ServerStep
     DEF Served, TypeOK

\* The question for the default is answered.
LEMMA ServeServer ==
    ASSUME Inv, Served, Head(requests).op = "server",
           Answer([op |-> "server", default |-> default]),
           UNCHANGED <<setting, subscribed, news>>
    PROVE  Inv'
<1> DEFINE reply == [op |-> "server", default |-> default]
<1>1. TypeOK
  BY DEF Inv
<1>2. reply \in Reply
  BY <1>1, Replies DEF TypeOK
<1>3. replies' = Append(replies, reply)
  BY DEF Answer
<1>4. TypeOK' => Hears'
  BY <1>1, <1>3, ServerAnswerHears DEF Inv, Served
<1> HIDE DEF reply
<1>5. replies' \in Seq(Reply) /\ Extends(replies', replies)
  BY <1>2, <1>3, ServedQueues, Added, Longer
<1>6. SinkAnswered(0) \/ SinkAsked(0) => SinkAnswered(0)' \/ SinkAsked(0)'
  BY <1>1, <1>5, RequestNearer DEF Served
<1>7. Link'
  BY ServedQueues DEF Inv, Link
<1>8. QED
  BY <1>1, <1>4, <1>5, <1>6, <1>7, ServedQueues, ServerStep
     DEF Served, TypeOK

\* The question about a sink is answered.
LEMMA ServeSink ==
    ASSUME Inv, Served, Head(requests).op = "sink",
           LET r == Head(requests) IN
           Answer([op |-> "sink", sink |-> r.sink, found |-> r.sink \in sinks,
                   muted |-> setting[r.sink].muted,
                   volume |-> setting[r.sink].volume]),
           UNCHANGED <<setting, subscribed, news>>
    PROVE  Inv'
<1> DEFINE s == Head(requests).sink
<1> DEFINE reply == [op |-> "sink", sink |-> s, found |-> s \in sinks,
                     muted |-> setting[s].muted, volume |-> setting[s].volume]
<1>1. TypeOK
  BY DEF Inv
<1>2. s \in Sink
  BY ServedQueues, RequestFields
<1>3. setting[s].muted \in BOOLEAN /\ setting[s].volume \in Volume
  BY <1>1, <1>2 DEF TypeOK, Setting
<1>4. replies' = Append(replies, reply)
  BY DEF Answer
<1> HIDE DEF s
<1>5. (s \in sinks) \in BOOLEAN
  OBVIOUS
<1>6. reply \in Reply
  BY <1>2, <1>3, <1>5, Replies
<1>7. reply.op = "sink" /\ reply.sink = s /\ Accurate(reply)
  BY DEF Accurate
<1> HIDE DEF reply
<1>8. TypeOK' => Hears'
  BY <1>1, <1>4, <1>6, <1>7, SinkAnswerHears DEF Inv, Served, s
<1>9. replies' \in Seq(Reply)
  BY <1>4, <1>6, ServedQueues, Added
<1>10. SinkAnswered(0) \/ SinkAsked(0) => SinkAnswered(0)' \/ SinkAsked(0)'
  BY <1>1, <1>4, <1>6, <1>7, RequestNearer DEF Served
<1>11. Link'
  BY ServedQueues DEF Inv, Link
<1>12. QED
  BY <1>1, <1>8, <1>9, <1>10, <1>11, ServedQueues, ServerStep
     DEF Served, TypeOK

\* A setting with one of its parts changed.
LEMMA SettingChanged ==
    ASSUME NEW f \in [Sink -> Setting], NEW s \in Sink
    PROVE  /\ \A m \in BOOLEAN : [f EXCEPT ![s].muted = m] \in [Sink -> Setting]
           /\ \A v \in Volume : [f EXCEPT ![s].volume = v] \in [Sink -> Setting]
<1>1. ASSUME NEW m \in BOOLEAN PROVE [f EXCEPT ![s].muted = m] \in [Sink -> Setting]
  <2>1. [f[s] EXCEPT !.muted = m] \in Setting
    BY DEF Setting
  <2>2. QED
    BY <2>1
<1>2. ASSUME NEW v \in Volume PROVE [f EXCEPT ![s].volume = v] \in [Sink -> Setting]
  <2>1. [f[s] EXCEPT !.volume = v] \in Setting
    BY DEF Setting
  <2>2. QED
    BY <2>1
<1>3. QED
  BY <1>1, <1>2

\* A mute flag or volume is set; if that is a change it is news.
LEMMA ServeOrder ==
    ASSUME Inv, Served, Head(requests).op \in {"mute", "volume"},
           LET r == Head(requests) IN
           setting' =
             IF r.sink \notin sinks THEN setting
             ELSE IF r.op = "mute"
             THEN [setting EXCEPT ![r.sink].muted = r.muted]
             ELSE [setting EXCEPT ![r.sink].volume = r.volume],
           News(IF setting' # setting THEN {"sink"} ELSE {}),
           UNCHANGED <<replies, subscribed>>
    PROVE  Inv'
<1> DEFINE r == Head(requests)
<1>1. TypeOK
  BY DEF Inv
<1>2. /\ r.sink \in Sink
      /\ r.op = "mute" => r.muted \in BOOLEAN
      /\ r.op = "volume" => r.volume \in Volume
  BY ServedQueues, RequestFields
<1>3. setting' \in [Sink -> Setting]
  <2> HIDE DEF r
  <2>1. setting \in [Sink -> Setting]
    BY <1>1 DEF TypeOK
  <2>2. r.op = "mute" => [setting EXCEPT ![r.sink].muted = r.muted] \in [Sink -> Setting]
    BY <1>2, <2>1, SettingChanged
  <2>3. r.op = "volume" => [setting EXCEPT ![r.sink].volume = r.volume] \in [Sink -> Setting]
    BY <1>2, <2>1, SettingChanged
  <2>4. r.op \in {"mute", "volume"}
    BY DEF r
  <2>5. CASE r.op = "mute"
    BY <2>1, <2>2, <2>5, Zenon DEF r
  <2>6. CASE r.op = "volume"
    <3>1. r.op # "mute"
      BY <2>6
    <3>2. QED
      BY <2>1, <2>3, <2>6, <3>1, Zenon DEF r
  <2>7. QED
    BY <2>4, <2>5, <2>6
<1>4. /\ news' \in SUBSET {"server", "sink"}
      /\ setting' # setting /\ subscribed => news' # {}
      /\ setting' = setting => news' = news
  BY <1>1 DEF News, TypeOK
<1>5. TypeOK' => Hears'
  <2>1. CASE setting' # setting
    BY <1>4, <2>1, NewsHears
  <2>2. CASE setting' = setting
    BY <1>1, <1>4, <2>2, OrderTakenHears DEF Inv, Served
  <2>3. QED
    BY <2>1, <2>2
<1>6. Extends(replies', replies)
  BY ServedQueues, Longer
<1>7. SinkAnswered(0) \/ SinkAsked(0) => SinkAnswered(0)' \/ SinkAsked(0)'
  BY <1>1, <1>6, RequestNearer DEF Served
<1>8. Link'
  BY ServedQueues DEF Inv, Link, News
<1>9. QED
  BY <1>1, <1>3, <1>4, <1>5, <1>7, <1>8, ServedQueues, ServerStep
     DEF Served, TypeOK

\* Whatever the request, the server keeps the invariant.
LEMMA ServeStep ==
    ASSUME Inv, Serve
    PROVE  Inv'
<1>1. Served
  BY DEF Serve, Served
<1>2. CASE /\ Head(requests).op = "subscribe"
           /\ \/ subscribed' = TRUE /\ UNCHANGED counters
              \/ Fault /\ UNCHANGED subscribed
           /\ Answer([op |-> "subscribed", success |-> subscribed'])
           /\ UNCHANGED <<setting, news>>
  <2>1. subscribed \in BOOLEAN
    BY DEF Inv, TypeOK
  <2>2. subscribed' = TRUE \/ subscribed' = subscribed
    BY <1>2
  <2>3. subscribed' \in BOOLEAN /\ (subscribed => subscribed')
    BY <2>1, <2>2
  <2>4. QED
    BY <1>1, <1>2, <2>3, ServeSubscribe
<1>3. CASE /\ Head(requests).op = "server"
           /\ Answer([op |-> "server", default |-> default])
           /\ UNCHANGED <<setting, subscribed, news, counters>>
  BY <1>1, <1>3, ServeServer
<1>4. CASE LET r == Head(requests) IN
           /\ r.op = "sink"
           /\ Answer([op |-> "sink", sink |-> r.sink, found |-> r.sink \in sinks,
                      muted |-> setting[r.sink].muted,
                      volume |-> setting[r.sink].volume])
           /\ UNCHANGED <<setting, subscribed, news, counters>>
  BY <1>1, <1>4, ServeSink
<1>5. CASE LET r == Head(requests) IN
           /\ r.op \in {"mute", "volume"}
           /\ setting' =
                IF r.sink \notin sinks THEN setting
                ELSE IF r.op = "mute"
                THEN [setting EXCEPT ![r.sink].muted = r.muted]
                ELSE [setting EXCEPT ![r.sink].volume = r.volume]
           /\ News(IF setting' # setting THEN {"sink"} ELSE {})
           /\ UNCHANGED <<replies, subscribed, counters>>
  BY <1>1, <1>5, ServeOrder
<1>6. QED
  BY <1>2, <1>3, <1>4, <1>5 DEF Serve
\* The queues are as they were.
LEMMA SameQueues ==
    ASSUME Inv, UNCHANGED linkVars
    PROVE  /\ requests' \in Seq(Request) /\ replies' \in Seq(Reply)
           /\ AsksAfterSubscribing'
           /\ SinkAnswered(0) \/ SinkAsked(0) => SinkAnswered(0)' \/ SinkAsked(0)'
<1>1. requests' = requests /\ replies' = replies
  BY DEF linkVars
<1>2. requests' \in Seq(Request) /\ replies' \in Seq(Reply)
  BY <1>1 DEF Inv, TypeOK
<1>3. AsksAfterSubscribing'
  BY <1>1 DEF Inv, AsksAfterSubscribing
<1>4. QED
  BY <1>2, <1>3, SameLink

\* The news become an event on the stream.
LEMMA AnnounceStep ==
    ASSUME Inv, Announce
    PROVE  Inv'
<1>1. PICK f \in news : /\ news' = news \ {f}
                        /\ replies' = Append(replies, [op |-> "event", facility |-> f])
  BY DEF Announce, Answer
<1>2. UNCHANGED <<alive, sinks, default, setting, subscribed, requests, source, serviceVars>>
  BY DEF Announce
<1>3. TypeOK /\ f \in {"server", "sink"} /\ news' \in SUBSET {"server", "sink"}
  BY <1>1 DEF Inv, TypeOK
<1>4. TypeOK' => Hears'
  BY <1>1, <1>3, EventHears
<1> DEFINE reply == [op |-> "event", facility |-> f]
<1>5. reply \in Reply
  BY <1>3, Replies
<1>6. replies' = Append(replies, reply) /\ replies \in Seq(Reply)
  BY <1>1, <1>3 DEF TypeOK
<1> HIDE DEF reply
<1>7. /\ replies' \in Seq(Reply) /\ Len(replies) \in Nat
      /\ Len(replies') = Len(replies) + 1
      /\ \A i \in 1..Len(replies) : replies'[i] = replies[i]
  BY <1>5, <1>6, Added
<1>8. SinkAnswered(0) \/ SinkAsked(0) => SinkAnswered(0)' \/ SinkAsked(0)'
  <2>1. SinkAsked(0) => SinkAsked(0)'
    BY <1>2 DEF SinkAsked
  <2>2. SinkAnswered(0) => SinkAnswered(0)'
    BY <1>7 DEF SinkAnswered
  <2>3. QED
    BY <2>1, <2>2
<1>9. AsksAfterSubscribing' /\ DefaultKnown'
  BY <1>2 DEF Inv, AsksAfterSubscribing, DefaultKnown
<1>10. source.context = "ready"
  BY <1>1 DEF Inv, Link, Announce
<1>11. Link'
  BY <1>2, <1>10 DEF Inv, Link, serviceVars
<1>12. QED
  BY <1>2, <1>3, <1>4, <1>7, <1>8, <1>9, <1>11, ServerStep DEF TypeOK
\* Another client's change keeps the default among the sinks and is news.
LEMMA ChangeStep ==
    ASSUME Inv, OthersChange
    PROVE  Inv'
<1>1. UNCHANGED <<alive, subscribed, linkVars, source, serviceVars>> /\ alive
  BY DEF OthersChange
<1>2. TypeOK /\ DefaultKnown /\ Link /\ setting \in [Sink -> Setting]
  BY DEF Inv, TypeOK
<1>3. /\ sinks' \in SUBSET Sink /\ default' \in Sink \cup {NoSink}
      /\ setting' \in [Sink -> Setting] /\ DefaultKnown'
      /\ \E f \in (SUBSET {"server", "sink"}) \ {{}} : News(f)
  <2>1. CASE /\ \E s \in sinks : setting' = [setting EXCEPT ![s].muted = ~@]
             /\ News({"sink"})
             /\ UNCHANGED <<sinks, default>>
    <3>1. PICK s \in sinks : setting' = [setting EXCEPT ![s].muted = ~@]
      BY <2>1
    <3>2. s \in Sink /\ (~setting[s].muted) \in BOOLEAN
      BY <1>2 DEF TypeOK
    <3>3. setting' = [setting EXCEPT ![s].muted = ~setting[s].muted]
      BY <3>1, Zenon
    <3>4. setting' \in [Sink -> Setting]
      BY <1>2, <3>2, <3>3, SettingChanged
    <3>5. QED
      BY <1>2, <2>1, <3>4 DEF TypeOK, DefaultKnown
  <2>2. CASE /\ default' \in sinks \ {default}
             /\ News({"server"})
             /\ UNCHANGED <<sinks, setting>>
    BY <1>2, <2>2 DEF TypeOK, DefaultKnown
  <2>3. CASE /\ \E s \in Sink \ sinks :
                  sinks' = sinks \cup {s} /\ default' \in {s, default} \ {NoSink}
             /\ News({"sink", "server"})
             /\ UNCHANGED setting
    BY <1>2, <2>3 DEF TypeOK, DefaultKnown
  <2>4. CASE /\ \E s \in sinks :
                  /\ sinks' = sinks \ {s}
                  /\ default' \in IF default # s THEN {default}
                                  ELSE IF sinks' = {} THEN {NoSink} ELSE sinks'
             /\ News({"sink", "server"})
             /\ UNCHANGED setting
    BY <1>2, <2>4, SinkAssumption DEF TypeOK, DefaultKnown
  <2>v. CASE /\ \E s \in sinks : \E p \in Percent :
                  setting' = [setting EXCEPT ![s].volume = RawVolume(p)]
             /\ News({"sink"})
             /\ UNCHANGED <<sinks, default>>
    <3>1. PICK s \in sinks, p \in Percent :
            setting' = [setting EXCEPT ![s].volume = RawVolume(p)]
      BY <2>v
    <3>2. s \in Sink /\ RawVolume(p) \in Volume
      BY <1>2 DEF TypeOK, Volume
    <3>3. setting' \in [Sink -> Setting]
      BY <1>2, <3>1, <3>2, SettingChanged
    <3>4. QED
      BY <1>2, <2>v, <3>3 DEF TypeOK, DefaultKnown
  <2>5. QED
    BY <2>1, <2>2, <2>3, <2>4, <2>v DEF OthersChange
<1>4. /\ news' \in SUBSET {"server", "sink"}
      /\ subscribed => news' # {}
      /\ ~subscribed => news' = news
  <2>1. PICK f \in (SUBSET {"server", "sink"}) \ {{}} : News(f)
    BY <1>3
  <2>2. QED
    BY <1>2, <2>1 DEF News, TypeOK
<1>5. TypeOK' => Hears'
  BY <1>1, <1>4, NewsHears
<1>6. Link'
  BY <1>1, <1>2, <1>4 DEF Link, serviceVars, linkVars
<1>7. QED
  BY <1>1, <1>2, <1>3, <1>4, <1>5, <1>6, SameQueues, ServerStep DEF TypeOK

\* The server ends, or a new one begins when the source knows of that.
LEMMA CrashStep ==
    ASSUME Inv, Crash \/ Restart
    PROVE  Inv'
<1>1. /\ UNCHANGED <<sinks, default, setting, linkVars, source, serviceVars>>
      /\ alive' \in BOOLEAN /\ ~subscribed' /\ subscribed' \in BOOLEAN /\ news' = {}
  <2>1. CASE Crash
    BY <2>1 DEF Crash
  <2>2. CASE Restart
    <3>1. /\ source.context # "ready" /\ alive' = TRUE
          /\ UNCHANGED <<sinks, default, setting, subscribed, news, linkVars, source,
                         serviceVars>>
      BY <2>2 DEF Restart
    <3>2. ~subscribed /\ news = {} /\ subscribed \in BOOLEAN
      BY <3>1 DEF Inv, Link, TypeOK
    <3>3. QED
      BY <3>1, <3>2
  <2>3. QED
    BY <2>1, <2>2
<1>2. TypeOK' => Hears'
  BY <1>1 DEF Hears
<1>3. Link' /\ DefaultKnown'
  BY <1>1 DEF Inv, Link, DefaultKnown, linkVars, serviceVars
<1>4. QED
  BY <1>1, <1>2, <1>3, SameQueues, ServerStep DEF Inv, TypeOK

-----------------------------------------------------------------------------
(* The theorems.                                                           *)

\* The service starts without a source.
LEMMA InvInit == Init => Inv
<1> SUFFICES ASSUME Init PROVE Inv
  OBVIOUS
<1>1. /\ source = NoSource /\ source.context = "none" /\ source \in SourceType
  BY NoSourceType DEF Init, NoSource
<1>2. setting \in [Sink -> Setting]
  BY ZeroVolume DEF Init, Setting
<1>3. default \in Sink \cup {NoSink} /\ DefaultKnown
  BY SinkAssumption DEF Init, DefaultKnown
<1>4. requests = <<>> /\ replies = <<>> /\ ~subscribed /\ pc = "idle" /\ news = {}
  BY DEF Init
<1>5. requests \in Seq(Request) /\ replies \in Seq(Reply)
  BY <1>4
<1>6. TypeOK
  BY <1>1, <1>2, <1>3, <1>5 DEF Init, TypeOK
<1>7. AsksAfterSubscribing
  BY <1>4 DEF AsksAfterSubscribing
<1>8. QED
  BY <1>1, <1>3, <1>4, <1>6, <1>7 DEF Inv, Link, Hears, ErrorSeen, SourceShown

\* One step of either thread, of the server or of its users.
LEMMA InvStep == Inv /\ [Next]_vars => Inv'
<1> SUFFICES ASSUME Inv, [Next]_vars PROVE Inv'
  OBVIOUS
<1>1. CASE UNCHANGED vars
  <2>1. /\ UNCHANGED <<source, serviceVars, linkVars, alive, sinks, default, setting>>
        /\ UNCHANGED <<subscribed, news>>
    BY <1>1 DEF vars, serverVars
  <2>2. Hears' /\ DefaultKnown' /\ Link'
    BY <2>1, NothingHeard DEF Inv, linkVars, DefaultKnown, Link, serviceVars
  <2>3. QED
    BY <2>1, <2>2, SameQueues, ServerStep DEF Inv, TypeOK
<1>2. CASE Library
  BY <1>2, CallbackStep, ReadyStep, FailedStep DEF Library
<1>3. CASE Service \/ OpenFails \/ Woken \/ BackoffWoken \/ Reload
  BY <1>3, OpenStep, OpenEnds, ConnectedStep, WaitStep, FlagsStep, PublishStep,
     BackoffStep DEF Service, Notified, Woken
<1>4. CASE User
  BY <1>4, UserStep
<1>5. CASE Serve \/ Announce \/ OthersChange \/ Crash \/ Restart
  BY <1>5, ServeStep, AnnounceStep, ChangeStep, CrashStep
<1>6. QED
  BY <1>1, <1>2, <1>3, <1>4, <1>5 DEF Next

\* The two threads, with any server and any number of changes, keep the
\* invariant.
THEOREM Invariance == Spec => []Inv
  BY InvInit, InvStep, PTL DEF Spec

\* A source that hears, with nothing on its way, has what the server has.
LEMMA QuietFresh == Inv /\ Quiet /\ ~Deaf =>
    Fresh /\ ~source.error /\ source.connected /\ published = SnapshotOf(source)
<1> SUFFICES ASSUME Inv, Quiet, ~Deaf
             PROVE  Fresh /\ ~source.error /\ source.connected
                    /\ published = SnapshotOf(source)
  OBVIOUS
<1>1. /\ source.context = "ready" /\ pc = "idle" /\ ~source.notified
      /\ requests = <<>> /\ replies = <<>> /\ news = {}
  BY DEF Quiet
<1>2. ~source.error
  BY <1>1 DEF Inv, ErrorSeen
<1>3. subscribed
  BY <1>1, <1>2 DEF Deaf
<1>4. ~SinkAnswered(0) /\ ~SinkAsked(0) /\ ~AsksAgain(0)
  BY <1>1 DEF SinkAnswered, SinkAsked, AsksAgain
<1>5. Fresh
  BY <1>3, <1>4 DEF Inv, Hears, SourceFresh
<1>6. source.connected
  BY <1>1 DEF Inv, Link
<1>7. published = SnapshotOf(source)
  BY <1>1, <1>4 DEF Inv, SourceShown
<1>8. QED
  BY <1>2, <1>5, <1>6, <1>7

\* The audio source follows the default sink: when nothing is on its way
\* between the server, the callbacks and the service, the sink, its mute flag
\* and the percentage it was set to are what is published.
THEOREM NoChangeIsMissed == Spec => []NothingMissed
<1>1. Inv => NothingMissed
  <2> SUFFICES ASSUME Inv, Quiet, ~Deaf PROVE Current
    BY DEF NothingMissed
  <2>1. Fresh /\ ~source.error /\ source.connected /\ published = SnapshotOf(source)
    BY QuietFresh
  <2>2. source \in SourceType /\ alive
    BY DEF Inv, TypeOK, Quiet
  <2>3. CASE default = NoSink
    <3>1. ~source.available
      BY <2>1, <2>3 DEF Fresh
    <3>2. ~published.available
      BY <2>1, <3>1 DEF SnapshotOf
    <3>3. QED
      BY <2>3, <3>2 DEF Current
  <2>4. CASE default # NoSink
    <3>1. /\ source.available /\ source.sink = default
          /\ source.muted = setting[default].muted
          /\ source.volume = setting[default].volume
      BY <2>1, <2>4 DEF Fresh
    <3>2. source.volume \in Volume
      BY <2>2 DEF SourceType
    <3>3. ShownVolume(source.volume) = PercentOf(setting[default].volume)
      BY <3>1, <3>2, ShownIsPercent
    <3>4. source.available = TRUE /\ source.connected = TRUE /\ source.error = FALSE
      BY <2>1, <2>2, <3>1 DEF SourceType
    <3>5. published = Truth
      <4> HIDE DEF ShownVolume, PercentOf
      <4>1. QED
        BY <2>1, <3>1, <3>3, <3>4 DEF SnapshotOf, Truth
    <3>6. QED
      BY <2>2, <2>4, <3>5 DEF Current
  <2>5. QED
    BY <2>3, <2>4
<1>2. QED
  BY <1>1, Invariance, PTL

\* toggle-mute negates the flag the callbacks cached; when nothing is on its
\* way it turns round the mute of the sink that is the default.
THEOREM ToggleTurnsRound == Spec => ToggleFlips
<1>1. Inv /\ [Next]_vars =>
        [(ToggleMute /\ Quiet /\ ~Deaf /\ source' = source) =>
           requests' = <<[op |-> "mute", sink |-> default,
                          muted |-> ~setting[default].muted]>>]_vars
  <2> SUFFICES ASSUME Inv, ToggleMute, Quiet, ~Deaf
               PROVE  requests' = <<[op |-> "mute", sink |-> default,
                                     muted |-> ~setting[default].muted]>>
    OBVIOUS
  <2>1. Fresh
    BY QuietFresh
  <2>2. /\ source.available /\ source.context = "ready" /\ requests = <<>>
        /\ requests' = Append(requests, [op |-> "mute", sink |-> source.sink,
                                         muted |-> ~source.muted])
    BY DEF ToggleMute, SetMute, Dispatch, Quiet
  <2>3. source.sink = default /\ source.muted = setting[default].muted
    BY <2>1, <2>2 DEF Fresh
  <2>4. QED
    BY <2>2, <2>3
<1>2. QED
  BY <1>1, Invariance, PTL DEF Spec, ToggleFlips
=============================================================================
