--------------------------- MODULE HyprlandProofs ---------------------------
(***************************************************************************)
(* Proofs about Hyprland: however the compositor's changes, crashes and    *)
(* restarts interleave with the three requests of a resync and with the    *)
(* chunks of the event stream, what the source publishes is the            *)
(* compositor's state or an event that makes it ask again is on its way.   *)
(***************************************************************************)
EXTENDS Hyprland, TLAPS

\* The types the argument needs.
Flags == up \in BOOLEAN /\ hangup \in BOOLEAN /\ event_stream \in BOOLEAN
Streams ==
    /\ pipe \in Seq(Piece)
    /\ event_buffer \in Seq(Piece)
    /\ fetched \in Seq(0..MaxVersion)
    /\ Len(fetched) < 3
Values ==
    /\ world \in [Part -> 0..MaxVersion]
    /\ published \in [Part -> -1..MaxVersion]
    /\ source_config \in Config
    /\ reconnect_ms \in Nat
Shape == Flags /\ Streams /\ Values

\* A resync has a stream, a backoff has none, and the stream of a compositor
\* that is gone is about to end.
Connected ==
    /\ pc = "resync" => event_stream
    /\ pc = "backoff" => ~event_stream
    /\ pc \in {"idle", "resync", "backoff"}
    /\ event_stream /\ ~up => hangup

Inv == Shape /\ Connected /\ NoChangeMissed /\ AvailabilityShown /\ BackoffInRange

\* The parts and the order of the requests.
LEMMA RequestParts ==
    /\ Request[1] = "monitors" /\ Request[2] = "workspaces"
    /\ Request[3] = "activewindow"
    /\ \A i \in 1..3 : Request[i] \in Part
  BY DEF Request, Part

\* The elements of a sequence are in its set.
LEMMA SeqElement ==
    ASSUME NEW S, NEW s \in Seq(S), NEW i \in 1..Len(s)
    PROVE  s[i] \in S
  OBVIOUS

\* A concatenation, by position.
LEMMA Joined ==
    ASSUME NEW S, NEW s \in Seq(S), NEW t \in Seq(S)
    PROVE  /\ s \o t \in Seq(S)
           /\ Len(s \o t) = Len(s) + Len(t)
           /\ \A i \in 1..Len(s) : (s \o t)[i] = s[i]
           /\ \A i \in 1..Len(t) : (s \o t)[Len(s) + i] = t[i]
  OBVIOUS

\* A sequence cut in two, by position.
LEMMA Cut ==
    ASSUME NEW S, NEW s \in Seq(S), NEW n \in 1..Len(s)
    PROVE  /\ SubSeq(s, 1, n) \in Seq(S)
           /\ Len(SubSeq(s, 1, n)) = n
           /\ \A i \in 1..n : SubSeq(s, 1, n)[i] = s[i]
           /\ SubSeq(s, n + 1, Len(s)) \in Seq(S)
           /\ Len(SubSeq(s, n + 1, Len(s))) = Len(s) - n
           /\ \A i \in 1..(Len(s) - n) : SubSeq(s, n + 1, Len(s))[i] = s[n + i]
<1>1. n \in Nat /\ Len(s) \in Nat /\ 1 <= n /\ n <= Len(s)
  OBVIOUS
<1>2. /\ SubSeq(s, 1, n) \in Seq(S)
      /\ Len(SubSeq(s, 1, n)) = n
      /\ \A i \in 1..n : SubSeq(s, 1, n)[i] = s[i]
  BY <1>1
<1>3. /\ SubSeq(s, n + 1, Len(s)) \in Seq(S)
      /\ Len(SubSeq(s, n + 1, Len(s))) = Len(s) - n
      /\ \A i \in 1..(Len(s) - n) : SubSeq(s, n + 1, Len(s))[i] = s[n + i]
  BY <1>1
<1>4. QED
  BY <1>2, <1>3

\* Every range of backoff is a pair of positive numbers in order.
LEMMA ConfigOrdered ==
    ASSUME NEW c \in Config
    PROVE  c.min \in Nat /\ c.max \in Nat /\ c.min >= 1 /\ c.min <= c.max
  BY ConfigAssumption DEF Bounds

\* A relevant head that is not followed by the end of its line is kept by
\* consume_events.
LEMMA RemainderKeeps ==
    ASSUME NEW text \in Seq(Piece), NEW e \in 0..Len(text), LastEnd(text, e)
    PROVE  /\ Remainder(text, e) \in Seq(Piece)
           /\ \A i \in 1..Len(text) :
                (text[i] = "relevant" /\ ~Relevant(text)) =>
                  \E k \in 1..Len(Remainder(text, e)) : Remainder(text, e)[k] = "relevant"
<1>1. Len(text) \in Nat /\ e \in Nat /\ e <= Len(text)
  OBVIOUS
<1>2. /\ Remainder(text, e) \in Seq(Piece)
      /\ Len(Remainder(text, e)) = Len(text) - e
      /\ \A k \in 1..(Len(text) - e) : Remainder(text, e)[k] = text[e + k]
  BY <1>1 DEF Remainder
<1>3. ASSUME NEW i \in 1..Len(text), text[i] = "relevant", ~Relevant(text)
      PROVE  \E k \in 1..Len(Remainder(text, e)) : Remainder(text, e)[k] = "relevant"
  <2>1. e < i
    <3>1. CASE e = 0
      BY <3>1
    <3>2. CASE e # 0
      <4>1. text[e] = "eol" /\ e \in 1..Len(text)
        BY <3>2, <1>1 DEF LastEnd
      <4>2. e # i
        BY <4>1, <1>3
      <4>3. ~(i < e)
        BY <4>1, <1>3 DEF Relevant
      <4>4. QED
        BY <4>2, <4>3, <1>1
    <3>3. QED
      BY <3>1, <3>2
  <2>2. i - e \in 1..(Len(text) - e) /\ e + (i - e) = i
    BY <2>1, <1>1
  <2>3. Remainder(text, e)[i - e] = "relevant"
    BY <2>2, <1>2, <1>3
  <2>4. QED
    BY <2>2, <2>3, <1>2
<1>4. QED
  BY <1>2, <1>3

-----------------------------------------------------------------------------

\* The source starts without a stream and shows nothing.
LEMMA InvInit == Init => Inv
<1> SUFFICES ASSUME Init PROVE Inv
  OBVIOUS
<1>1. world \in [Part -> 0..MaxVersion] /\ published \in [Part -> -1..MaxVersion]
  BY SizeAssumption DEF Init, Unavailable
<1>2. reconnect_ms \in Nat /\ BackoffInRange
  BY ConfigOrdered DEF Init, BackoffInRange
<1>3. <<>> \in Seq(Piece) /\ <<>> \in Seq(0..MaxVersion) /\ Len(<<>>) = 0
  OBVIOUS
<1>4. Shape
  <2>1. Flags
    BY DEF Init, Flags
  <2>2. Streams
    BY <1>3 DEF Init, Streams
  <2>3. Values
    BY <1>1, <1>2 DEF Init, Values
  <2>4. QED
    BY <2>1, <2>2, <2>3 DEF Shape
<1>5. Connected /\ NoChangeMissed /\ AvailabilityShown
  BY DEF Init, Connected, NoChangeMissed, AvailabilityShown
<1>6. QED
  BY <1>2, <1>4, <1>5 DEF Inv

\* After disconnect nothing can be missed and nothing is shown.
LEMMA DisconnectStep ==
    ASSUME Inv, Disconnect, up' \in BOOLEAN, world' = world,
           fetched' = fetched \/ fetched' = <<>>,
           UNCHANGED <<reconnect_ms, source_config>>, pc' \in {"idle", "backoff"}
    PROVE  Inv'
<1>1. <<>> \in Seq(Piece) /\ <<>> \in Seq(0..MaxVersion) /\ Len(<<>>) = 0
  OBVIOUS
<1>2. published' \in [Part -> -1..MaxVersion]
  BY SizeAssumption DEF Disconnect, Unavailable
<1>3. Shape'
  <2>1. Flags'
    BY DEF Disconnect, Flags
  <2>2. Streams'
    <3>1. pipe' \in Seq(Piece) /\ event_buffer' \in Seq(Piece)
      BY <1>1 DEF Disconnect
    <3>2. fetched' \in Seq(0..MaxVersion) /\ Len(fetched') < 3
      <4>1. CASE fetched' = fetched
        BY <4>1 DEF Inv, Shape, Streams
      <4>2. CASE fetched' = <<>>
        BY <4>2, <1>1
      <4>3. QED
        BY <4>1, <4>2
    <3>3. QED
      BY <3>1, <3>2 DEF Streams
  <2>3. Values'
    BY <1>2 DEF Inv, Shape, Values
  <2>4. QED
    BY <2>1, <2>2, <2>3 DEF Shape
<1>4. Connected' /\ NoChangeMissed' /\ AvailabilityShown'
  BY DEF Disconnect, Connected, NoChangeMissed, AvailabilityShown
<1>5. BackoffInRange'
  BY DEF Inv, BackoffInRange
<1>6. QED
  BY <1>3, <1>4, <1>5 DEF Inv

\* A request of resync is answered; the last one publishes the snapshot.
LEMMA FetchStep == ASSUME Inv, Fetch PROVE Inv'
<1> DEFINE n == Len(fetched) + 1
           answers == Append(fetched, world[Request[n]])
<1>1. Len(fetched) \in Nat /\ Len(fetched) < 3 /\ n \in 1..3
  BY DEF Inv, Shape, Flags, Streams, Values
<1>2. world[Request[n]] \in 0..MaxVersion
  BY <1>1, RequestParts DEF Inv, Shape, Flags, Streams, Values
<1>3. /\ answers \in Seq(0..MaxVersion)
      /\ Len(answers) = n
      /\ answers[n] = world[Request[n]]
      /\ \A i \in 1..Len(fetched) : answers[i] = fetched[i]
  BY <1>1, <1>2 DEF Inv, Shape, Flags, Streams, Values
<1> HIDE DEF answers
<1>4. Announced' = Announced
  BY DEF Fetch, linkVars, Announced
<1>5. \A i \in 1..n : answers[i] # world[Request[i]] => Announced
  BY <1>1, <1>3 DEF Inv, NoChangeMissed, Fetch
<1>6. /\ event_stream' = event_stream /\ event_stream
      /\ UNCHANGED <<up, world, pipe, hangup, event_buffer, source_config>>
  BY DEF Fetch, compositorVars, linkVars, Inv, Connected
<1>7. CASE n < 3
  <2>1. /\ fetched' = answers
        /\ UNCHANGED <<pc, reconnect_ms, published>>
    BY <1>7, <1>3 DEF Fetch, answers
  <2>2. Shape'
    BY <2>1, <1>3, <1>6, <1>7 DEF Inv, Shape, Flags, Streams, Values
  <2>3. Connected' /\ AvailabilityShown' /\ BackoffInRange'
    BY <2>1, <1>6 DEF Inv, Connected, AvailabilityShown, BackoffInRange
  <2>4. NoChangeMissed'
    BY <2>1, <1>3, <1>4, <1>5, <1>6 DEF Fetch, NoChangeMissed
  <2>5. QED
    BY <2>2, <2>3, <2>4 DEF Inv
<1>8. CASE n = 3
  <2>1. /\ fetched' = <<>>
        /\ published' = Snapshot(answers)
        /\ reconnect_ms' = IF connecting THEN source_config.min ELSE reconnect_ms
        /\ pc' = "idle"
    BY <1>8, <1>3 DEF Fetch, answers
  <2>2. /\ answers[1] \in 0..MaxVersion
        /\ answers[2] \in 0..MaxVersion
        /\ answers[3] \in 0..MaxVersion
    <3>1. Len(answers) = 3 /\ 1 \in 1..3 /\ 2 \in 1..3 /\ 3 \in 1..3
      BY <1>3, <1>8
    <3>2. \A i \in 1..Len(answers) : answers[i] \in 0..MaxVersion
      BY <1>3, SeqElement
    <3>3. QED
      BY <3>1, <3>2
  <2>3. /\ published' = [monitors |-> answers[1], workspaces |-> answers[2],
                         activewindow |-> answers[3]]
        /\ published' \in [Part -> 0..MaxVersion]
    BY <2>1, <2>2 DEF Snapshot, Part
  <2>4. published' \in [Part -> -1..MaxVersion] /\ \A p \in Part : published'[p] # -1
    BY <2>3, SizeAssumption
  <2>5. published' # world => Announced
    <3>1. SUFFICES ASSUME ~Announced
                   PROVE  published' = world
      OBVIOUS
    <3>2. /\ answers[1] = world["monitors"]
          /\ answers[2] = world["workspaces"]
          /\ answers[3] = world["activewindow"]
      BY <3>1, <1>5, <1>8, RequestParts
    <3>3. \A p \in Part : published'[p] = world[p]
      BY <3>2, <2>3 DEF Part
    <3>4. QED
      BY <3>3, <2>3 DEF Inv, Shape, Flags, Streams, Values
  <2>6. reconnect_ms' \in Nat /\ BackoffInRange'
    BY <2>1, <1>6, ConfigOrdered DEF Inv, Shape, Values, BackoffInRange
  <2>7. Shape'
    BY <2>1, <2>4, <2>6, <1>6 DEF Inv, Shape, Flags, Streams, Values
  <2>8. Connected' /\ AvailabilityShown'
    BY <2>1, <2>4, <1>6 DEF Inv, Connected, AvailabilityShown
  <2>9. NoChangeMissed'
    BY <2>1, <2>5, <1>4, <1>6 DEF NoChangeMissed
  <2>10. QED
    BY <2>6, <2>7, <2>8, <2>9 DEF Inv
<1>9. QED
  BY <1>1, <1>7, <1>8

\* A chunk is consumed: half of a relevant line stays in the buffer, a whole
\* one begins a resync.
LEMMA ConsumeStep == ASSUME Inv, Consume PROVE Inv'
<1>1. PICK n \in 1..Smaller(MaxChunk, Len(pipe)) :
        LET text == event_buffer \o SubSeq(pipe, 1, n) IN
          IF Len(text) > MaxBuffer
          THEN /\ Disconnect
               /\ UNCHANGED <<pc, connecting, fetched>>
          ELSE /\ pipe' = SubSeq(pipe, n + 1, Len(pipe))
               /\ \E e \in 0..Len(text) :
                    LastEnd(text, e) /\ event_buffer' = Remainder(text, e)
               /\ IF Relevant(text) THEN BeginResync(FALSE)
                  ELSE UNCHANGED <<pc, connecting, fetched>>
               /\ UNCHANGED <<hangup, event_stream, published>>
  BY DEF Consume
<1> DEFINE chunk == SubSeq(pipe, 1, n)
           text == event_buffer \o chunk
<1>2. /\ pc = "idle" /\ event_stream
      /\ UNCHANGED <<up, world, reconnect_ms, source_config>>
  BY DEF Consume, compositorVars
<1>3. n \in 1..Len(pipe)
  BY SizeAssumption DEF Smaller, Inv, Shape, Streams
<1>4. CASE Len(text) > MaxBuffer
  <2>1. Disconnect /\ UNCHANGED <<pc, fetched>>
    BY <1>1, <1>4
  <2>2. up' \in BOOLEAN
    BY <1>2 DEF Inv, Shape, Flags
  <2>3. QED
    BY <2>1, <2>2, <1>2, DisconnectStep
<1>5. CASE ~(Len(text) > MaxBuffer)
  <2>1. /\ pipe' = SubSeq(pipe, n + 1, Len(pipe))
        /\ IF Relevant(text) THEN BeginResync(FALSE)
           ELSE UNCHANGED <<pc, connecting, fetched>>
        /\ UNCHANGED <<hangup, event_stream, published>>
    BY <1>1, <1>5
  <2>2. PICK e \in 0..Len(text) :
          LastEnd(text, e) /\ event_buffer' = Remainder(text, e)
    BY <1>1, <1>5
  <2>3. /\ chunk \in Seq(Piece) /\ Len(chunk) = n
        /\ \A i \in 1..n : chunk[i] = pipe[i]
        /\ pipe' \in Seq(Piece) /\ Len(pipe') = Len(pipe) - n
        /\ \A i \in 1..(Len(pipe) - n) : pipe'[i] = pipe[n + i]
    <3>1. pipe \in Seq(Piece)
      BY DEF Inv, Shape, Streams
    <3>2. QED
      BY <3>1, <1>3, <2>1, Cut
  <2> HIDE DEF chunk
  <2>4. /\ text \in Seq(Piece)
        /\ Len(text) = Len(event_buffer) + n
        /\ \A i \in 1..Len(event_buffer) : text[i] = event_buffer[i]
        /\ \A i \in 1..n : text[Len(event_buffer) + i] = chunk[i]
    <3>1. event_buffer \in Seq(Piece)
      BY DEF Inv, Shape, Streams
    <3>2. chunk \in Seq(Piece) /\ Len(chunk) = n
      BY <2>3
    <3>3. \A c \in Seq(Piece) :
            /\ event_buffer \o c \in Seq(Piece)
            /\ Len(event_buffer \o c) = Len(event_buffer) + Len(c)
            /\ \A i \in 1..Len(event_buffer) : (event_buffer \o c)[i] = event_buffer[i]
            /\ \A i \in 1..Len(c) : (event_buffer \o c)[Len(event_buffer) + i] = c[i]
      BY <3>1, Joined
    <3>4. QED
      BY <3>2, <3>3
  <2> HIDE DEF text
  <2>5. /\ event_buffer' \in Seq(Piece)
        /\ \A i \in 1..Len(text) :
             (text[i] = "relevant" /\ ~Relevant(text)) =>
               \E k \in 1..Len(event_buffer') : event_buffer'[k] = "relevant"
    BY <2>2, <2>4, RemainderKeeps
  <2>6. Announced /\ ~Relevant(text) => Announced'
    <3>1. SUFFICES ASSUME Announced, ~Relevant(text), ~hangup
                   PROVE  Announced'
      BY <2>1 DEF Announced
    <3>2. CASE \E i \in 1..Len(event_buffer) : event_buffer[i] = "relevant"
      <4>1. PICK i \in 1..Len(event_buffer) : event_buffer[i] = "relevant"
        BY <3>2
      <4>2. i \in 1..Len(text) /\ text[i] = "relevant"
        BY <4>1, <2>4, <1>3 DEF Inv, Shape, Streams
      <4>3. QED
        BY <4>2, <2>5, <3>1 DEF Announced
    <3>3. CASE \E i \in 1..Len(pipe) : pipe[i] = "relevant"
      <4>1. PICK i \in 1..Len(pipe) : pipe[i] = "relevant"
        BY <3>3
      <4>2. CASE i <= n
        <5>1. i \in 1..n /\ chunk[i] = "relevant"
          BY <4>1, <4>2, <2>3, <1>3
        <5>2. /\ Len(event_buffer) + i \in 1..Len(text)
              /\ text[Len(event_buffer) + i] = "relevant"
          BY <5>1, <2>4, <1>3 DEF Inv, Shape, Streams
        <5>3. QED
          BY <5>2, <2>5, <3>1 DEF Announced
      <4>3. CASE i > n
        <5>1. i - n \in 1..(Len(pipe) - n) /\ n + (i - n) = i
          BY <4>1, <4>3, <1>3
        <5>2. pipe'[i - n] = "relevant" /\ i - n \in 1..Len(pipe')
          BY <5>1, <4>1, <2>3
        <5>3. QED
          BY <5>2 DEF Announced
      <4>4. QED
        BY <4>2, <4>3, <4>1, <1>3
    <3>4. QED
      BY <3>1, <3>2, <3>3 DEF Announced
  <2>7. fetched' \in Seq(0..MaxVersion) /\ Len(fetched') < 3
    <3>1. CASE Relevant(text)
      BY <3>1, <2>1 DEF BeginResync
    <3>2. CASE ~Relevant(text)
      BY <3>2, <2>1 DEF Inv, Shape, Streams
    <3>3. QED
      BY <3>1, <3>2
  <2>8. Shape'
    <3>1. Flags'
      BY <1>2, <2>1 DEF Inv, Shape, Flags
    <3>2. Streams'
      BY <2>3, <2>5, <2>7 DEF Streams
    <3>3. Values'
      BY <1>2, <2>1 DEF Inv, Shape, Values
    <3>4. QED
      BY <3>1, <3>2, <3>3 DEF Shape
  <2>9. NoChangeMissed'
    <3>1. CASE Relevant(text)
      <4>1. pc' = "resync" /\ fetched' = <<>>
        BY <3>1, <2>1 DEF BeginResync
      <4>2. QED
        BY <4>1 DEF NoChangeMissed
    <3>2. CASE ~Relevant(text)
      BY <3>2, <1>2, <2>1, <2>6 DEF Inv, NoChangeMissed
    <3>3. QED
      BY <3>1, <3>2
  <2>10. Connected' /\ AvailabilityShown'
    <3>1. pc' \in {"idle", "resync"}
      BY <1>2, <2>1 DEF BeginResync
    <3>2. QED
      BY <3>1, <1>2, <2>1 DEF Inv, Connected, AvailabilityShown
  <2>11. BackoffInRange'
    BY <1>2 DEF Inv, BackoffInRange
  <2>12. QED
    BY <2>8, <2>9, <2>10, <2>11 DEF Inv
<1>6. QED
  BY <1>4, <1>5

\* A change is announced on the stream, unless the stream is about to end.
LEMMA ChangedStep ==
    ASSUME Inv, NEW p \in Part, Changed(p)
    PROVE  /\ world' \in [Part -> 0..MaxVersion]
           /\ pipe' \in Seq(Piece)
           /\ (event_stream /\ event_buffer' = event_buffer) => Announced'
<1>1. world' \in [Part -> 0..MaxVersion]
  <2>1. world[p] \in 0..MaxVersion /\ world[p] < MaxVersion
    BY DEF Changed, Inv, Shape, Values
  <2>2. world[p] + 1 \in 0..MaxVersion
    BY <2>1, SizeAssumption
  <2>3. QED
    BY <2>2 DEF Changed, Inv, Shape, Values
<1>2. CASE event_stream /\ ~hangup
  <2>1. pipe' = pipe \o Announcement
    BY <1>2 DEF Changed
  <2>2. Announcement \in Seq(Piece) /\ Len(Announcement) = 2 /\ Announcement[1] = "relevant"
    BY DEF Announcement, Piece
  <2>3. /\ pipe' \in Seq(Piece) /\ Len(pipe') = Len(pipe) + 2
        /\ pipe'[Len(pipe) + 1] = "relevant"
    <3>1. pipe \in Seq(Piece) /\ 1 \in 1..2
      BY DEF Inv, Shape, Streams
    <3>2. /\ pipe \o Announcement \in Seq(Piece)
          /\ Len(pipe \o Announcement) = Len(pipe) + Len(Announcement)
          /\ \A i \in 1..Len(Announcement) :
               (pipe \o Announcement)[Len(pipe) + i] = Announcement[i]
      BY ONLY <3>1, <2>2, Joined
    <3>3. QED
      BY <3>1, <3>2, <2>1, <2>2
  <2>4. Len(pipe) + 1 \in 1..Len(pipe')
    BY <2>3 DEF Inv, Shape, Streams
  <2>5. QED
    BY <2>3, <2>4, <1>1 DEF Announced
<1>3. CASE ~(event_stream /\ ~hangup)
  <2>1. pipe' = pipe /\ hangup' = hangup
    BY <1>3 DEF Changed
  <2>2. QED
    BY <2>1, <1>1, <1>3 DEF Inv, Shape, Streams, Flags, Announced
<1>4. QED
  BY <1>2, <1>3

\* A step of the compositor that changes a part, alone or because the source
\* asked for it.
LEMMA ChangeStep ==
    ASSUME Inv, NEW p \in Part, Changed(p),
           pc' = pc \/ (pc \in {"idle", "backoff"} /\ pc' = "idle"),
           UNCHANGED <<fetched, event_stream, event_buffer, reconnect_ms,
                       source_config, published>>
    PROVE  Inv'
<1>1. /\ world' \in [Part -> 0..MaxVersion]
      /\ pipe' \in Seq(Piece)
      /\ event_stream => Announced'
  BY ChangedStep
<1>2. UNCHANGED <<up, hangup>>
  BY DEF Changed
<1>3. Shape'
  BY <1>1, <1>2 DEF Inv, Shape, Flags, Streams, Values
<1>4. Connected' /\ AvailabilityShown' /\ BackoffInRange'
  BY <1>2 DEF Inv, Connected, AvailabilityShown, BackoffInRange
<1>5. NoChangeMissed'
  BY <1>1 DEF Inv, Connected, NoChangeMissed
<1>6. QED
  BY <1>3, <1>4, <1>5 DEF Inv

\* Other lines take nothing off the stream.
LEMMA ChatterStep == ASSUME Inv, Chatter PROVE Inv'
<1>1. PICK line \in Seq(Piece) : pipe' = pipe \o line
  <2>1. ShortLine \in Seq(Piece) /\ LongLine \in Seq(Piece)
    BY DEF ShortLine, LongLine, Piece
  <2>2. QED
    BY <2>1 DEF Chatter
<1>2. pipe \in Seq(Piece)
  BY DEF Inv, Shape, Streams
<1>3. /\ pipe \o line \in Seq(Piece)
      /\ Len(pipe \o line) = Len(pipe) + Len(line)
      /\ \A i \in 1..Len(pipe) : (pipe \o line)[i] = pipe[i]
  BY ONLY <1>2, Joined
<1>4. UNCHANGED <<up, world, hangup, pc, fetched, event_stream, event_buffer,
                  reconnect_ms, source_config, published>>
  BY DEF Chatter, serviceVars
<1>5. Announced => Announced'
  <2>1. \A i \in 1..Len(pipe) : i \in 1..Len(pipe') /\ pipe'[i] = pipe[i]
    BY <1>1, <1>2, <1>3
  <2>2. QED
    BY <2>1, <1>4 DEF Announced
<1>6. Shape'
  BY <1>1, <1>3, <1>4 DEF Inv, Shape, Flags, Streams, Values
<1>7. Connected' /\ AvailabilityShown' /\ BackoffInRange'
  BY <1>4 DEF Inv, Connected, AvailabilityShown, BackoffInRange
<1>8. NoChangeMissed'
  BY <1>4, <1>5 DEF Inv, NoChangeMissed
<1>9. QED
  BY <1>6, <1>7, <1>8 DEF Inv

\* A compositor that ends leaves a stream that ends.
LEMMA CrashStep == ASSUME Inv, Crash PROVE Inv'
<1>1. /\ up' = FALSE /\ hangup' = event_stream
      /\ UNCHANGED <<world, pipe, pc, fetched, event_stream, event_buffer,
                     reconnect_ms, source_config, published>>
  BY DEF Crash, serviceVars
<1>2. event_stream => Announced'
  BY <1>1 DEF Announced, Inv, Shape, Flags
<1>3. Shape'
  BY <1>1 DEF Inv, Shape, Flags, Streams, Values
<1>4. Connected' /\ AvailabilityShown' /\ BackoffInRange'
  BY <1>1 DEF Inv, Shape, Flags, Connected, AvailabilityShown, BackoffInRange
<1>5. NoChangeMissed'
  BY <1>1, <1>2 DEF Inv, Connected, NoChangeMissed
<1>6. QED
  BY <1>3, <1>4, <1>5 DEF Inv

\* A new compositor is not the one the stream was opened to.
LEMMA RestartStep == ASSUME Inv, Restart PROVE Inv'
<1>1. /\ up' = TRUE /\ world' \in [Part -> 0..MaxVersion] /\ ~up
      /\ UNCHANGED <<pipe, hangup, pc, fetched, event_stream, event_buffer,
                     reconnect_ms, source_config, published>>
  BY DEF Restart, linkVars, serviceVars
<1>2. event_stream => Announced'
  BY <1>1 DEF Announced, Inv, Connected
<1>3. Shape'
  BY <1>1 DEF Inv, Shape, Flags, Streams, Values
<1>4. Connected' /\ AvailabilityShown' /\ BackoffInRange'
  BY <1>1 DEF Inv, Connected, AvailabilityShown, BackoffInRange
<1>5. NoChangeMissed'
  BY <1>1, <1>2 DEF Inv, Connected, NoChangeMissed
<1>6. QED
  BY <1>3, <1>4, <1>5 DEF Inv

\* connect() reads nothing yet, so nothing it reads can be old.
LEMMA ConnectStep == ASSUME Inv, Connect PROVE Inv'
<1>1. /\ up /\ event_stream' = TRUE /\ pipe' = <<>> /\ hangup' = FALSE
      /\ pc' = "resync" /\ fetched' = <<>>
      /\ UNCHANGED <<up, world, event_buffer, reconnect_ms, source_config, published>>
  BY DEF Connect, BeginResync, compositorVars
<1>2. <<>> \in Seq(Piece) /\ <<>> \in Seq(0..MaxVersion) /\ Len(<<>>) = 0
  OBVIOUS
<1>3. Shape'
  <2>1. Flags' /\ Values'
    BY <1>1 DEF Inv, Shape, Flags, Values
  <2>2. Streams'
    BY <1>1, <1>2 DEF Inv, Shape, Streams
  <2>3. QED
    BY <2>1, <2>2 DEF Shape
<1>4. Connected' /\ NoChangeMissed' /\ AvailabilityShown'
  BY <1>1, <1>2 DEF Connected, NoChangeMissed, AvailabilityShown
<1>5. BackoffInRange'
  BY <1>1 DEF Inv, BackoffInRange
<1>6. QED
  BY <1>3, <1>4, <1>5 DEF Inv

\* The end of a backoff, or of a reload: the delay moves within its range.
LEMMA DelayStep ==
    ASSUME Inv, source_config' \in Config, reconnect_ms' \in Nat, BackoffInRange',
           pc \in {"idle", "backoff"}, pc' = "idle",
           UNCHANGED <<compositorVars, linkVars, fetched, event_stream,
                       event_buffer, published>>
    PROVE  Inv'
<1>1. UNCHANGED <<up, world, pipe, hangup>>
  BY DEF compositorVars, linkVars
<1>2. Shape'
  BY <1>1 DEF Inv, Shape, Flags, Streams, Values
<1>3. Connected' /\ AvailabilityShown'
  BY <1>1 DEF Inv, Connected, AvailabilityShown
<1>4. NoChangeMissed'
  BY <1>1 DEF Inv, Connected, NoChangeMissed, Announced
<1>5. QED
  BY <1>2, <1>3, <1>4 DEF Inv

-----------------------------------------------------------------------------

\* Every step keeps the invariant.
LEMMA InvStep == Inv /\ [Next]_vars => Inv'
<1> SUFFICES ASSUME Inv, [Next]_vars PROVE Inv'
  OBVIOUS
<1>1. /\ source_config.min \in Nat /\ source_config.max \in Nat
      /\ reconnect_ms \in Nat /\ source_config \in Config
      /\ source_config.min <= reconnect_ms /\ reconnect_ms <= source_config.max
      /\ up \in BOOLEAN
  BY ConfigOrdered DEF Inv, Shape, Flags, Values, BackoffInRange
<1>2. CASE Connect
  BY <1>2, ConnectStep
<1>3. CASE ConnectFails
  BY <1>1, <1>3, DisconnectStep DEF ConnectFails, compositorVars
<1>4. CASE Fetch
  BY <1>4, FetchStep
<1>5. CASE FetchFails
  BY <1>1, <1>5, DisconnectStep DEF FetchFails
<1>6. CASE Consume
  BY <1>6, ConsumeStep
<1>7. CASE StreamCloses
  BY <1>1, <1>7, DisconnectStep DEF StreamCloses, compositorVars
<1>8. CASE BackoffTimeout
  <2>1. reconnect_ms' \in Nat /\ BackoffInRange' /\ source_config' = source_config
    BY <1>1, <1>8 DEF BackoffTimeout, Doubled, Smaller, BackoffInRange
  <2>2. QED
    BY <1>1, <1>8, <2>1, DelayStep DEF BackoffTimeout
<1>9. CASE BackoffWoken
  <2>1. reconnect_ms' \in Nat /\ BackoffInRange' /\ source_config' = source_config
    BY <1>1, <1>9 DEF BackoffWoken, BackoffInRange
  <2>2. QED
    BY <1>1, <1>9, <2>1, DelayStep DEF BackoffWoken
<1>10. CASE Reload
  <2>1. source_config' \in Config
    BY <1>10 DEF Reload
  <2>2. /\ source_config'.min \in Nat /\ source_config'.max \in Nat
        /\ source_config'.min <= source_config'.max
    BY <2>1, ConfigOrdered
  <2>3. reconnect_ms' \in Nat /\ BackoffInRange'
    BY <1>1, <1>10, <2>2 DEF Reload, Clamped, Larger, Smaller, BackoffInRange
  <2>4. QED
    BY <1>10, <2>1, <2>3, DelayStep DEF Reload
<1>11. CASE Dispatch
  <2>1. "monitors" \in Part
    BY DEF Part
  <2>2. QED
    BY <1>11, <2>1, ChangeStep DEF Dispatch
<1>12. ASSUME NEW p \in Part, Change(p) PROVE Inv'
  BY <1>12, ChangeStep DEF Change, serviceVars
<1>13. CASE Chatter
  BY <1>13, ChatterStep
<1>14. CASE Crash
  BY <1>14, CrashStep
<1>15. CASE Restart
  BY <1>15, RestartStep
<1>16. CASE UNCHANGED vars
  <2>1. UNCHANGED <<up, world, pipe, hangup, pc, fetched, event_stream,
                    event_buffer, reconnect_ms, source_config, published>>
    BY <1>16 DEF vars, compositorVars, linkVars, serviceVars
  <2>2. Shape' /\ Connected' /\ AvailabilityShown' /\ BackoffInRange'
    BY <2>1 DEF Inv, Shape, Flags, Streams, Values, Connected,
                AvailabilityShown, BackoffInRange
  <2>3. NoChangeMissed'
    BY <2>1 DEF Inv, NoChangeMissed, Announced
  <2>4. QED
    BY <2>2, <2>3 DEF Inv
<1>17. QED
  BY <1>2, <1>3, <1>4, <1>5, <1>6, <1>7, <1>8, <1>9, <1>10, <1>11, <1>12,
     <1>13, <1>14, <1>15, <1>16 DEF Next, Service

\* The invariant holds throughout.
LEMMA Invariance == Spec => []Inv
  BY InvInit, InvStep, PTL DEF Spec

\* resync and consume_events miss no change: an open stream that the service
\* waits on shows the compositor's state, or an event that makes it ask again
\* is still to be read, for any number of changes and any cut of the stream.
THEOREM NothingMissed == Spec => []NoChangeMissed
<1>1. Inv => NoChangeMissed
  BY DEF Inv
<1>2. QED
  BY <1>1, Invariance, PTL

\* disconnect clears what was published, and a synchronised stream shows
\* every part.
THEOREM AvailabilityIsShown == Spec => []AvailabilityShown
<1>1. Inv => AvailabilityShown
  BY DEF Inv
<1>2. QED
  BY <1>1, Invariance, PTL

\* The delay of the idle handler and of S.reload stays within the range in
\* force, for any sequence of ranges.
THEOREM BackoffStaysInRange == Spec => []BackoffInRange
<1>1. Inv => BackoffInRange
  BY DEF Inv
<1>2. QED
  BY <1>1, Invariance, PTL
=============================================================================
