---------------------------- MODULE MprisProofs -----------------------------
(***************************************************************************)
(* Proofs about Mpris, for any players, any states of theirs and any order *)
(* in which their names are read: a wait shows the best player unless a    *)
(* signal is there that makes the service look again, and an action is     *)
(* accepted exactly when it is shown.                                      *)
(*                                                                         *)
(* The argument for the first: as long as no signal has arrived since the  *)
(* queue was emptied, nothing that was read has changed, so the player     *)
(* selected so far is the best of those read so far.                       *)
(***************************************************************************)
EXTENDS Mpris, TLAPS

Reading == {"status", "metadata", "capabilities"}

\* What read_player fills in.
PlayerRead == [name : Player \cup {0}, status : Status,
               song : {m.song : m \in Media} \cup {NoSong}, can : SUBSET Capability]

\* Types.
TypeOK ==
    /\ bus \in BOOLEAN /\ open \in BOOLEAN /\ dirty \in BOOLEAN
    /\ blind \in BOOLEAN /\ listFailed \in BOOLEAN /\ closing \in BOOLEAN
    /\ world \in [Player -> Media \cup {Absent}]
    /\ selected_name \in Player \cup {0} /\ can \subseteq Capability
    /\ names \subseteq Player
    /\ candidate \in PlayerRead
    /\ selected \in PlayerRead
    /\ pc \in Reading \cup {"idle", "list", "closing", "backoff"}

\* A snapshot needs a source, and a closed source remembers no player.
Remembered ==
    /\ pc \in Reading \cup {"list", "closing"} => open
    /\ pc = "backoff" => ~open
    /\ ~open => selected_name = 0
    /\ selected_name = 0 => can = {}
    /\ selected.name = 0 => selected = Nobody
    /\ pc \in {"metadata", "capabilities"} => candidate.name \in Player \ names

\* Outside a snapshot the actions that are shown are those the source
\* remembers.
ActionsShown ==
    pc \in {"idle", "backoff", "closing"} /\ ~listFailed =>
      /\ published.player = selected_name
      /\ published.actions = ShownActions(can)

\* Nothing relevant has happened since the queue was emptied, and no call has
\* failed by itself.
Undisturbed == bus /\ open /\ ~blind /\ ~Processed

\* q is preferred to r, as they are.
Beats(q, r) ==
    \/ Rank(world[q]) > Rank(world[r])
    \/ Rank(world[q]) = Rank(world[r]) /\ q < r

Here == {q \in Player : Present(q)}

\* The players whose reads are complete.
ReadSoFar == Here \ (names \cup (IF pc = "status" THEN {} ELSE {candidate.name}))

\* p is what the best player in Q is like.
IsBestOf(p, Q) ==
    \/ Q = {} /\ p = Nobody
    \/ /\ p.name \in Q
       /\ p.status = world[p.name].status
       /\ p.song = world[p.name].song
       /\ p.can = world[p.name].can
       /\ \A r \in Q \ {p.name} : Beats(p.name, r)

\* The scan so far.
ScanRight ==
    pc \in Reading /\ Undisturbed =>
      /\ names \subseteq Here
      /\ IsBestOf(selected, ReadSoFar)
      /\ pc # "status" => /\ candidate.name \in Here
                          /\ candidate.status = world[candidate.name].status
      /\ pc = "capabilities" => candidate.song = world[candidate.name].song

Inv == TypeOK /\ Remembered /\ ActionsShown /\ ScanRight /\ NoChangeMissed

-----------------------------------------------------------------------------
(* Capabilities and preference.                                            *)

\* action_available accepts what the capabilities of lsource_snapshot show.
LEMMA AvailableAsShown ==
    ASSUME NEW a \in Action
    PROVE  ActionAvailable(a) <=> a \in ShownActions(can)
<1>1. CASE "CanControl" \notin can
  BY <1>1 DEF ActionAvailable, ShownActions
<1>2. CASE "CanControl" \in can
  <2>1. CASE a = "next"
    BY <1>2, <2>1 DEF ActionAvailable, ShownActions, Needed, Action
  <2>2. CASE a = "pause"
    BY <1>2, <2>2 DEF ActionAvailable, ShownActions, Needed, Action
  <2>3. CASE a = "play"
    BY <1>2, <2>3 DEF ActionAvailable, ShownActions, Needed, Action
  <2>4. CASE a = "play-pause"
    BY <1>2, <2>4 DEF ActionAvailable, ShownActions, Needed, Action
  <2>5. CASE a = "previous"
    BY <1>2, <2>5 DEF ActionAvailable, ShownActions, Needed, Action
  <2>6. QED
    BY <2>1, <2>2, <2>3, <2>4, <2>5 DEF Action
<1>3. QED
  BY <1>1, <1>2

\* Without capabilities nothing is shown.
LEMMA NothingShown == ShownActions({}) = {}
  BY DEF ShownActions

\* status_rank is a number and depends on the status only.
LEMMA Ranks ==
    ASSUME NEW p, p.status \in Status
    PROVE  /\ Rank(p) \in Nat
           /\ \A r : r.status = p.status => Rank(r) = Rank(p)
  BY DEF Rank, Status

\* The rank of a player on the bus.
LEMMA WorldRank ==
    ASSUME TypeOK, NEW q \in Here
    PROVE  /\ world[q] \in Media /\ Rank(world[q]) \in Nat /\ q \in Nat /\ q # 0
           /\ world[q].status \in Status /\ world[q].can \subseteq Capability
<1>1. world[q] \in Media /\ q \in Player
  BY DEF TypeOK, Here, Present
<1>2. world[q].status \in Status /\ world[q].can \subseteq Capability
  BY <1>1, MediaAssumption
<1>3. Rank(world[q]) \in Nat
  BY <1>2, Ranks
<1>4. QED
  BY <1>1, <1>2, <1>3, PlayerAssumption

\* The order of preference is total and transitive.
LEMMA Preference ==
    ASSUME TypeOK, NEW q \in Here, NEW r \in Here, NEW t \in Here
    PROVE  /\ q # r => Beats(q, r) \/ Beats(r, q)
           /\ ~(Beats(q, r) /\ Beats(r, q))
           /\ Beats(q, r) /\ Beats(r, t) => Beats(q, t)
  BY WorldRank DEF Beats

\* The best of all players on the bus is what Best shows.
LEMMA BestIsBest ==
    ASSUME TypeOK, bus, NEW p, IsBestOf(p, Here)
    PROVE  Best = Shown(p, TRUE, ShownActions(p.can))
<1>1. CASE Here = {}
  <2>1. p = Nobody /\ p.can = {}
    BY <1>1 DEF IsBestOf, Nobody
  <2>2. Best = Unavailable(TRUE)
    BY <1>1 DEF Best, Here
  <2>3. QED
    BY <2>1, <2>2, NothingShown DEF Unavailable
<1>2. CASE Here # {}
  <2> DEFINE First(q) == q \in Here /\ \A r \in Here \ {q} : Beats(q, r)
             c == CHOOSE q \in Here : \A r \in Here \ {q} : Beats(q, r)
  <2>1. First(p.name) /\ p.status = world[p.name].status
        /\ p.song = world[p.name].song /\ p.can = world[p.name].can
    BY <1>2 DEF IsBestOf
  <2>2. First(c)
    BY <2>1
  <2>3. c = p.name
    <3> HIDE DEF c
    <3>1. QED
      BY <2>1, <2>2, Preference
  <2>4. Best = Shown([name |-> c, status |-> world[c].status, song |-> world[c].song],
                     TRUE, ShownActions(world[c].can))
    BY <1>2 DEF Best, Here, Beats
  <2> HIDE DEF c
  <2>5. QED
    BY <2>1, <2>3, <2>4 DEF Shown
<1>3. QED
  BY <1>1, <1>2

\* prefer_player keeps the better of the best so far and the one just read.
LEMMA BestStep ==
    ASSUME TypeOK, NEW Q, Q \subseteq Here, NEW p, IsBestOf(p, Q),
           p.name = 0 => p = Nobody,
           NEW n \in PlayerRead, n.name \in Here \ Q,
           n.status = world[n.name].status, n.song = world[n.name].song,
           NEW c, c = world[n.name].can
    PROVE  IsBestOf(IF PreferPlayer(n, p) THEN [n EXCEPT !.can = c] ELSE p,
                    Q \cup {n.name})
<1> DEFINE m == [n EXCEPT !.can = c]
<1>1. m.name = n.name /\ m.status = n.status /\ m.song = n.song /\ m.can = c
  BY DEF PlayerRead
<1>2. n.name \in Here /\ n.name # 0 /\ Rank(n) = Rank(world[n.name]) /\ Rank(n) \in Nat
  BY WorldRank, Ranks
<1>3. CASE Q = {}
  <2>1. p = Nobody /\ p.name = 0
    BY <1>3 DEF IsBestOf, Nobody
  <2>2. PreferPlayer(n, p)
    BY <2>1 DEF PreferPlayer
  <2>3. IsBestOf(m, Q \cup {n.name})
    BY <1>1, <1>3 DEF IsBestOf
  <2>4. QED
    BY <2>2, <2>3
<1>4. CASE Q # {}
  <2>1. /\ p.name \in Q /\ p.status = world[p.name].status
        /\ p.song = world[p.name].song /\ p.can = world[p.name].can
        /\ \A r \in Q \ {p.name} : Beats(p.name, r)
    BY <1>4 DEF IsBestOf
  <2>2. p.name \in Here /\ p.name # 0 /\ p.name # n.name /\ Rank(p) = Rank(world[p.name])
    BY <2>1, WorldRank, Ranks
  <2>3. PreferPlayer(n, p) <=> Beats(n.name, p.name)
    BY <1>2, <2>2 DEF PreferPlayer, Beats
  <2>4. CASE PreferPlayer(n, p)
    <3>1. \A r \in (Q \cup {n.name}) \ {n.name} : Beats(n.name, r)
      BY <1>2, <2>1, <2>2, <2>3, <2>4, Preference
    <3>2. IsBestOf(m, Q \cup {n.name})
      BY <1>1, <3>1 DEF IsBestOf
    <3>3. QED
      BY <2>4, <3>2
  <2>5. CASE ~PreferPlayer(n, p)
    <3>1. Beats(p.name, n.name)
      BY <1>2, <2>2, <2>3, <2>5, Preference
    <3>2. IsBestOf(p, Q \cup {n.name})
      BY <2>1, <3>1 DEF IsBestOf
    <3>3. QED
      BY <2>5, <3>2
  <2>6. QED
    BY <2>4, <2>5
<1>5. QED
  BY <1>3, <1>4

-----------------------------------------------------------------------------
(* The invariant.                                                          *)

\* Best and the scan depend on the bus and the players alone.
LEMMA BestSame ==
    ASSUME UNCHANGED <<bus, world>>
    PROVE  Best' = Best /\ Here' = Here
  BY DEF Best, Here, Present

\* Nobody is a player that was read.
LEMMA NobodyRead == Nobody \in PlayerRead /\ Nobody.name = 0 /\ Nobody.can = {}
  BY DEF Nobody, PlayerRead, Status

\* What a disconnect publishes is what the closed source accepts.
LEMMA Disconnected ==
    ASSUME Disconnect
    PROVE  /\ published'.player = selected_name'
           /\ published'.actions = ShownActions(can')
           /\ selected_name' = 0 /\ can' = {} /\ open' = FALSE
  BY NothingShown DEF Disconnect, Unavailable, Shown, Nobody

\* The connection opens, closes, or waits.
LEMMA OpenKeeps ==
    ASSUME Inv, Open \/ OpenFails \/ BusCloses
    PROVE  Inv'
<1>1. CASE Open
  <2>1. TypeOK'
    BY <1>1 DEF Open, Inv, TypeOK, busVars, history, Reading
  <2>2. Remembered'
    BY <1>1 DEF Open, Inv, Remembered, Reading
  <2>3. QED
    BY <1>1, <2>1, <2>2 DEF Open, Inv, ActionsShown, ScanRight, NoChangeMissed, Reading
<1>2. CASE OpenFails \/ BusCloses
  <2>1. /\ Disconnect
        /\ pc' \in {"idle", "backoff"} /\ closing' \in BOOLEAN
        /\ UNCHANGED <<bus, world, names, candidate, selected>>
    BY <1>2 DEF OpenFails, BusCloses, busVars, scanVars, Inv, TypeOK
  <2>2. /\ published'.player = selected_name' /\ published'.actions = ShownActions(can')
        /\ selected_name' = 0 /\ can' = {} /\ open' = FALSE
    BY <2>1, Disconnected
  <2>3. TypeOK'
    BY <2>1, <2>2 DEF Disconnect, Inv, TypeOK
  <2>4. Remembered'
    BY <2>1, <2>2 DEF Inv, Remembered, Reading
  <2>5. ActionsShown'
    BY <2>2 DEF ActionsShown
  <2>6. ScanRight' /\ NoChangeMissed'
    BY <2>1, <2>2 DEF ScanRight, NoChangeMissed, Reading
  <2>7. QED
    BY <2>3, <2>4, <2>5, <2>6 DEF Inv
<1>3. QED
  BY <1>1, <1>2

\* The wait empties the queue and, after a change, begins a snapshot.
LEMMA WaitKeeps ==
    ASSUME Inv, Wait
    PROVE  Inv'
<1>1. /\ pc = "idle" /\ open /\ dirty' = FALSE /\ queue' = {}
      /\ pc' \in {"idle", "list"} /\ closing' \in BOOLEAN
      /\ pc' = "idle" => ~Processed
      /\ UNCHANGED <<bus, world, open, selected_name, can, names, candidate, selected,
                     published, blind, listFailed>>
  BY DEF Wait, busVars, backoffVars, history, Inv, TypeOK
<1>2. TypeOK' /\ Remembered' /\ ActionsShown'
  BY <1>1 DEF Inv, TypeOK, Remembered, ActionsShown, Reading
<1>3. ScanRight'
  BY <1>1 DEF ScanRight, Reading
<1>4. NoChangeMissed'
  BY <1>1, BestSame DEF Inv, NoChangeMissed
<1>5. QED
  BY <1>2, <1>3, <1>4 DEF Inv

\* ListNames answers: nobody is selected of the players that are read, none.
LEMMA ListKeeps ==
    ASSUME Inv, ListNames
    PROVE  Inv'
<1>1. /\ pc = "list" /\ pc' = "status" /\ names' = Here /\ selected' = Nobody
      /\ blind' = FALSE /\ listFailed' = FALSE
      /\ UNCHANGED <<bus, world, open, queue, dirty, selected_name, can, closing, candidate>>
  BY DEF ListNames, Here, busVars, sourceVars
<1>2. open
  BY <1>1 DEF Inv, Remembered
<1>3. TypeOK'
  BY <1>1, NobodyRead DEF Inv, TypeOK, Here, Reading
<1>4. Remembered' /\ ActionsShown' /\ NoChangeMissed'
  BY <1>1, <1>2 DEF Inv, Remembered, ActionsShown, NoChangeMissed, Reading
<1>5. ScanRight'
  <2>1. Here' = Here
    BY <1>1, BestSame
  <2>2. ReadSoFar' = {}
    BY <1>1, <2>1 DEF ReadSoFar
  <2>3. QED
    BY <1>1, <2>1, <2>2 DEF ScanRight, IsBestOf
<1>6. QED
  BY <1>3, <1>4, <1>5 DEF Inv

\* ListNames fails: the service is blind until the next snapshot.
LEMMA ListFailsKeeps ==
    ASSUME Inv, ListNamesFails
    PROVE  Inv'
<1>1. /\ pc = "list" /\ pc' \in {"idle", "closing"}
      /\ blind' = TRUE /\ listFailed' = TRUE
      /\ UNCHANGED <<bus, world, open, queue, dirty, selected_name, can, closing, candidate,
                     names, selected>>
  BY DEF ListNamesFails, SnapshotDone, busVars, sourceVars
<1>2. TypeOK' /\ Remembered' /\ ActionsShown'
  BY <1>1 DEF Inv, TypeOK, Remembered, ActionsShown, Reading
<1>3. ScanRight' /\ NoChangeMissed'
  BY <1>1 DEF ScanRight, NoChangeMissed, Undisturbed
<1>4. QED
  BY <1>2, <1>3 DEF Inv

\* Backoffs, reloads, chatter and the end and start of a bus leave a snapshot
\* alone.
LEMMA QuietKeeps ==
    ASSUME Inv, BackoffEnds \/ BackoffWoken \/ Reload \/ Chatter \/ BusEnds \/ BusStarts
           \/ UNCHANGED vars
    PROVE  Inv'
<1>1. CASE BackoffEnds \/ BackoffWoken \/ Reload
  <2>1. /\ pc \in {"idle", "backoff"} /\ pc' = "idle"
        /\ UNCHANGED <<bus, world, open, queue, dirty, selected_name, can, closing, candidate,
                       names, selected, published, blind, listFailed>>
    BY <1>1 DEF BackoffEnds, BackoffWoken, Reload, busVars, sourceVars, scanVars, history
  <2>2. TypeOK' /\ Remembered' /\ ActionsShown' /\ ScanRight'
    BY <2>1 DEF Inv, TypeOK, Remembered, ActionsShown, ScanRight, Reading
  <2>3. NoChangeMissed'
    BY <2>1, BestSame DEF Inv, Remembered, NoChangeMissed, Processed
  <2>4. QED
    BY <2>2, <2>3 DEF Inv
<1>2. CASE Chatter \/ UNCHANGED vars
  <2>1. /\ queue' = queue \/ queue' = queue \cup {"other"}
        /\ UNCHANGED <<bus, world, open, dirty, selected_name, can, pc, closing, candidate,
                       names, selected, published, blind, listFailed>>
    BY <1>2 DEF Chatter, Send, vars, busVars, sourceVars, scanVars, history
  <2>2. Processed' = Processed
    BY <2>1 DEF Processed, Relevant
  <2>3. TypeOK' /\ Remembered' /\ ActionsShown'
    BY <2>1 DEF Inv, TypeOK, Remembered, ActionsShown
  <2>4. Best' = Best /\ Here' = Here
    BY <2>1, BestSame
  <2>5. ReadSoFar' = ReadSoFar
    BY <2>1, <2>4 DEF ReadSoFar
  <2>6. ScanRight' /\ NoChangeMissed'
    BY <2>1, <2>2, <2>4, <2>5
      DEF Inv, ScanRight, NoChangeMissed, Undisturbed, IsBestOf, Beats
  <2>7. QED
    BY <2>3, <2>6 DEF Inv
<1>3. CASE BusEnds \/ BusStarts
  <2>1. /\ UNCHANGED <<open, queue, dirty, selected_name, can, pc, closing, candidate,
                       names, selected, published, blind, listFailed>>
        /\ bus' \in BOOLEAN /\ (bus' => ~open)
    BY <1>3 DEF BusEnds, BusStarts, sourceVars, scanVars, history
  <2>2. world' \in [Player -> Media \cup {Absent}]
    BY <1>3 DEF BusEnds, BusStarts, Inv, TypeOK
  <2>3. TypeOK' /\ Remembered' /\ ActionsShown'
    BY <2>1, <2>2 DEF Inv, TypeOK, Remembered, ActionsShown
  <2>4. ScanRight' /\ NoChangeMissed'
    BY <2>1 DEF ScanRight, NoChangeMissed, Undisturbed
  <2>5. QED
    BY <2>3, <2>4 DEF Inv
<1>4. QED
  BY <1>1, <1>2, <1>3

\* A player's change leaves a signal that makes the service look again.
LEMMA ChangeKeeps ==
    ASSUME Inv, NEW q \in Player, NEW m \in Media \cup {Absent}, Change(q, m)
    PROVE  Inv'
<1>1. /\ UNCHANGED <<bus, open, dirty, selected_name, can, pc, closing, candidate,
                     names, selected, published, blind, listFailed>>
      /\ world' = [world EXCEPT ![q] = m]
  BY DEF Change, scanVars, history
<1>2. open => Processed'
  <2>1. ASSUME open
        PROVE  \E signal \in queue' : Relevant(signal)
    BY <2>1 DEF Change, Send, Relevant
  <2>2. QED
    BY <2>1 DEF Processed
<1>3. TypeOK' /\ Remembered' /\ ActionsShown'
  BY <1>1 DEF Inv, TypeOK, Remembered, ActionsShown
<1>4. ScanRight' /\ NoChangeMissed'
  BY <1>1, <1>2 DEF ScanRight, NoChangeMissed, Undisturbed
<1>5. QED
  BY <1>3, <1>4 DEF Inv

\* A call to a player that answers or fails: nothing on the bus moves, and
\* where it fails undisturbed the player is gone.
LEMMA CallTo ==
    ASSUME NEW q, Answers(q) \/ Refuses(q), blind \in BOOLEAN
    PROVE  /\ blind' \in BOOLEAN /\ (blind => blind')
           /\ Refuses(q) /\ bus /\ Present(q) => blind'
           /\ Answers(q) => Present(q)
<1>1. \/ blind' = blind
      \/ blind' = TRUE
  BY DEF Answers, Refuses
<1>2. blind' \in BOOLEAN /\ (blind => blind')
  BY <1>1
<1>3. Refuses(q) /\ bus /\ Present(q) => blind'
  BY Zenon DEF Refuses
<1>4. Answers(q) => Present(q)
  BY DEF Answers
<1>5. QED
  BY <1>2, <1>3, <1>4

\* read_player reads a status.
LEMMA StatusKeeps ==
    ASSUME Inv, ReadStatus
    PROVE  Inv'
<1>1. PICK q \in names :
        /\ names' = names \ {q}
        /\ \/ /\ Answers(q)
              /\ candidate' = [Nobody EXCEPT !.name = q, !.status = world[q].status]
              /\ pc' = "metadata"
           \/ /\ Refuses(q)
              /\ UNCHANGED <<candidate, pc>>
  BY DEF ReadStatus
<1>2. /\ pc = "status"
      /\ UNCHANGED <<bus, world, open, queue, dirty, selected_name, can, closing, selected,
                     published, listFailed>>
  BY DEF ReadStatus, busVars, sourceVars
<1>3. /\ q \in Player /\ blind' \in BOOLEAN /\ (blind => blind')
      /\ Here' = Here /\ open
  BY <1>1, <1>2, CallTo, BestSame DEF Inv, TypeOK, Remembered, Reading
<1>4. Undisturbed' => Undisturbed
  BY <1>2, <1>3 DEF Undisturbed, Processed, Inv, TypeOK
<1>5. CASE /\ Answers(q)
           /\ candidate' = [Nobody EXCEPT !.name = q, !.status = world[q].status]
           /\ pc' = "metadata"
  <2>1. q \in Here /\ world[q].status \in Status
    BY <1>3, <1>5, CallTo, WorldRank DEF Here, Inv, TypeOK
  <2>2. candidate' \in PlayerRead /\ candidate'.name = q /\ candidate'.status = world[q].status
    BY <1>3, <1>5, <2>1 DEF Nobody, PlayerRead
  <2>3. TypeOK'
    BY <1>1, <1>2, <1>3, <1>5, <2>2 DEF Inv, TypeOK, Reading
  <2>4. Remembered' /\ ActionsShown' /\ NoChangeMissed'
    BY <1>1, <1>2, <1>3, <1>5, <2>2
      DEF Inv, Remembered, ActionsShown, NoChangeMissed, Reading
  <2>5. ScanRight'
    <3> SUFFICES ASSUME Undisturbed'
                 PROVE  /\ names' \subseteq Here
                        /\ IsBestOf(selected, ReadSoFar)'
    BY <1>2, <1>3, <1>5, <2>1, <2>2 DEF ScanRight, Reading
    <3>1. names \subseteq Here /\ IsBestOf(selected, ReadSoFar)
      BY <1>2, <1>4 DEF Inv, ScanRight, Reading
    <3>2. ReadSoFar' = ReadSoFar
      BY <1>1, <1>2, <1>3, <1>5, <2>2 DEF ReadSoFar
    <3>3. QED
      BY <1>1, <1>2, <3>1, <3>2 DEF IsBestOf, Beats
  <2>6. QED
    BY <2>3, <2>4, <2>5 DEF Inv
<1>6. CASE Refuses(q) /\ UNCHANGED <<candidate, pc>>
  <2>1. TypeOK'
    BY <1>1, <1>2, <1>3, <1>6 DEF Inv, TypeOK
  <2>2. Remembered' /\ ActionsShown' /\ NoChangeMissed'
    BY <1>1, <1>2, <1>6 DEF Inv, Remembered, ActionsShown, NoChangeMissed, Reading
  <2>3. ScanRight'
    <3>1. ASSUME Undisturbed'
          PROVE  FALSE
      <4>1. names \subseteq Here
        BY <1>2, <1>4, <3>1 DEF Inv, ScanRight, Reading
      <4>2. bus /\ Present(q) /\ ~blind'
        BY <1>2, <3>1, <4>1 DEF Undisturbed, Here
      <4>3. QED
        BY <1>3, <1>6, <4>2, CallTo DEF Inv, TypeOK
    <3>2. QED
      BY <3>1 DEF ScanRight
  <2>4. QED
    BY <2>1, <2>2, <2>3 DEF Inv
<1>7. QED
  BY <1>1, <1>5, <1>6

\* read_player reads the metadata.
LEMMA MetadataKeeps ==
    ASSUME Inv, ReadMetadata
    PROVE  Inv'
<1> DEFINE q == candidate.name
<1>1. /\ pc = "metadata" /\ pc' = "capabilities"
      /\ \/ /\ Answers(q)
            /\ candidate' = [candidate EXCEPT !.song = world[q].song]
         \/ Refuses(q) /\ UNCHANGED candidate
      /\ UNCHANGED <<bus, world, open, queue, dirty, selected_name, can, closing, names,
                     selected, published, listFailed>>
  BY DEF ReadMetadata, busVars, sourceVars
<1>2. /\ q \in Player \ names /\ blind' \in BOOLEAN /\ (blind => blind')
      /\ Here' = Here /\ open /\ candidate \in PlayerRead
  BY <1>1, CallTo, BestSame DEF Inv, TypeOK, Remembered, Reading
<1>3. Undisturbed' => Undisturbed
  BY <1>1, <1>2 DEF Undisturbed, Processed, Inv, TypeOK
<1>4. /\ candidate' \in PlayerRead /\ candidate'.name = q
      /\ candidate'.status = candidate.status
      /\ Answers(q) /\ candidate' # candidate => candidate'.song = world[q].song
  <2>1. CASE /\ Answers(q)
             /\ candidate' = [candidate EXCEPT !.song = world[q].song]
    <3>1. world[q] \in Media
      BY <1>2, <2>1, CallTo, WorldRank DEF Here, Inv, TypeOK
    <3>2. QED
      BY <1>2, <2>1, <3>1 DEF PlayerRead
  <2>2. CASE UNCHANGED candidate
    BY <1>2, <2>2
  <2>3. QED
    BY <1>1, <2>1, <2>2
<1>5. TypeOK'
  BY <1>1, <1>2, <1>4 DEF Inv, TypeOK, Reading
<1>6. Remembered' /\ ActionsShown' /\ NoChangeMissed'
  BY <1>1, <1>2, <1>4 DEF Inv, Remembered, ActionsShown, NoChangeMissed, Reading
<1>7. ScanRight'
  <2>1. ASSUME Undisturbed'
        PROVE  /\ names' \subseteq Here /\ candidate'.name \in Here
               /\ IsBestOf(selected, ReadSoFar)'
               /\ candidate'.status = world[q].status
               /\ candidate'.song = world[q].song
    <3>1. /\ names \subseteq Here /\ IsBestOf(selected, ReadSoFar)
          /\ q \in Here /\ candidate.status = world[q].status
      BY <1>1, <1>3, <2>1 DEF Inv, ScanRight, Reading
    <3>2. ReadSoFar' = ReadSoFar
      BY <1>1, <1>2, <1>4 DEF ReadSoFar
    <3>3. IsBestOf(selected, ReadSoFar)'
      BY <1>1, <3>1, <3>2 DEF IsBestOf, Beats
    <3>4. bus /\ Present(q) /\ ~blind'
      BY <1>1, <2>1, <3>1 DEF Undisturbed, Here
    <3>5. candidate' = [candidate EXCEPT !.song = world[q].song]
      BY <1>1, <1>2, <3>4, CallTo DEF Inv, TypeOK
    <3>6. candidate'.song = world[q].song
      BY <1>2, <3>5 DEF PlayerRead
    <3>7. QED
      BY <1>1, <1>4, <3>1, <3>3, <3>6
  <2>2. QED
    BY <1>1, <1>2, <1>4, <2>1 DEF ScanRight, Reading
<1>8. QED
  BY <1>5, <1>6, <1>7 DEF Inv

\* The capabilities are read and prefer_player decides.
LEMMA CapabilitiesKeep ==
    ASSUME Inv, ReadCapabilities
    PROVE  Inv'
<1> DEFINE q == candidate.name
<1>1. PICK c \in SUBSET Capability :
        /\ \/ Answers(q) /\ c = world[q].can
           \/ Refuses(q)
        /\ selected' = IF PreferPlayer(candidate, selected)
                       THEN [candidate EXCEPT !.can = c] ELSE selected
  BY DEF ReadCapabilities
<1>2. /\ pc = "capabilities" /\ pc' = "status" /\ candidate' = Nobody
      /\ UNCHANGED <<bus, world, open, queue, dirty, selected_name, can, closing, names,
                     published, listFailed>>
  BY DEF ReadCapabilities, busVars, sourceVars
<1>3. /\ q \in Player \ names /\ blind' \in BOOLEAN /\ (blind => blind')
      /\ Here' = Here /\ open /\ candidate \in PlayerRead /\ selected \in PlayerRead
      /\ q # 0
  BY <1>1, <1>2, CallTo, BestSame, PlayerAssumption DEF Inv, TypeOK, Remembered, Reading
<1>4. Undisturbed' => Undisturbed
  BY <1>2, <1>3 DEF Undisturbed, Processed, Inv, TypeOK
<1>5. /\ [candidate EXCEPT !.can = c] \in PlayerRead
      /\ [candidate EXCEPT !.can = c].name = q
  BY <1>3 DEF PlayerRead
<1>6. selected' \in PlayerRead /\ (selected'.name = 0 => selected' = Nobody)
  BY <1>1, <1>3, <1>5 DEF Inv, Remembered
<1>7. TypeOK'
  BY <1>2, <1>3, <1>6, NobodyRead DEF Inv, TypeOK, Reading
<1>8. Remembered' /\ ActionsShown' /\ NoChangeMissed'
  BY <1>2, <1>3, <1>6 DEF Inv, Remembered, ActionsShown, NoChangeMissed, Reading
<1>9. ScanRight'
  <2>1. ASSUME Undisturbed'
        PROVE  names' \subseteq Here /\ IsBestOf(selected, ReadSoFar)'
    <3>1. /\ names \subseteq Here /\ IsBestOf(selected, ReadSoFar)
          /\ q \in Here /\ candidate.status = world[q].status
          /\ candidate.song = world[q].song
      BY <1>2, <1>4, <2>1 DEF Inv, ScanRight, Reading
    <3>2. bus /\ Present(q) /\ ~blind'
      BY <1>2, <2>1, <3>1 DEF Undisturbed, Here
    <3>3. c = world[q].can
      BY <1>1, <1>3, <3>2, CallTo DEF Inv, TypeOK
    <3>4. /\ ReadSoFar \subseteq Here /\ q \notin ReadSoFar
          /\ ReadSoFar' = ReadSoFar \cup {q}
      BY <1>2, <1>3, <3>1 DEF ReadSoFar
    <3>5. selected.name = 0 => selected = Nobody
      BY DEF Inv, Remembered
    <3>6. IsBestOf(selected', ReadSoFar \cup {q})
      BY <1>1, <1>3, <3>1, <3>3, <3>4, <3>5, BestStep DEF Inv
    <3>7. QED
      BY <1>2, <3>1, <3>4, <3>6 DEF IsBestOf, Beats
  <2>2. QED
    BY <1>2, <1>3, <2>1 DEF ScanRight, Reading
<1>10. QED
  BY <1>7, <1>8, <1>9 DEF Inv

\* The snapshot is published: the best player, if nothing disturbed it.
LEMMA PublishKeeps ==
    ASSUME Inv, Publish
    PROVE  Inv'
<1>1. /\ pc = "status" /\ pc' \in {"idle", "closing"} /\ names = {} /\ selected' = Nobody
      /\ selected_name' = selected.name /\ can' = selected.can
      /\ published' = Shown(selected, TRUE, ShownActions(selected.can))
      /\ UNCHANGED <<bus, world, open, queue, dirty, closing, names, candidate, blind,
                     listFailed>>
  BY DEF Publish, SnapshotDone, busVars, history
<1>2. open
  BY <1>1 DEF Inv, Remembered, Reading
<1>3. selected.name = 0 => selected.can = {}
  BY NobodyRead DEF Inv, Remembered
<1>4. TypeOK'
  <2>1. selected.name \in Player \cup {0} /\ selected.can \subseteq Capability
    BY DEF Inv, TypeOK, PlayerRead
  <2>2. QED
    BY <1>1, <2>1, NobodyRead DEF Inv, TypeOK
<1>5. Remembered'
  BY <1>1, <1>2, <1>3 DEF Inv, Remembered, Reading
<1>6. ActionsShown'
  BY <1>1 DEF ActionsShown, Shown
<1>7. NoChangeMissed'
  <2>1. ASSUME bus, ~blind, ~Processed
        PROVE  published' = Best'
    <3>1. Undisturbed
      BY <1>2, <2>1 DEF Undisturbed
    <3>2. ReadSoFar = Here
      BY <1>1 DEF ReadSoFar
    <3>3. IsBestOf(selected, Here)
      BY <1>1, <3>1, <3>2 DEF Inv, ScanRight, Reading
    <3>4. QED
      BY <1>1, <2>1, <3>3, BestIsBest, BestSame DEF Inv
  <2>2. Processed' = Processed
    BY <1>1 DEF Processed
  <2>3. QED
    BY <1>1, <2>1, <2>2 DEF NoChangeMissed
<1>8. ScanRight'
  BY <1>1 DEF ScanRight, Reading
<1>9. QED
  BY <1>4, <1>5, <1>6, <1>7, <1>8 DEF Inv

\* Every step keeps the invariant; a dispatch is a change of the selected
\* player.
LEMMA InvStep ==
    ASSUME Inv, [Next]_vars
    PROVE  Inv'
<1>1. CASE Service
  BY <1>1, OpenKeeps, WaitKeeps, ListKeeps, ListFailsKeeps, StatusKeeps, MetadataKeeps,
     CapabilitiesKeep, PublishKeeps, QuietKeeps DEF Service
<1>2. CASE BackoffWoken \/ Reload \/ Chatter \/ BusEnds \/ BusStarts \/ UNCHANGED vars
  BY <1>2, QuietKeeps
<1>3. CASE \E q \in Player, m \in Media \cup {Absent} : Change(q, m)
  BY <1>3, ChangeKeeps
<1>4. ASSUME NEW a \in Action, Dispatch(a)
      PROVE  Inv'
  <2>1. selected_name \in Player
    BY <1>4 DEF Dispatch, Accepted, Inv, TypeOK
  <2>2. QED
    BY <1>4, <2>1, ChangeKeeps DEF Dispatch
<1>5. QED
  BY <1>1, <1>2, <1>3, <1>4 DEF Next

\* The initial state satisfies the invariant.
LEMMA Initially == Init => Inv
<1> SUFFICES ASSUME Init PROVE Inv
  OBVIOUS
<1>1. TypeOK
  BY NobodyRead DEF Init, TypeOK, Reading
<1>2. Remembered
  BY DEF Init, Remembered, Reading
<1>3. ActionsShown
  BY NothingShown DEF Init, ActionsShown, Unavailable, Shown, Nobody
<1>4. ScanRight /\ NoChangeMissed
  BY DEF Init, ScanRight, NoChangeMissed, Reading
<1>5. QED
  BY <1>1, <1>2, <1>3, <1>4 DEF Inv

\* The invariant holds in every reachable state.
THEOREM Invariance == Spec => []Inv
<1>1. Init => Inv
  BY Initially
<1>2. Inv /\ [Next]_vars => Inv'
  BY InvStep
<1>3. QED
  BY <1>1, <1>2, PTL DEF Spec

\* A wait shows the best player, or a signal that makes the service look again
\* is there: for players that come, go or change anywhere between ListNames
\* and the reads of their properties, in any number, read in any order.
THEOREM NothingMissed == Spec => []NoChangeMissed
<1>1. Inv => NoChangeMissed
  BY DEF Inv
<1>2. QED
  BY <1>1, Invariance, PTL

\* S.dispatch accepts the actions that are shown, for the player that is
\* shown, and no others.
THEOREM ActionsAcceptedAsShown == Spec => []AcceptedAsShown
<1>1. Inv => AcceptedAsShown
  <2> SUFFICES ASSUME Inv, pc = "idle", ~listFailed
               PROVE  /\ \A a \in Action : Accepted(a) <=> a \in published.actions
                      /\ selected_name = published.player
    BY DEF AcceptedAsShown
  <2>1. published.player = selected_name /\ published.actions = ShownActions(can)
    BY DEF Inv, ActionsShown
  <2>2. ASSUME NEW a \in Action
        PROVE  Accepted(a) <=> a \in published.actions
    <3>1. ActionAvailable(a) <=> a \in published.actions
      BY <2>1, AvailableAsShown
    <3>2. CASE open /\ selected_name # 0
      BY <3>1, <3>2 DEF Accepted
    <3>3. CASE ~(open /\ selected_name # 0)
      <4>1. can = {}
        BY <3>3 DEF Inv, Remembered
      <4>2. QED
        BY <2>1, <3>3, <4>1, NothingShown DEF Accepted
    <3>4. QED
      BY <3>2, <3>3
  <2>3. QED
    BY <2>1, <2>2
<1>2. QED
  BY <1>1, Invariance, PTL
=============================================================================
