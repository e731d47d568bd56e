------------------------ MODULE ControlPartsProofs -------------------------
(***************************************************************************)
(* The two parts of src/control.c that module Control takes for granted:   *)
(* the action ring is a queue, and the socket path is the daemon's own.    *)
(*                                                                         *)
(* The ring implements the bounded queue for every capacity and every set  *)
(* of actions.  The invariant needed is type correctness (the head inside  *)
(* the array, the count within its size) and that the owned slots hold     *)
(* actions; the arithmetic is one lemma about indices that wrap around at  *)
(* most once.                                                              *)
(*                                                                         *)
(* The path changes hands safely, for any number of daemons, as long as no *)
(* two of them start or stop at the same moment.                           *)
(***************************************************************************)
EXTENDS ActionRing, Socket, TLAPS

-----------------------------------------------------------------------------
(* The ring.                                                               *)

\* An index at most one lap ahead is reduced by at most one subtraction.
LEMMA WrapOnce ==
    ASSUME NEW N \in Nat \ {0}, NEW k \in Nat, k < 2 * N
    PROVE  k % N = IF k < N THEN k ELSE k - N
<1>1. CASE k < N
  BY <1>1
<1>2. CASE k >= N
  BY <1>2
<1>3. QED
  BY <1>1, <1>2

\* The slot at distance i from the head.
At(h, i) == (h + i) % MaxActions

\* The capacity, as the arithmetic needs it.
LEMMA Capacity ==
    /\ MaxActions \in Nat /\ MaxActions > 0
    /\ 0 \in Slot
    /\ 0 \in 0..MaxActions
    /\ \A h \in Slot : h \in Nat /\ h < MaxActions
  BY CapacityAssumption DEF Slot

\* What taking a position modulo the capacity amounts to.
LEMMA AtWraps ==
    ASSUME NEW h \in Slot, NEW i \in 0..MaxActions
    PROVE  /\ h + i < MaxActions => At(h, i) = h + i
           /\ h + i >= MaxActions => At(h, i) = h + i - MaxActions
<1> DEFINE k == h + i
<1>1. k \in Nat /\ k < 2 * MaxActions
  BY Capacity
<1>2. k % MaxActions = IF k < MaxActions THEN k ELSE k - MaxActions
  <2> HIDE DEF k
  <2>1. QED
    BY <1>1, WrapOnce, CapacityAssumption
<1>3. At(h, i) = k % MaxActions
  BY DEF At
<1>4. QED
  BY <1>1, <1>2, <1>3, Capacity

\* Every position of the ring is a slot of the array.
LEMMA AtInSlot ==
    ASSUME NEW h \in Slot, NEW i \in 0..MaxActions
    PROVE  At(h, i) \in Slot
<1> HIDE DEF At
<1>1. QED
  BY AtWraps, Capacity DEF Slot

\* Distances below the capacity lead to distinct slots of the array.
LEMMA AtInjective ==
    ASSUME NEW h \in Slot, NEW i \in 0..(MaxActions - 1),
           NEW j \in 0..(MaxActions - 1), At(h, i) = At(h, j)
    PROVE  i = j
<1>1. /\ h + i < MaxActions => At(h, i) = h + i
      /\ h + i >= MaxActions => At(h, i) = h + i - MaxActions
  BY AtWraps, Capacity
<1>2. /\ h + j < MaxActions => At(h, j) = h + j
      /\ h + j >= MaxActions => At(h, j) = h + j - MaxActions
  BY AtWraps, Capacity
<1>3. QED
  BY <1>1, <1>2, Capacity

\* After the head has moved by one, distance i is the old distance i + 1.
LEMMA AtShift ==
    ASSUME NEW h \in Slot, NEW i \in 0..(MaxActions - 1)
    PROVE  At(At(h, 1), i) = At(h, i + 1)
<1>1. /\ h + 1 < MaxActions => At(h, 1) = h + 1
      /\ h + 1 >= MaxActions => At(h, 1) = h + 1 - MaxActions
  BY AtWraps, Capacity
<1>2. /\ h + (i + 1) < MaxActions => At(h, i + 1) = h + (i + 1)
      /\ h + (i + 1) >= MaxActions => At(h, i + 1) = h + (i + 1) - MaxActions
  BY AtWraps, Capacity
<1>3. At(h, 1) \in Slot
  BY AtInSlot, Capacity
<1>4. /\ At(h, 1) + i < MaxActions => At(At(h, 1), i) = At(h, 1) + i
      /\ At(h, 1) + i >= MaxActions => At(At(h, 1), i) = At(h, 1) + i - MaxActions
  BY <1>3, AtWraps, Capacity
<1>5. QED
  BY <1>1, <1>2, <1>3, <1>4, Capacity

-----------------------------------------------------------------------------
Inv == TypeOK /\ OwnedSlotsFilled

\* An empty ring owns no slot.
LEMMA EmptyFilled == (action_count = 0) => OwnedSlotsFilled
<1> SUFFICES ASSUME action_count = 0, NEW i \in 0..(action_count - 1)
             PROVE  FALSE
  BY DEF OwnedSlotsFilled
<1>1. QED
  OBVIOUS

\* An empty ring owns no slot.
LEMMA EmptyFilledNext == (action_count' = 0) => OwnedSlotsFilled'
<1> SUFFICES ASSUME action_count' = 0, NEW i \in 0..(action_count' - 1)
             PROVE  FALSE
  BY DEF OwnedSlotsFilled
<1>1. QED
  OBVIOUS

\* The static initialiser establishes the invariant.
LEMMA InvInit == Init => Inv
<1> SUFFICES ASSUME Init PROVE Inv
  OBVIOUS
<1>1. TypeOK
  BY Capacity DEF Init, TypeOK
<1>2. OwnedSlotsFilled
  BY EmptyFilled DEF Init
<1>3. QED
  BY <1>1, <1>2 DEF Inv

\* lstart, enqueue_action, pop_action and lstop preserve the invariant.
LEMMA InvStep == Inv /\ [Next]_vars => Inv'
<1> SUFFICES ASSUME Inv, [Next]_vars
             PROVE  Inv'
  OBVIOUS
<1> USE DEF Inv, TypeOK
<1>1. ASSUME NEW created \in BOOLEAN, Start(created)
      PROVE  Inv'
  <2>1. TypeOK'
    BY <1>1, Capacity DEF Start
  <2>2. OwnedSlotsFilled'
    BY <1>1, EmptyFilledNext DEF Start
  <2>3. QED
    BY <2>1, <2>2
<1>2. ASSUME NEW a \in Action, Enqueue(a)
      PROVE  Inv'
  <2>1. CASE ~running \/ stopping \/ action_count >= MaxActions
    BY <1>2, <2>1 DEF Enqueue, OwnedSlotsFilled
  <2>2. CASE ~(~running \/ stopping \/ action_count >= MaxActions)
    <3>1. /\ slot' = [slot EXCEPT ![FreeSlot] = a]
          /\ action_count' = action_count + 1
          /\ UNCHANGED <<running, stopping, action_head>>
      BY <1>2, <2>2 DEF Enqueue
    <3>2. FreeSlot = At(action_head, action_count) /\ FreeSlot \in Slot
      BY AtInSlot, Capacity DEF FreeSlot, At
    <3>3. TypeOK'
      BY <3>1, <3>2, <2>2, Capacity
    <3>4. ASSUME NEW i \in 0..action_count
          PROVE  slot'[At(action_head, i)] \in Action
      <4>1. i \in 0..(MaxActions - 1) /\ action_count \in 0..(MaxActions - 1)
        BY <2>2, Capacity
      <4>2. At(action_head, i) \in Slot
        BY <4>1, AtInSlot, Capacity
      <4>3. CASE i = action_count
        BY <4>3, <3>1, <3>2, <4>2
      <4>4. CASE i # action_count
        <5>1. At(action_head, i) # FreeSlot
          BY <4>4, <4>1, <3>2, AtInjective
        <5>2. slot[At(action_head, i)] \in Action
          BY <4>4, <4>1, Capacity DEF OwnedSlotsFilled, At
        <5>3. QED
          BY <5>1, <5>2, <3>1, <4>2
      <4>5. QED
        BY <4>3, <4>4
    <3>5. OwnedSlotsFilled'
      BY <3>1, <3>4, Capacity DEF OwnedSlotsFilled, At
    <3>6. QED
      BY <3>3, <3>5
  <2>3. QED
    BY <2>1, <2>2
<1>3. CASE Pop
  <2>1. CASE ~running \/ stopping \/ action_count = 0
    BY <1>3, <2>1 DEF Pop, OwnedSlotsFilled
  <2>2. CASE ~(~running \/ stopping \/ action_count = 0)
    <3>1. /\ action_head' = At(action_head, 1)
          /\ action_count' = action_count - 1
          /\ UNCHANGED <<running, stopping, slot>>
      BY <1>3, <2>2 DEF Pop, NextHead, At
    <3>2. action_head' \in Slot
      BY <3>1, AtInSlot, Capacity
    <3>3. TypeOK'
      BY <3>1, <3>2, <2>2, Capacity
    <3>4. ASSUME NEW i \in 0..(action_count - 2)
          PROVE  slot[At(At(action_head, 1), i)] \in Action
      <4>1. At(At(action_head, 1), i) = At(action_head, i + 1)
        BY AtShift, Capacity
      <4>2. slot[At(action_head, i + 1)] \in Action
        BY Capacity DEF OwnedSlotsFilled, At
      <4>3. QED
        BY <4>1, <4>2
    <3>5. OwnedSlotsFilled'
      BY <3>1, <3>4, Capacity DEF OwnedSlotsFilled, At
    <3>6. QED
      BY <3>3, <3>5
  <2>3. QED
    BY <2>1, <2>2
<1>4. CASE StopRequest
  BY <1>4 DEF StopRequest, OwnedSlotsFilled
<1>5. CASE Teardown
  <2>1. TypeOK'
    BY <1>5, Capacity DEF Teardown
  <2>2. OwnedSlotsFilled'
    BY <1>5, EmptyFilledNext DEF Teardown
  <2>3. QED
    BY <2>1, <2>2
<1>6. CASE UNCHANGED vars
  BY <1>6 DEF vars, OwnedSlotsFilled
<1>7. QED
  BY <1>1, <1>2, <1>3, <1>4, <1>5, <1>6 DEF Next

\* Type correctness, for every capacity: action_head indexes the array and
\* action_count never exceeds it.
THEOREM TypeCorrect == Spec => []TypeOK
<1>1. Inv => TypeOK
  BY DEF Inv
<1>2. QED
  BY <1>1, InvInit, InvStep, PTL DEF Spec

\* pop_action never returns what the array was initialised with: every owned
\* slot holds an action.
THEOREM SlotsFilled == Spec => []OwnedSlotsFilled
<1>1. Inv => OwnedSlotsFilled
  BY DEF Inv
<1>2. QED
  BY <1>1, InvInit, InvStep, PTL DEF Spec

-----------------------------------------------------------------------------
\* Queue as a function of the head, the count and the array.
QueueOf(h, n, sl) == [i \in 1..n |-> sl[(h + i - 1) % MaxActions]]

\* The ring read from its head is a sequence of n actions.
LEMMA RingIsSeq ==
    ASSUME NEW h \in Slot, NEW n \in Nat, NEW sl,
           \A i \in 0..(n - 1) : sl[(h + i) % MaxActions] \in Action
    PROVE  /\ QueueOf(h, n, sl) \in Seq(Action)
           /\ Len(QueueOf(h, n, sl)) = n
           /\ \A i \in 1..n : QueueOf(h, n, sl)[i] = sl[At(h, i - 1)]
<1>1. ASSUME NEW i \in 1..n
      PROVE  i - 1 \in 0..(n - 1) /\ h + (i - 1) = h + i - 1
  BY Capacity
<1>2. ASSUME NEW i \in 1..n
      PROVE  sl[(h + i - 1) % MaxActions] \in Action
  BY <1>1
<1>3. QueueOf(h, n, sl) \in [1..n -> Action]
  BY <1>2 DEF QueueOf
<1>4. QueueOf(h, n, sl) \in Seq(Action) /\ Len(QueueOf(h, n, sl)) = n
  BY <1>3
<1>5. ASSUME NEW i \in 1..n
      PROVE  QueueOf(h, n, sl)[i] = sl[At(h, i - 1)]
  BY <1>1 DEF QueueOf, At
<1>6. QED
  BY <1>4, <1>5

\* The ring read from its head is a sequence of actions.
LEMMA QueueIsSeq ==
    ASSUME Inv
    PROVE  /\ Queue \in Seq(Action)
           /\ Len(Queue) = action_count
           /\ \A i \in 1..action_count : Queue[i] = slot[At(action_head, i - 1)]
<1>1. action_head \in Slot /\ action_count \in Nat
  BY DEF Inv, TypeOK
<1>2. \A i \in 0..(action_count - 1) : slot[(action_head + i) % MaxActions] \in Action
  BY DEF Inv, OwnedSlotsFilled
<1>3. Queue = QueueOf(action_head, action_count, slot)
  BY DEF Queue, QueueOf
<1>4. QED
  BY <1>1, <1>2, <1>3, RingIsSeq

\* The same after a step.
LEMMA QueueIsSeqNext ==
    ASSUME Inv'
    PROVE  /\ Queue' \in Seq(Action)
           /\ Len(Queue') = action_count'
           /\ \A i \in 1..action_count' :
                Queue'[i] = slot'[At(action_head', i - 1)]
<1>1. action_head' \in Slot /\ action_count' \in Nat
  BY DEF Inv, TypeOK
<1>2. \A i \in 0..(action_count' - 1) :
        slot'[(action_head' + i) % MaxActions] \in Action
  BY DEF Inv, OwnedSlotsFilled
<1>3. Queue' = QueueOf(action_head', action_count', slot')
  BY DEF Queue, QueueOf
<1>4. QED
  BY <1>1, <1>2, <1>3, RingIsSeq

\* Two sequences of the same length and elements are equal.
LEMMA SeqEqual ==
    ASSUME NEW S, NEW s \in Seq(S), NEW t \in Seq(S), Len(s) = Len(t),
           \A i \in 1..Len(s) : s[i] = t[i]
    PROVE  s = t
  OBVIOUS

\* A function on no index is the empty sequence.
LEMMA EmptySeq ==
    ASSUME NEW S, NEW s \in Seq(S), Len(s) = 0
    PROVE  s = <<>>
  OBVIOUS

\* Filling the free slot appends to the queue, wherever the ring wraps.
LEMMA EnqueueAppends ==
    ASSUME Inv, Inv', NEW a \in Action,
           action_count < MaxActions,
           slot' = [slot EXCEPT ![FreeSlot] = a],
           action_count' = action_count + 1,
           action_head' = action_head
    PROVE  Queue' = Append(Queue, a)
<1>1. /\ Queue \in Seq(Action) /\ Len(Queue) = action_count
      /\ \A i \in 1..action_count : Queue[i] = slot[At(action_head, i - 1)]
  BY QueueIsSeq
<1>2. /\ Queue' \in Seq(Action) /\ Len(Queue') = action_count + 1
      /\ \A i \in 1..(action_count + 1) :
           Queue'[i] = slot'[At(action_head, i - 1)]
  BY QueueIsSeqNext
<1>3. action_count \in Nat /\ action_head \in Slot /\ slot \in [Slot -> Action \cup {Nil}]
  BY DEF Inv, TypeOK
<1>4. FreeSlot = At(action_head, action_count) /\ FreeSlot \in Slot
  BY <1>3, AtInSlot, Capacity DEF FreeSlot, At
<1>5. Append(Queue, a) \in Seq(Action) /\ Len(Append(Queue, a)) = action_count + 1
  BY <1>1, <1>3
<1>6. ASSUME NEW i \in 1..(action_count + 1)
      PROVE  Queue'[i] = Append(Queue, a)[i]
  <2>1. CASE i = action_count + 1
    <3>1. i - 1 = action_count
      BY <2>1, <1>3
    <3>2. Queue'[i] = slot'[FreeSlot]
      BY <1>2, <1>4, <3>1
    <3>3. slot'[FreeSlot] = a
      BY <1>3, <1>4
    <3>4. Append(Queue, a)[i] = a
      BY <2>1, <1>1, <1>3
    <3>5. QED
      BY <3>2, <3>3, <3>4
  <2>2. CASE i # action_count + 1
    <3>1. /\ i \in 1..action_count
          /\ i - 1 \in 0..(MaxActions - 1)
          /\ action_count \in 0..(MaxActions - 1)
          /\ i - 1 # action_count
      BY <2>2, <1>3, Capacity
    <3>2. At(action_head, i - 1) # FreeSlot
      BY <3>1, <1>3, <1>4, AtInjective
    <3>3. At(action_head, i - 1) \in Slot
      BY <3>1, <1>3, AtInSlot, Capacity
    <3>4. Queue'[i] = slot[At(action_head, i - 1)]
      BY <1>2, <1>3, <3>2, <3>3
    <3>5. Append(Queue, a)[i] = Queue[i]
      BY <3>1, <1>1, <1>3
    <3>6. QED
      BY <3>1, <3>4, <3>5, <1>1
  <2>3. QED
    BY <2>1, <2>2
<1>7. QED
  BY <1>2, <1>5, <1>6, SeqEqual

\* Advancing the head takes the first element off the queue.
LEMMA PopTakesHead ==
    ASSUME Inv, Inv', action_count > 0,
           action_head' = At(action_head, 1),
           action_count' = action_count - 1,
           slot' = slot
    PROVE  /\ Queue # <<>>
           /\ Queue' = Tail(Queue)
           /\ Head(Queue) = slot[action_head]
<1>1. /\ Queue \in Seq(Action) /\ Len(Queue) = action_count
      /\ \A i \in 1..action_count : Queue[i] = slot[At(action_head, i - 1)]
  BY QueueIsSeq
<1>2. /\ Queue' \in Seq(Action) /\ Len(Queue') = action_count - 1
      /\ \A i \in 1..(action_count - 1) :
           Queue'[i] = slot[At(At(action_head, 1), i - 1)]
  BY QueueIsSeqNext
<1>3. action_count \in 1..MaxActions /\ action_head \in Slot
  BY Capacity DEF Inv, TypeOK
<1>4. Queue # <<>>
  BY <1>1, <1>3
<1>5. Tail(Queue) \in Seq(Action) /\ Len(Tail(Queue)) = action_count - 1
  BY <1>1, <1>3, <1>4
<1>6. ASSUME NEW i \in 1..(action_count - 1)
      PROVE  Queue'[i] = Tail(Queue)[i]
  <2>1. i - 1 \in 0..(MaxActions - 1) /\ i - 1 + 1 = i /\ i + 1 \in 1..action_count
        /\ i + 1 - 1 = i
    BY <1>3, Capacity
  <2>2. At(At(action_head, 1), i - 1) = At(action_head, i)
    <3>1. At(At(action_head, 1), i - 1) = At(action_head, (i - 1) + 1)
      BY <1>3, <2>1, AtShift
    <3>2. QED
      BY <3>1, <2>1
  <2>3. Tail(Queue)[i] = Queue[i + 1]
    BY <1>1, <1>3, <1>4
  <2>4. Queue[i + 1] = slot[At(action_head, i)]
    BY <1>1, <2>1
  <2>5. Queue'[i] = slot[At(At(action_head, 1), i - 1)]
    BY <1>2
  <2>6. QED
    BY <2>2, <2>3, <2>4, <2>5
<1>7. Queue' = Tail(Queue)
  BY <1>2, <1>5, <1>6, SeqEqual
<1>8. Head(Queue) = slot[action_head]
  <2>1. Head(Queue) = slot[At(action_head, 0)]
    <3>1. 1 \in 1..action_count /\ 1 - 1 = 0
      BY <1>3, Capacity
    <3>2. Head(Queue) = Queue[1]
      BY <1>1, <1>4
    <3>3. QED
      BY <3>1, <3>2, <1>1
  <2>2. At(action_head, 0) = action_head
    BY <1>3, AtWraps, Capacity
  <2>3. QED
    BY <2>1, <2>2
<1>9. QED
  BY <1>4, <1>7, <1>8

\* The initial ring is the empty closed queue.
LEMMA RefinesInit == Init => F!Init
<1> SUFFICES ASSUME Init PROVE F!Init
  OBVIOUS
<1>1. Inv
  BY InvInit
<1>2. Queue = <<>>
  BY <1>1, QueueIsSeq, EmptySeq DEF Init
<1>3. QED
  BY <1>2 DEF Init, F!Init

\* Every step of the ring is a step of the queue or a stutter.
LEMMA RefinesStep == Inv /\ Inv' /\ [Next]_vars => [F!Next]_(F!vars)
<1> SUFFICES ASSUME Inv, Inv', [Next]_vars
             PROVE  [F!Next]_(F!vars)
  OBVIOUS
<1>e. action_count' = 0 => Queue' = <<>>
  BY QueueIsSeqNext, EmptySeq
<1>u. UNCHANGED <<slot, action_head, action_count>> => Queue' = Queue
  BY DEF Queue
<1>1. ASSUME NEW created \in BOOLEAN, Start(created)
      PROVE  F!Open
  BY <1>1, <1>e DEF Start, F!Open
<1>2. ASSUME NEW a \in Action, Enqueue(a)
      PROVE  F!Offer(a)
  <2>1. Len(Queue) = action_count
    BY QueueIsSeq
  <2>2. CASE ~running \/ stopping \/ action_count >= MaxActions
    <3>1. returned' = FALSE /\ Queue' = Queue /\ UNCHANGED <<running, stopping>>
      BY <1>2, <2>2, <1>u DEF Enqueue
    <3>2. ~((running /\ ~stopping) /\ Len(Queue) < MaxActions)
      BY <2>1, <2>2, Capacity DEF Inv, TypeOK
    <3>3. QED
      BY <3>1, <3>2 DEF F!Offer
  <2>3. CASE ~(~running \/ stopping \/ action_count >= MaxActions)
    <3>1. /\ slot' = [slot EXCEPT ![FreeSlot] = a]
          /\ action_count' = action_count + 1
          /\ returned' = TRUE
          /\ UNCHANGED <<running, stopping, action_head>>
      BY <1>2, <2>3 DEF Enqueue
    <3>2. action_count < MaxActions
      BY <2>3, Capacity DEF Inv, TypeOK
    <3>3. Queue' = Append(Queue, a)
      BY <3>1, <3>2, EnqueueAppends
    <3>4. (running /\ ~stopping) /\ Len(Queue) < MaxActions
      BY <2>1, <2>3, <3>2
    <3>5. QED
      BY <3>1, <3>3, <3>4 DEF F!Offer
  <2>4. QED
    BY <2>2, <2>3
<1>3. CASE Pop
  <2>1. CASE ~running \/ stopping \/ action_count = 0
    <3>1. returned' = Nil /\ Queue' = Queue /\ UNCHANGED <<running, stopping>>
      BY <1>3, <2>1, <1>u DEF Pop
    <3>2. ~((running /\ ~stopping) /\ Queue # <<>>)
      BY <2>1, QueueIsSeq, EmptySeq
    <3>3. F!Take
      BY <3>1, <3>2 DEF F!Take
    <3>4. QED
      BY <3>3 DEF F!Next
  <2>2. CASE ~(~running \/ stopping \/ action_count = 0)
    <3>1. /\ action_head' = At(action_head, 1)
          /\ action_count' = action_count - 1
          /\ returned' = slot[action_head]
          /\ UNCHANGED <<running, stopping, slot>>
      BY <1>3, <2>2 DEF Pop, NextHead, At
    <3>2. action_count > 0
      BY <2>2, Capacity DEF Inv, TypeOK
    <3>3. /\ Queue # <<>>
          /\ Queue' = Tail(Queue)
          /\ Head(Queue) = slot[action_head]
      BY <3>1, <3>2, PopTakesHead
    <3>4. F!Take
      BY <3>1, <3>3, <2>2 DEF F!Take
    <3>5. QED
      BY <3>4 DEF F!Next
  <2>3. QED
    BY <2>1, <2>2
<1>4. CASE StopRequest
  <2>1. F!Close
    BY <1>4, <1>u DEF StopRequest, F!Close
  <2>2. QED
    BY <2>1 DEF F!Next
<1>5. CASE Teardown
  <2>1. F!Discard
    BY <1>5, <1>e DEF Teardown, F!Discard
  <2>2. QED
    BY <2>1 DEF F!Next
<1>6. CASE UNCHANGED vars
  BY <1>6, <1>u DEF vars, F!vars
<1>7. QED
  BY <1>1, <1>2, <1>3, <1>4, <1>5, <1>6 DEF Next, F!Next

\* For every capacity the array with its head and count behaves as a bounded
\* first-in first-out queue, across wraparound, stops and restarts.
THEOREM RingImplementsFifo == Spec => ImplementsFifo
<1>1. QED
  BY InvInit, InvStep, RefinesInit, RefinesStep, PTL
     DEF Spec, ImplementsFifo, F!Spec

-----------------------------------------------------------------------------
(* The path.                                                               *)

\* Where the daemon is the only one that can touch the path.
Owning == {"listen", "thread", "undo", "close", "remove"}

\* At most one daemon is inside prepare_socket, lstart or lstop.
Exclusive == \A d, e \in Daemon :
    phase[d] \in Section /\ phase[e] \in Section => d = e

\* What the path names at each point of the daemon that is inside.
PathKnown == \A d \in Daemon :
    /\ phase[d] = "connect" => path \notin {"nothing", "file"}
    /\ phase[d] = "unlink" => path \notin {"nothing", "file"}
    /\ phase[d] = "bind" => path = "nothing"
    /\ phase[d] \in Owning => path = d
    /\ phase[d] = "running" => path = d
    /\ phase[d] \in {"thread", "running", "close"} => fd[d] = "listening"

\* A daemon about to unlink has seen that nobody listens.
NobodyRuns == \A d, e \in Daemon : phase[d] = "unlink" => phase[e] # "running"

SocketInv ==
    /\ SocketTypeOK
    /\ Exclusive
    /\ PathKnown
    /\ NobodyRuns
    /\ StaleRecovered

\* Every variable keeps its type, with or without overlap.
THEOREM SocketTypeCorrect == SocketSpec => []SocketTypeOK
<1>1. SocketInit => SocketTypeOK
  BY DEF SocketInit, SocketTypeOK
<1>2. SocketTypeOK /\ [SocketNext]_socketVars => SocketTypeOK'
  <2> SUFFICES ASSUME SocketTypeOK, [SocketNext]_socketVars PROVE SocketTypeOK'
    OBVIOUS
  <2> USE DEF SocketTypeOK, Goto, SetFd, Section, Final
  <2>1. CASE UNCHANGED socketVars \/ Terminated
    BY <2>1 DEF socketVars, Terminated
  <2>2. ASSUME NEW d \in Daemon,
               \/ Begin(d) \/ Lstat(d) \/ Connect(d)
               \/ PrepareFails(d) \/ ThreadCreated(d) \/ BeginStop(d)
        PROVE  SocketTypeOK'
    BY <2>2 DEF Begin, Lstat, Connect, PrepareFails, ThreadCreated, BeginStop
  <2>3. ASSUME NEW d \in Daemon,
               \/ Unlink(d) \/ Undo(d) \/ Remove(d)
               \/ Close(d) \/ StartFails(d)
        PROVE  SocketTypeOK'
    BY <2>3 DEF Unlink, Undo, Remove, Close, StartFails
  <2>4. ASSUME NEW d \in Daemon, Bind(d) \/ Listen(d) \/ Die(d)
        PROVE  SocketTypeOK'
    BY <2>4 DEF Bind, Listen, Die
  <2>5. QED
    BY <2>1, <2>2, <2>3, <2>4 DEF SocketNext
<1>3. QED
  BY <1>1, <1>2, PTL DEF SocketSpec

\* One step of one daemon.
LEMMA PhaseAfter ==
    ASSUME SocketTypeOK, NEW d \in Daemon, NEW p, Goto(d, p)
    PROVE  \A e \in Daemon : phase'[e] = IF e = d THEN p ELSE phase[e]
  BY DEF SocketTypeOK, Goto

\* What a daemon makes of its own descriptor leaves the others alone.
LEMMA FdAfter ==
    ASSUME SocketTypeOK, NEW d \in Daemon, NEW s, SetFd(d, s)
    PROVE  \A e \in Daemon : fd'[e] = IF e = d THEN s ELSE fd[e]
  BY DEF SocketTypeOK, SetFd

\* Every system call on the path preserves the invariant.
LEMMA SocketStep ==
    ASSUME ~Overlap, SocketInv, SocketTypeOK',
           [SocketNext]_socketVars
    PROVE  SocketInv'
<1> USE DaemonAssumption DEF SocketInv, Exclusive, PathKnown, NobodyRuns,
        StaleRecovered, Section, Owning
<1>1. CASE UNCHANGED socketVars \/ Terminated
  BY <1>1 DEF socketVars, Terminated
<1>2. ASSUME NEW d \in Daemon, Begin(d)
      PROVE  SocketInv'
  BY <1>2, PhaseAfter DEF Begin, MayEnter
<1>3. ASSUME NEW d \in Daemon, Lstat(d)
      PROVE  SocketInv'
  <2>1. PICK p \in {"bind", "error", "connect"} :
          /\ Goto(d, p)
          /\ p = "bind" => path = "nothing"
          /\ p = "error" => path = "file"
          /\ p = "connect" => path \notin {"nothing", "file"}
    BY <1>3 DEF Lstat
  <2>2. QED
    BY <1>3, <2>1, PhaseAfter DEF Lstat
<1>4. ASSUME NEW d \in Daemon, Connect(d)
      PROVE  SocketInv'
  <2>1. CASE Connects
    BY <1>4, <2>1, PhaseAfter DEF Connect
  <2>2. CASE ~Connects
    <3>1. \A e \in Daemon : phase[e] # "running"
      BY <2>2 DEF Connects
    <3>2. QED
      BY <1>4, <2>2, <3>1, PhaseAfter DEF Connect
  <2>3. QED
    BY <2>1, <2>2
<1>5. ASSUME NEW d \in Daemon, Unlink(d)
      PROVE  SocketInv'
  <2>1. Goto(d, "bind")
    BY <1>5 DEF Unlink
  <2>2. QED
    BY <1>5, <2>1, PhaseAfter DEF Unlink
<1>6. ASSUME NEW d \in Daemon, Bind(d)
      PROVE  SocketInv'
  BY <1>6, PhaseAfter, FdAfter DEF Bind
<1>p. ASSUME NEW d \in Daemon, PrepareFails(d)
      PROVE  SocketInv'
  BY <1>p, PhaseAfter DEF PrepareFails
<1>7. ASSUME NEW d \in Daemon, Listen(d)
      PROVE  SocketInv'
  <2>1. Goto(d, "thread") /\ SetFd(d, "listening")
    BY <1>7 DEF Listen
  <2>2. QED
    BY <1>7, <2>1, PhaseAfter, FdAfter DEF Listen
<1>8. ASSUME NEW d \in Daemon, ThreadCreated(d)
      PROVE  SocketInv'
  BY <1>8, PhaseAfter DEF ThreadCreated
<1>9. ASSUME NEW d \in Daemon, StartFails(d)
      PROVE  SocketInv'
  BY <1>9, PhaseAfter, FdAfter DEF StartFails
<1>10. ASSUME NEW d \in Daemon, Undo(d) \/ Remove(d)
       PROVE  SocketInv'
  BY <1>10, PhaseAfter DEF Undo, Remove
<1>11. ASSUME NEW d \in Daemon, BeginStop(d)
       PROVE  SocketInv'
  BY <1>11, PhaseAfter DEF BeginStop, MayEnter
<1>12. ASSUME NEW d \in Daemon, Close(d)
       PROVE  SocketInv'
  BY <1>12, PhaseAfter, FdAfter DEF Close
<1>13. ASSUME NEW d \in Daemon, Die(d)
       PROVE  SocketInv'
  <2>1. /\ Goto(d, "dead")
        /\ UNCHANGED path
        /\ \A e \in Daemon : e # d => fd'[e] = fd[e]
    BY <1>13 DEF Die, SocketTypeOK
  <2>2. QED
    BY <2>1, PhaseAfter
<1>14. QED
  BY <1>1, <1>2, <1>3, <1>4, <1>5, <1>6, <1>7, <1>8, <1>9, <1>10, <1>11, <1>12,
     <1>13, <1>p DEF SocketNext

\* Without overlap the invariant holds in every reachable state: the whole of
\* prepare_socket, lstart and lstop, with a crash at any point.
THEOREM SocketInvariance == ~Overlap => (SocketSpec => []SocketInv)
<1> SUFFICES ASSUME ~Overlap PROVE SocketSpec => []SocketInv
  OBVIOUS
<1>1. SocketInit => SocketInv
  BY DEF SocketInit, SocketInv, SocketTypeOK, Exclusive, PathKnown, NobodyRuns,
         StaleRecovered, Section, Owning
<1>2. SocketInv /\ SocketTypeOK' /\ [SocketNext]_socketVars => SocketInv'
  BY SocketStep
<1>3. QED
  BY <1>1, <1>2, SocketTypeCorrect, PTL DEF SocketSpec

\* Without overlap the path of a running daemon keeps leading to it: no other
\* prepare_socket unlinks it and no other lstop removes it.
THEOREM RunningDaemonKeepsSocket == ~Overlap => (SocketSpec => []LiveSocketKept)
<1> SUFFICES ASSUME ~Overlap PROVE SocketSpec => []LiveSocketKept
  OBVIOUS
<1>1. SocketInv => LiveSocketKept
  BY DEF SocketInv, PathKnown, LiveSocketKept
<1>2. QED
  BY <1>1, SocketInvariance, PTL

\* Without overlap the socket a crashed daemon left behind never keeps
\* prepare_socket from handing the path to the next one.
THEOREM StaleSocketIsRecovered == ~Overlap => (SocketSpec => []StaleRecovered)
<1> SUFFICES ASSUME ~Overlap PROVE SocketSpec => []StaleRecovered
  OBVIOUS
<1>1. SocketInv => StaleRecovered
  BY DEF SocketInv
<1>2. QED
  BY <1>1, SocketInvariance, PTL
=============================================================================
