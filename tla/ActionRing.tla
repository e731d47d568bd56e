----------------------------- MODULE ActionRing -----------------------------
(***************************************************************************)
(* The action ring of struct control_server (src/control.c): the array     *)
(* server.actions with action_head and action_count, under the mutex, so   *)
(* that each operation is one step.  The control thread enqueues, the      *)
(* actions service pops, the state service starts and stops the server,    *)
(* any number of times.  Slots are never cleared: an old action stays in   *)
(* the array after it was popped or discarded.                             *)
(***************************************************************************)
EXTENDS Integers, Sequences

CONSTANTS
    Action,       \* the command lines that are queued
    MaxActions,   \* CONTROL_MAX_ACTIONS
    Nil           \* what pop_action returns when there is nothing

ASSUME CapacityAssumption == MaxActions \in Nat \ {0}
ASSUME NilAssumption == Nil \notin Action

VARIABLES
    running, stopping,
    slot,                       \* server.actions
    action_head, action_count,
    returned                    \* the result of the last operation

vars == <<running, stopping, slot, action_head, action_count, returned>>

Slot == 0..(MaxActions - 1)

\* The static initialiser: zero everywhere.
Init ==
    /\ running = FALSE
    /\ stopping = FALSE
    /\ slot = [i \in Slot |-> Nil]
    /\ action_head = 0
    /\ action_count = 0
    /\ returned = Nil

\* lstart; when the thread cannot be created the server is not left running.
Start(created) ==
    /\ ~running
    /\ action_head' = 0
    /\ action_count' = 0
    /\ running' = created
    /\ stopping' = ~created
    /\ returned' = Nil
    /\ UNCHANGED slot

FreeSlotMutant == action_count % MaxActions
FreeSlot == (action_head + action_count) % MaxActions

Enqueue(a) ==
    /\ IF ~running \/ stopping \/ action_count >= MaxActions
       THEN /\ returned' = FALSE
            /\ UNCHANGED <<slot, action_count>>
       ELSE /\ slot' = [slot EXCEPT ![FreeSlot] = a]
            /\ action_count' = action_count + 1
            /\ returned' = TRUE
    /\ UNCHANGED <<running, stopping, action_head>>

NextHead == (action_head + 1) % MaxActions

Pop ==
    /\ IF ~running \/ stopping \/ action_count = 0
       THEN /\ returned' = Nil
            /\ UNCHANGED <<action_head, action_count>>
       ELSE /\ returned' = slot[action_head]
            /\ action_head' = NextHead
            /\ action_count' = action_count - 1
    /\ UNCHANGED <<running, stopping, slot>>

\* lstop sets stopping; once the thread has been joined it empties the ring.
StopRequest ==
    /\ running
    /\ stopping' = TRUE
    /\ returned' = Nil
    /\ UNCHANGED <<running, slot, action_head, action_count>>

TeardownMutant ==
    /\ running /\ stopping
    /\ running' = FALSE
    /\ action_head' = 0
    /\ returned' = Nil
    /\ UNCHANGED <<stopping, slot, action_count>>

Teardown ==
    /\ running /\ stopping
    /\ running' = FALSE
    /\ action_head' = 0
    /\ action_count' = 0
    /\ returned' = Nil
    /\ UNCHANGED <<stopping, slot>>

Next ==
    \/ \E created \in BOOLEAN : Start(created)
    \/ \E a \in Action : Enqueue(a)
    \/ Pop
    \/ StopRequest
    \/ Teardown

Spec == Init /\ [][Next]_vars

-----------------------------------------------------------------------------
\* Type correctness: the head stays inside the array and the count within
\* its size.
TypeOK ==
    /\ running \in BOOLEAN
    /\ stopping \in BOOLEAN
    /\ slot \in [Slot -> Action \cup {Nil}]
    /\ action_head \in Slot
    /\ action_count \in 0..MaxActions

\* The slots the ring owns hold actions, never what the array was
\* initialised with, whatever it wraps around.
OwnedSlotsFilled ==
    \A i \in 0..(action_count - 1) : slot[(action_head + i) % MaxActions] \in Action

\* The ring read from its head is the queue of ActionFifo.
Queue == [i \in 1..action_count |-> slot[(action_head + i - 1) % MaxActions]]

F == INSTANCE ActionFifo WITH Capacity <- MaxActions,
                              open <- running /\ ~stopping, queue <- Queue

\* enqueue_action and pop_action behave as a bounded first-in first-out
\* queue, across wraparound, stops and restarts.
ImplementsFifo == F!Spec
=============================================================================
