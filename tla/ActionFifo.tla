----------------------------- MODULE ActionFifo -----------------------------
(***************************************************************************)
(* What the action queue of the control server promises: a bounded queue,  *)
(* first in first out, that refuses and returns nothing while the server   *)
(* is not open, and that a new server finds empty.                         *)
(***************************************************************************)
EXTENDS Naturals, Sequences

CONSTANTS Action, Capacity, Nil

VARIABLES
    open,      \* whether the server is running and not stopping
    queue,     \* the accepted actions, oldest first
    returned   \* what the last operation returned to its caller

vars == <<open, queue, returned>>

Init == open = FALSE /\ queue = <<>> /\ returned = Nil

\* The server starts, with an empty queue.
Open ==
    /\ open' \in BOOLEAN
    /\ queue' = <<>>
    /\ returned' = Nil

Offer(a) ==
    /\ IF open /\ Len(queue) < Capacity
       THEN queue' = Append(queue, a) /\ returned' = TRUE
       ELSE UNCHANGED queue /\ returned' = FALSE
    /\ UNCHANGED open

Take ==
    /\ IF open /\ queue # <<>>
       THEN queue' = Tail(queue) /\ returned' = Head(queue)
       ELSE UNCHANGED queue /\ returned' = Nil
    /\ UNCHANGED open

\* The server stops: what is queued stays but nobody gets it.
Close == open' = FALSE /\ UNCHANGED queue /\ returned' = Nil
Discard == open' = FALSE /\ queue' = <<>> /\ returned' = Nil

Next == Open \/ (\E a \in Action : Offer(a)) \/ Take \/ Close \/ Discard

Spec == Init /\ [][Next]_vars
=============================================================================
