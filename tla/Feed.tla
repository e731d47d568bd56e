------------------------------- MODULE Feed -------------------------------
(***************************************************************************)
(* What the control server promises a subscriber: a feed of the latest     *)
(* value.  A subscriber is sent the value current at that moment when it   *)
(* subscribes and, later, any number of times; it may miss intermediate    *)
(* values and may be disconnected, but it is never sent anything but the   *)
(* value current at the moment it is copied for it; a later value may be   *)
(* published before the copy has been written.                             *)
(***************************************************************************)
EXTENDS Naturals

CONSTANT Reader

VARIABLES
    latest,   \* the last published revision
    status,   \* per reader: "outside", "subscribed" or "gone"
    got       \* per reader: the last revision it was sent

vars == <<latest, status, got>>

Init ==
    /\ latest = 0
    /\ status = [r \in Reader |-> "outside"]
    /\ got = [r \in Reader |-> 0]

Publish ==
    /\ latest' = latest + 1
    /\ UNCHANGED <<status, got>>

Subscribe(r) ==
    /\ status[r] = "outside"
    /\ status' = [status EXCEPT ![r] = "subscribed"]
    /\ got' = [got EXCEPT ![r] = latest]
    /\ UNCHANGED latest

Deliver(r) ==
    /\ status[r] = "subscribed"
    /\ got' = [got EXCEPT ![r] = latest]
    /\ UNCHANGED <<latest, status>>

\* Some readers leave or are disconnected, for good.
Leave(S) ==
    /\ status' = [r \in Reader |-> IF r \in S THEN "gone" ELSE status[r]]
    /\ UNCHANGED <<latest, got>>

Next ==
    \/ Publish
    \/ \E r \in Reader : Subscribe(r) \/ Deliver(r)
    \/ \E S \in SUBSET Reader : Leave(S)

Spec == Init /\ [][Next]_vars
=============================================================================
