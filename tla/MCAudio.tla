------------------------------ MODULE MCAudio -------------------------------
(* The audio source with two sinks.  They are alike, so that it is enough to *)
(* begin with the first of them, if any, as the default.                     *)
EXTENDS Audio

MCConfig == {[min |-> 1, max |-> 2]}
First == CHOOSE s \in Sink : TRUE
MCInit == Init /\ default \in {First, NoSink}
MCSpec == MCInit /\ [][Next]_vars /\ Fairness
=============================================================================
