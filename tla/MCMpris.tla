------------------------------ MODULE MCMpris -------------------------------
(* The MPRIS source with two players and three states of a player. *)
EXTENDS Mpris

MCConfig == {[min |-> 1, max |-> 2]}
MCMedia == {[status |-> "Playing", song |-> "b",
             can |-> {"CanControl", "CanPause", "CanGoNext"}],
            [status |-> "Paused", song |-> "a", can |-> {"CanControl", "CanPlay"}],
            [status |-> "Stopped", song |-> "a", can |-> Capability \ {"CanControl"}]}
=============================================================================
