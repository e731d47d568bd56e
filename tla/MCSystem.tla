------------------------------ MODULE MCSystem ------------------------------
(* The system source with two names in each directory: batteries that tell *)
(* their charge in different ways or are not there, and backlights of two   *)
(* kinds, of which one tells no brightness.                                 *)
EXTENDS System

Battery == [type |-> "Battery", present |-> 1, capacity |-> None, status |-> None,
            energy_now |-> None, energy_full |-> None,
            charge_now |-> None, charge_full |-> None]
MCSupply ==
    {[Battery EXCEPT !.capacity = 83, !.status = "Discharging"],
     [Battery EXCEPT !.capacity = 101, !.energy_now = 5, !.energy_full = 8],
     [Battery EXCEPT !.energy_now = 5, !.energy_full = 0,
                     !.charge_now = 9, !.charge_full = 8],
     [Battery EXCEPT !.present = 0, !.capacity = 50]}
MCBacklight ==
    {[max |-> 255, actual |-> 64, brightness |-> 64, type |-> "raw", writable |-> TRUE],
     [max |-> 40, actual |-> None, brightness |-> 50, type |-> "firmware",
      writable |-> TRUE],
     [max |-> 200, actual |-> -1, brightness |-> 7, type |-> "raw", writable |-> TRUE]}
=============================================================================
