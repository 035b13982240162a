------------------------ MODULE MC_DriverRegistry ------------------------
(* The cfg gives a registry of two slots, driver ids 0 (invalid) and 1..3 *)
(* and priorities 5, 10 and 20: three valid ids overfill the table, a     *)
(* full table is unregistered from the front and the back, and            *)
(* get_by_priority is asked at 0 and at every priority, so below, at and  *)
(* above the priorities registered at any moment.                         *)
EXTENDS DriverRegistry
=============================================================================
