------------------------------- MODULE MCLanes -------------------------------
(* Small instances of Lanes; the values are in the configurations.         *)
EXTENDS Lanes
=============================================================================
