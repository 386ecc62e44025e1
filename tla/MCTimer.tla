------------------------------ MODULE MCTimer -------------------------------
(* Model checking of Timer: the instances are in the .cfg files.           *)
EXTENDS Timer
=============================================================================
