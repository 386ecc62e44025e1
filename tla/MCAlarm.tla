------------------------------ MODULE MCAlarm -------------------------------
(* Model checking of Alarm: the instances are in the .cfg files.           *)
EXTENDS Alarm
=============================================================================
