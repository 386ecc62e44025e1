------------------------------ MODULE MCZigbee ------------------------------
(* Model checking of Zigbee: the instances are in the .cfg files.          *)
EXTENDS Zigbee
=============================================================================
