------------------------------ MODULE MCInput ------------------------------
(* Model checking of the input manager: the instance is in the .cfg file.  *)
EXTENDS Input
=============================================================================
