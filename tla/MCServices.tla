----------------------------- MODULE MCServices -----------------------------
(* Model checking of the services side by side: the instance is in the     *)
(* .cfg file.                                                              *)
EXTENDS Services
=============================================================================
