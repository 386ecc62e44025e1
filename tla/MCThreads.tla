------------------------------ MODULE MCThreads ------------------------------
(* Model checking of the thread pool and the timer manager side by side:   *)
(* the instance is in the .cfg file.                                       *)
EXTENDS Threads
=============================================================================
