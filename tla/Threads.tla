------------------------------ MODULE Threads ------------------------------
(***************************************************************************)
(* The thread pool and the timer manager, which share no state, side by    *)
(* side, as in Devices: a behaviour uses one of them, its user.            *)
(***************************************************************************)
EXTENDS ThreadPool, Timer

VARIABLE user

threadsVars == <<vars, timerVars, user>>

ThreadsInit ==
  /\ user \in {"pool", "timer"}
  /\ Init /\ TimerInit

PoolOnly ==
  /\ user = "pool"
  /\ Next
  /\ UNCHANGED <<timerVars, user>>
TimerOnly ==
  /\ user = "timer"
  /\ TimerNext
  /\ UNCHANGED <<vars, user>>

ThreadsNext == PoolOnly \/ TimerOnly

(* The fairness of each asks nothing while it is not used: the steps it is *)
(* about cannot be taken from the state it starts in.                      *)
ThreadsSpec ==
  ThreadsInit /\ [][ThreadsNext]_threadsVars /\ Fairness /\ TimerFairness
=============================================================================
