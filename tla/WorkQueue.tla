----------------------------- MODULE WorkQueue ------------------------------
(***************************************************************************)
(* What a thread pool promises its clients: submitted work is kept in a    *)
(* first-in first-out queue, each item is begun at most once, at most one  *)
(* item per server is in execution, an item in execution is finished and   *)
(* never handed back, and items still queued when the pool is torn down    *)
(* are discarded together.  ThreadPool implements this specification.      *)
(***************************************************************************)
EXTENDS Naturals, Sequences

CONSTANTS Server,   (* who executes work                                   *)
          Item,     (* the work that can be submitted                      *)
          Idle      (* what a server without work executes                 *)

VARIABLES pending,    (* the items submitted and not begun, oldest first   *)
          executing,  (* the item each server executes, or Idle            *)
          finished,   (* the items whose execution is complete             *)
          discarded   (* the items thrown away before they were begun      *)

wvars == <<pending, executing, finished, discarded>>

Seen == {pending[i] : i \in 1..Len(pending)} \cup finished \cup discarded
          \cup {executing[s] : s \in Server}

Init ==
  /\ pending = <<>>
  /\ executing = [s \in Server |-> Idle]
  /\ finished = {}
  /\ discarded = {}

Submit(x) ==
  /\ x \notin Seen
  /\ pending' = Append(pending, x)
  /\ UNCHANGED <<executing, finished, discarded>>

Begin(s) ==
  /\ pending # <<>>
  /\ executing[s] = Idle
  /\ executing' = [executing EXCEPT ![s] = Head(pending)]
  /\ pending' = Tail(pending)
  /\ UNCHANGED <<finished, discarded>>

Finish(s) ==
  /\ executing[s] # Idle
  /\ finished' = finished \cup {executing[s]}
  /\ executing' = [executing EXCEPT ![s] = Idle]
  /\ UNCHANGED <<pending, discarded>>

Discard ==
  /\ \A s \in Server : executing[s] = Idle
  /\ discarded' = discarded \cup {pending[i] : i \in 1..Len(pending)}
  /\ pending' = <<>>
  /\ UNCHANGED <<executing, finished>>

Next ==
  \/ \E x \in Item : Submit(x)
  \/ \E s \in Server : Begin(s) \/ Finish(s)
  \/ Discard

Spec == Init /\ [][Next]_wvars
=============================================================================
