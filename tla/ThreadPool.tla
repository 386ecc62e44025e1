----------------------------- MODULE ThreadPool -----------------------------
(***************************************************************************)
(* utils/thread_pool/thread_pool.c: one struct thread_pool, its worker     *)
(* threads and the threads that call the manager's functions.              *)
(*                                                                         *)
(* Every critical section under queue_lock is one action.  A worker is at  *)
(* "lock" when it is about to take queue_lock (loop top, or woken inside   *)
(* pthread_cond_wait), "wait" inside pthread_cond_wait, "run" in the work's*)
(* routine, "async" in the work's async callback.                          *)
(*                                                                         *)
(* Callers: one owner thread calls init and destroy; start, stop and       *)
(* add_work may be called by any thread while pm->pool is set and no       *)
(* destroy is under way, and by a work's own routine or async callback at  *)
(* any time.  Work items are numbered in the order add_work queues them.   *)
(***************************************************************************)
EXTENDS Integers, Sequences, FiniteSets

CONSTANTS ThreadCnt,      (* thread_cnt given to init and to destroy       *)
          MaxWork,        (* bound: add_work calls in a behaviour          *)
          MaxInit,        (* bound: init calls in a behaviour              *)
          CreateMayFail   (* may pthread_create fail?                      *)

ASSUME ThreadPoolAssumption ==
  /\ ThreadCnt \in Nat \ {0}
  /\ MaxWork \in Nat
  /\ MaxInit \in Nat
  /\ CreateMayFail \in BOOLEAN

Worker == 0 .. ThreadCnt - 1
Work   == 1 .. MaxWork
NoWork == 0

VARIABLES
  phase,      (* where the owner is: no pool, inside init, pool published, *)
              (* inside destroy                                            *)
  created,    (* i of the loop in init: threads created so far             *)
  joinIdx,    (* i of the join loop in destroy                             *)
  stop, exit, (* pool->stop, pool->exit                                    *)
  queue,      (* pool->work_head                                           *)
  queueSize,  (* pool->queue_size                                          *)
  state,      (* what each thread of thread_id is doing                    *)
  worker,     (* thread_routine's local worker: the work a thread holds    *)
  added,      (* number of add_work calls so far; the next id is added + 1 *)
  finished,   (* works executed and freed by a worker                      *)
  dropped,    (* works freed by destroy                                    *)
  inits,      (* number of init calls so far                               *)
  crashed     (* pthread_join was given a thread that was never created    *)

poolVars == <<stop, exit, queue, queueSize>>
ctlVars  == <<phase, created, joinIdx, inits, crashed>>
workVars == <<added, finished, dropped>>
vars == <<ctlVars, poolVars, workVars, state, worker>>

WorkerState == {"none", "lock", "wait", "run", "async", "exited", "joined"}

(* The threads that still use the pool's memory. *)
Active  == {w \in Worker : state[w] \in {"lock", "wait", "run", "async"}}
Waiting == {w \in Worker : state[w] = "wait"}
AtLock  == {w \in Worker : state[w] = "lock"}
Busy    == {w \in Worker : state[w] \in {"run", "async"}}
Held    == {worker[w] : w \in Busy}
Elems(q) == {q[i] : i \in 1 .. Len(q)}
Queued  == Elems(queue)

Init ==
  /\ phase = "none"
  /\ created = 0
  /\ joinIdx = -1
  /\ stop = TRUE
  /\ exit = FALSE
  /\ queue = <<>>
  /\ queueSize = 0
  /\ state = [w \in Worker |-> "none"]
  /\ worker = [w \in Worker |-> NoWork]
  /\ added = 0
  /\ finished = {}
  /\ dropped = {}
  /\ inits = 0
  /\ crashed = FALSE

-----------------------------------------------------------------------------
(* The owner: init and destroy.                                            *)

(* thread_pool_init up to the creation loop.  It is called when pm->pool   *)
(* is NULL: init does not test it.  (An init that fails before the loop    *)
(* returns -1 and leaves everything as it was.)                            *)
InitPool ==
  /\ phase = "none"
  /\ inits < MaxInit
  /\ inits' = inits + 1
  /\ phase' = "creating"
  /\ created' = 0
  /\ queue' = <<>>
  /\ queueSize' = 0
  /\ stop' = TRUE
  /\ exit' = FALSE
  /\ state' = [w \in Worker |-> "none"]
  /\ UNCHANGED <<joinIdx, crashed, workVars, worker>>

(* One turn of the creation loop.  pthread_create reports failure with a   *)
(* positive error number, the loop tests for a negative one, so a failure  *)
(* only leaves thread_id[i] zero.                                          *)
CreateThread ==
  /\ phase = "creating"
  /\ created < ThreadCnt
  /\ created' = created + 1
  /\ \/ state' = [state EXCEPT ![created] = "lock"]
     \/ CreateMayFail /\ UNCHANGED state
  /\ UNCHANGED <<phase, joinIdx, inits, crashed, poolVars, workVars, worker>>

(* pm->pool = pool_tmp; return 0. *)
PublishPool ==
  /\ phase = "creating"
  /\ created = ThreadCnt
  /\ phase' = "live"
  /\ UNCHANGED <<created, joinIdx, inits, crashed, poolVars, workVars, state, worker>>

(* pthread_cond_broadcast(&queue_ready) *)
Broadcast == state' = [w \in Worker |-> IF state[w] = "wait" THEN "lock" ELSE state[w]]

(* Mutant: destroy forgets to wake the waiting threads. *)
DestroyNoBroadcast ==
  /\ phase = "live"
  /\ ~exit
  /\ stop' = TRUE
  /\ exit' = TRUE
  /\ phase' = "joining"
  /\ joinIdx' = ThreadCnt - 1
  /\ UNCHANGED <<created, inits, crashed, queue, queueSize, workVars, state, worker>>

(* thread_pool_destroy up to the join loop.  The test of pool->exit before *)
(* the lock sends every later caller away with -1.                         *)
Destroy ==
  /\ phase = "live"
  /\ ~exit
  /\ stop' = TRUE
  /\ exit' = TRUE
  /\ Broadcast
  /\ phase' = "joining"
  /\ joinIdx' = ThreadCnt - 1
  /\ UNCHANGED <<created, inits, crashed, queue, queueSize, workVars, worker>>

(* One turn of the join loop, last thread first. *)
JoinThread ==
  /\ phase = "joining"
  /\ joinIdx >= 0
  /\ ~crashed
  /\ \/ /\ state[joinIdx] = "exited"
        /\ state' = [state EXCEPT ![joinIdx] = "joined"]
        /\ joinIdx' = joinIdx - 1
        /\ UNCHANGED crashed
     \/ /\ state[joinIdx] = "none"
        /\ crashed' = TRUE
        /\ UNCHANGED <<state, joinIdx>>
  /\ UNCHANGED <<phase, created, inits, poolVars, workVars, worker>>

(* Mutant: the join loop ends one thread early, i > 0 instead of i >= 0. *)
FreePoolEarly ==
  /\ phase = "joining"
  /\ joinIdx <= 0
  /\ dropped' = dropped \cup Queued
  /\ queueSize' = queueSize - Len(queue)
  /\ queue' = <<>>
  /\ phase' = "none"
  /\ UNCHANGED <<created, joinIdx, inits, crashed, stop, exit, added, finished, state, worker>>

(* The rest of destroy: free the queued works, then the pool. *)
FreePool ==
  /\ phase = "joining"
  /\ joinIdx < 0
  /\ dropped' = dropped \cup Queued
  /\ queueSize' = queueSize - Len(queue)
  /\ queue' = <<>>
  /\ phase' = "none"
  /\ UNCHANGED <<created, joinIdx, inits, crashed, stop, exit, added, finished, state, worker>>

-----------------------------------------------------------------------------
(* The calls any thread may make.                                          *)

(* pm->pool is set, and no call can find the pool freed under it. *)
Callable == phase = "live" \/ (phase = "joining" /\ Busy # {})

(* Mutant: start wakes nobody. *)
StartNoBroadcast ==
  /\ Callable
  /\ stop' = FALSE
  /\ UNCHANGED <<ctlVars, exit, queue, queueSize, workVars, state, worker>>

(* thread_pool_start *)
Start ==
  /\ Callable
  /\ stop' = FALSE
  /\ Broadcast
  /\ UNCHANGED <<ctlVars, exit, queue, queueSize, workVars, worker>>

(* thread_pool_stop *)
Stop ==
  /\ Callable
  /\ stop' = TRUE
  /\ Broadcast
  /\ UNCHANGED <<ctlVars, exit, queue, queueSize, workVars, worker>>

(* pthread_cond_signal(&queue_ready): one waiter, if there is one. *)
Signal ==
  IF Waiting = {} THEN UNCHANGED state
  ELSE \E w \in Waiting : state' = [state EXCEPT ![w] = "lock"]

(* Mutant: add_work signals only when the queue was empty. *)
AddWorkSignalIfEmpty ==
  /\ Callable
  /\ added < MaxWork
  /\ added' = added + 1
  /\ queue' = Append(queue, added + 1)
  /\ queueSize' = queueSize + 1
  /\ IF stop \/ queue # <<>> THEN UNCHANGED state ELSE Signal
  /\ UNCHANGED <<ctlVars, stop, exit, finished, dropped, worker>>

(* Mutant: list_add instead of list_add_tail. *)
AddWorkAtHead ==
  /\ Callable
  /\ added < MaxWork
  /\ added' = added + 1
  /\ queue' = <<added + 1>> \o queue
  /\ queueSize' = queueSize + 1
  /\ IF stop THEN UNCHANGED state ELSE Signal
  /\ UNCHANGED <<ctlVars, stop, exit, finished, dropped, worker>>

(* thread_pool_add_work.  (When calloc fails it returns -1 and changes     *)
(* nothing.)                                                               *)
AddWork ==
  /\ Callable
  /\ added < MaxWork
  /\ added' = added + 1
  /\ queue' = Append(queue, added + 1)
  /\ queueSize' = queueSize + 1
  /\ IF stop THEN UNCHANGED state ELSE Signal
  /\ UNCHANGED <<ctlVars, stop, exit, finished, dropped, worker>>

-----------------------------------------------------------------------------
(* thread_routine                                                          *)

MustWait == stop \/ queueSize = 0

(* while (stop || !queue_size): exit was requested. *)
WorkerExit(w) ==
  /\ state[w] = "lock"
  /\ MustWait
  /\ exit
  /\ state' = [state EXCEPT ![w] = "exited"]
  /\ UNCHANGED <<ctlVars, poolVars, workVars, worker>>

(* while (stop || !queue_size): pthread_cond_wait *)
WorkerWait(w) ==
  /\ state[w] = "lock"
  /\ MustWait
  /\ ~exit
  /\ state' = [state EXCEPT ![w] = "wait"]
  /\ UNCHANGED <<ctlVars, poolVars, workVars, worker>>

(* A waiter may return from pthread_cond_wait unsignalled. *)
SpuriousWakeup(w) ==
  /\ state[w] = "wait"
  /\ state' = [state EXCEPT ![w] = "lock"]
  /\ UNCHANGED <<ctlVars, poolVars, workVars, worker>>

(* Mutant: the work is used without list_del. *)
WorkerTakeNoDel(w) ==
  /\ state[w] = "lock"
  /\ ~MustWait
  /\ queue # <<>>
  /\ worker' = [worker EXCEPT ![w] = Head(queue)]
  /\ queueSize' = queueSize - 1
  /\ state' = [state EXCEPT ![w] = "run"]
  /\ UNCHANGED <<ctlVars, stop, exit, queue, workVars>>

(* Dequeue the first work and leave the critical section.  With an empty   *)
(* list the loop would go round with nothing changed.                      *)
WorkerTake(w) ==
  /\ state[w] = "lock"
  /\ ~MustWait
  /\ queue # <<>>
  /\ worker' = [worker EXCEPT ![w] = Head(queue)]
  /\ queue' = Tail(queue)
  /\ queueSize' = queueSize - 1
  /\ state' = [state EXCEPT ![w] = "run"]
  /\ UNCHANGED <<ctlVars, stop, exit, workVars>>

(* The routine returns; the work has an async callback or it has none. *)
RoutineDone(w) ==
  /\ state[w] = "run"
  /\ \/ /\ state' = [state EXCEPT ![w] = "async"]
        /\ UNCHANGED <<worker, finished>>
     \/ /\ state' = [state EXCEPT ![w] = "lock"]
        /\ finished' = finished \cup {worker[w]}
        /\ worker' = [worker EXCEPT ![w] = NoWork]
  /\ UNCHANGED <<ctlVars, poolVars, added, dropped>>

(* The async callback returns; free(worker), worker = NULL. *)
AsyncDone(w) ==
  /\ state[w] = "async"
  /\ state' = [state EXCEPT ![w] = "lock"]
  /\ finished' = finished \cup {worker[w]}
  /\ worker' = [worker EXCEPT ![w] = NoWork]
  /\ UNCHANGED <<ctlVars, poolVars, added, dropped>>

ThreadRoutine(w) ==
  \/ WorkerExit(w) \/ WorkerWait(w) \/ WorkerTake(w)
  \/ RoutineDone(w) \/ AsyncDone(w)

OwnerStep == CreateThread \/ PublishPool \/ JoinThread \/ FreePool

Next ==
  \/ InitPool \/ OwnerStep \/ Destroy
  \/ Start \/ Stop \/ AddWork
  \/ \E w \in Worker : ThreadRoutine(w) \/ SpuriousWakeup(w)

Spec == Init /\ [][Next]_vars

(* A thread that can run is eventually scheduled, routines return, and a   *)
(* thread inside init or destroy goes on.  Nobody has to call anything.    *)
Fairness ==
  /\ WF_vars(OwnerStep)
  /\ \A w \in Worker : WF_vars(ThreadRoutine(w))

FairSpec == Spec /\ Fairness
-----------------------------------------------------------------------------
(* Properties *)

TypeOK ==
  /\ phase \in {"none", "creating", "live", "joining"}
  /\ created \in 0 .. ThreadCnt
  /\ joinIdx \in -1 .. ThreadCnt - 1
  /\ stop \in BOOLEAN
  /\ exit \in BOOLEAN
  /\ queue \in Seq(Work)
  /\ queueSize \in Nat
  /\ state \in [Worker -> WorkerState]
  /\ worker \in [Worker -> Work \cup {NoWork}]
  /\ added \in 0 .. MaxWork
  /\ finished \in SUBSET Work
  /\ dropped \in SUBSET Work
  /\ inits \in 0 .. MaxInit
  /\ crashed \in BOOLEAN

(* Every work ever added is in exactly one place: waiting in the queue,    *)
(* held by exactly one thread, freed after execution, or freed unexecuted  *)
(* by destroy.  No interleaving of add_work, the workers and destroy loses *)
(* a work or executes it twice, and queue_size is the length of the list.  *)
WorkAccounted ==
  /\ queueSize = Len(queue)
  /\ 1 .. added = Queued \cup Held \cup finished \cup dropped
  /\ \A i, j \in 1 .. Len(queue) : i # j => queue[i] # queue[j]
  /\ \A v, w \in Busy : v # w => worker[v] # worker[w]
  /\ Queued \cap (Held \cup finished \cup dropped) = {}
  /\ Held \cap (finished \cup dropped) = {}
  /\ finished \cap dropped = {}

(* Works are begun in the order add_work queued them: whatever is still in *)
(* the queue is younger than every work a thread has begun, however many   *)
(* threads take work and however often the pool is stopped in between.     *)
BegunInOrder ==
  \A i \in 1 .. Len(queue) :
    /\ \A j \in 1 .. Len(queue) : i < j => queue[i] < queue[j]
    /\ \A x \in Held \cup finished : x < queue[i]

(* No lost wake-up: while the pool is started and some thread sleeps in    *)
(* pthread_cond_wait, every queued work has an awake thread on its way to  *)
(* take it.  add_work signals once per work and only while started; start  *)
(* broadcasts for the works queued while stopped.                          *)
WorkConserving ==
  ~stop /\ Waiting # {} => Len(queue) <= Cardinality(AtLock)

(* Once destroy has set exit, no thread sleeps on the condition variable:  *)
(* none can be left behind for the join loop to wait for.                  *)
ExitLeavesNoWaiter == exit => Waiting = {}

(* The pool is freed only when none of its threads can touch it again.     *)
NoUseAfterFree == phase = "none" => Active = {}

(* destroy returns, whatever the threads are doing when it is called,      *)
(* unless works are added for ever: a routine that calls start and adds    *)
(* its own work again while destroy joins keeps its thread in the loop.    *)
(* Provided that init did create all threads (a join of a thread that was  *)
(* never created is undefined).                                            *)
DestroyReturns ==
  <>[](phase = "joining" /\ \A w \in Worker : state[w] # "none")
    => []<><<AddWork>>_vars

(* While there is work in a pool that stays started, and has a thread,      *)
(* works are taken again and again; as they are taken in order, each has   *)
(* its turn.                                                               *)
QueuedWorkRuns ==
  <>[](queue # <<>> /\ ~stop /\ Active # {})
    => []<><<\E w \in Worker : WorkerTake(w)>>_vars

(* What makes the above inductive: a thread holds a work exactly while it  *)
(* executes one, threads not yet created do nothing, the join loop leaves  *)
(* only joined threads behind it, and a freed pool has no queue.           *)
Shape ==
  /\ \A w \in Worker : worker[w] # NoWork <=> state[w] \in {"run", "async"}
  /\ phase = "creating" => \A w \in Worker : w >= created => state[w] = "none"
  /\ phase = "joining" => \A w \in Worker : w > joinIdx => state[w] = "joined"
  /\ phase = "none" => queue = <<>>

(* The pool implements the abstract work queue: the list is the pending    *)
(* sequence, a work in its routine or callback is in execution.            *)
WQ == INSTANCE WorkQueue WITH
        Server <- Worker, Item <- Work, Idle <- NoWork,
        pending <- queue, executing <- worker,
        discarded <- dropped

(* See WQ. *)
ImplementsWorkQueue == WQ!Spec
=============================================================================
