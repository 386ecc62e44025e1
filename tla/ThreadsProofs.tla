--------------------------- MODULE ThreadsProofs ----------------------------
(***************************************************************************)
(* Proofs about ThreadPool, a part of Threads, and about Threads itself;   *)
(* those about Timer, the other part, are in TimerProofs.                  *)
(***************************************************************************)
EXTENDS Threads, FiniteSetTheorems, TLAPS

-----------------------------------------------------------------------------
(***************************************************************************)
(* The thread pool, for every number of threads and every bound on works   *)
(* and init calls, whether or not thread creation may fail.                *)
(***************************************************************************)

(* The inductive invariant for everything but WorkConserving. *)
IInv ==
  /\ TypeOK
  /\ Shape
  /\ WorkAccounted
  /\ BegunInOrder
  /\ ExitLeavesNoWaiter
  /\ NoUseAfterFree

-----------------------------------------------------------------------------
(* Appending a work adds it to the elements of the queue. *)
LEMMA ElemsAppend ==
  ASSUME NEW S, NEW q \in Seq(S), NEW x \in S
  PROVE  /\ Append(q, x) \in Seq(S)
         /\ Len(Append(q, x)) = Len(q) + 1
         /\ \A i \in 1 .. Len(q) : Append(q, x)[i] = q[i]
         /\ Append(q, x)[Len(q) + 1] = x
         /\ Elems(Append(q, x)) = Elems(q) \cup {x}
<1>1. /\ Append(q, x) \in Seq(S)
      /\ Len(Append(q, x)) = Len(q) + 1
      /\ \A i \in 1 .. Len(q) : Append(q, x)[i] = q[i]
      /\ Append(q, x)[Len(q) + 1] = x
  OBVIOUS
<1>2. ASSUME NEW y \in Elems(Append(q, x)) PROVE y \in Elems(q) \cup {x}
  BY <1>1 DEF Elems
<1>3. ASSUME NEW y \in Elems(q) PROVE y \in Elems(Append(q, x))
  <2>1. PICK i \in 1 .. Len(q) : y = q[i]
    BY DEF Elems
  <2>2. i \in 1 .. Len(Append(q, x)) /\ y = Append(q, x)[i]
    BY <1>1, <2>1
  <2>. QED BY <2>2 DEF Elems
<1>4. x \in Elems(Append(q, x))
  <2>1. Len(q) + 1 \in 1 .. Len(Append(q, x))
    BY <1>1
  <2>. QED BY <1>1, <2>1 DEF Elems
<1>. QED BY <1>1, <1>2, <1>3, <1>4

(* Dequeuing the first work takes just it away from the elements. *)
LEMMA ElemsTail ==
  ASSUME NEW S, NEW q \in Seq(S), q # <<>>
  PROVE  /\ Head(q) \in S
         /\ Head(q) = q[1]
         /\ Tail(q) \in Seq(S)
         /\ Len(q) \in Nat \ {0}
         /\ Len(Tail(q)) = Len(q) - 1
         /\ \A i \in 1 .. Len(q) - 1 : Tail(q)[i] = q[i + 1]
         /\ Elems(q) = {Head(q)} \cup Elems(Tail(q))
<1>1. /\ Head(q) \in S
      /\ Head(q) = q[1]
      /\ Tail(q) \in Seq(S)
      /\ Len(q) \in Nat \ {0}
      /\ Len(Tail(q)) = Len(q) - 1
      /\ \A i \in 1 .. Len(q) - 1 : Tail(q)[i] = q[i + 1]
  OBVIOUS
<1>2. ASSUME NEW y \in Elems(q) PROVE y \in {Head(q)} \cup Elems(Tail(q))
  <2>1. PICK i \in 1 .. Len(q) : y = q[i]
    BY DEF Elems
  <2>2. CASE i = 1
    BY <2>1, <2>2, <1>1
  <2>3. CASE i # 1
    <3>1. i - 1 \in 1 .. Len(q) - 1
      BY <1>1, <2>1, <2>3
    <3>2. y = Tail(q)[i - 1]
      BY <1>1, <2>1, <3>1
    <3>3. i - 1 \in 1 .. Len(Tail(q))
      BY <1>1, <3>1
    <3>. QED BY <3>2, <3>3 DEF Elems
  <2>. QED BY <2>2, <2>3
<1>3. ASSUME NEW y \in Elems(Tail(q)) PROVE y \in Elems(q)
  <2>1. PICK i \in 1 .. Len(Tail(q)) : y = Tail(q)[i]
    BY DEF Elems
  <2>2. i \in 1 .. Len(q) - 1 /\ i + 1 \in 1 .. Len(q)
    BY <1>1, <2>1
  <2>3. y = q[i + 1]
    BY <1>1, <2>1, <2>2
  <2>. QED BY <2>2, <2>3 DEF Elems
<1>4. Head(q) \in Elems(q)
  <2>1. 1 \in 1 .. Len(q)
    BY <1>1
  <2>. QED BY <1>1, <2>1 DEF Elems
<1>. QED BY <1>1, <1>2, <1>3, <1>4

-----------------------------------------------------------------------------
(* The initial state satisfies the invariant. *)
LEMMA InitIInv == Init => IInv
<1> SUFFICES ASSUME Init PROVE IInv
  OBVIOUS
<1> USE ThreadPoolAssumption DEF Init
<1>1. TypeOK
  BY DEF TypeOK, Worker, Work, NoWork, WorkerState
<1>2. Busy = {} /\ Held = {} /\ Queued = {} /\ Active = {} /\ Waiting = {}
  BY DEF Busy, Held, Queued, Elems, Active, Waiting
<1>3. Shape
  BY DEF Shape
<1>4. WorkAccounted
  BY <1>2 DEF WorkAccounted
<1>5. BegunInOrder
  BY DEF BegunInOrder
<1>6. ExitLeavesNoWaiter /\ NoUseAfterFree
  BY <1>2 DEF ExitLeavesNoWaiter, NoUseAfterFree
<1>. QED BY <1>1, <1>3, <1>4, <1>5, <1>6 DEF IInv

(* A step that moves no work keeps the accounting and the order. *)
LEMMA SameWork ==
  ASSUME WorkAccounted, BegunInOrder,
         queue' = queue, queueSize' = queueSize, Busy' = Busy, worker' = worker,
         added' = added, finished' = finished, dropped' = dropped
  PROVE  WorkAccounted' /\ BegunInOrder'
<1>1. Held' = Held /\ Queued' = Queued
  BY DEF Held, Queued
<1>. QED BY <1>1 DEF WorkAccounted, BegunInOrder

(* Waking threads moves no work and no thread in or out of the pool. *)
LEMMA BroadcastShape ==
  ASSUME TypeOK, Broadcast
  PROVE  /\ state' \in [Worker -> WorkerState]
         /\ Busy' = Busy
         /\ Active' = Active
         /\ Waiting' = {}
         /\ \A w \in Worker : state'[w] \in {"none", "joined", "run", "async"}
                                \/ state[w] \in {"none", "joined", "run", "async"}
                              => state'[w] = state[w]
BY DEF TypeOK, Broadcast, Busy, Active, Waiting, WorkerState

(* Moving one thread between lock and wait, or out of lock, likewise. *)
LEMMA MoveShape ==
  ASSUME TypeOK, NEW w \in Worker, NEW b \in {"lock", "wait", "exited"},
         state[w] \in {"lock", "wait"}, state' = [state EXCEPT ![w] = b]
  PROVE  /\ state' \in [Worker -> WorkerState]
         /\ Busy' = Busy
         /\ Active' \subseteq Active
         /\ b # "wait" => Waiting' \subseteq Waiting
         /\ \A v \in Worker : state'[v] \in {"none", "joined", "run", "async"}
                                \/ state[v] \in {"none", "joined", "run", "async"}
                              => state'[v] = state[v]
BY DEF TypeOK, Busy, Active, Waiting, WorkerState
(* Each kind of step preserves the invariant: first the owner. *)
LEMMA OwnerIInv ==
  ASSUME IInv, InitPool \/ OwnerStep \/ Destroy
  PROVE  IInv'
<1> USE ThreadPoolAssumption DEF IInv
<1>1. CASE InitPool
  <2>1. Busy = {} /\ Busy' = {} /\ Held = {} /\ Held' = {} /\ Active' = {} /\ Waiting' = {}
    BY <1>1 DEF InitPool, NoUseAfterFree, Active, Busy, Held, Waiting
  <2>2. TypeOK'
    <3>1. state' \in [Worker -> WorkerState]
      BY <1>1 DEF InitPool, WorkerState
    <3>2. queue' \in Seq(Work) /\ queueSize' \in Nat
      BY <1>1 DEF InitPool
    <3>3. created' \in 0 .. ThreadCnt /\ inits' \in 0 .. MaxInit
      BY <1>1 DEF InitPool, TypeOK
    <3>4. phase' = "creating" /\ stop' = TRUE /\ exit' = FALSE
      BY <1>1 DEF InitPool
    <3>5. UNCHANGED <<joinIdx, crashed, added, finished, dropped, worker>>
      BY <1>1 DEF InitPool, workVars
    <3>. QED BY <3>1, <3>2, <3>3, <3>4, <3>5 DEF TypeOK
  <2>3. Shape'
    <3>1. \A w \in Worker : worker[w] = NoWork
      BY <2>1 DEF Shape, Busy
    <3>. QED BY <1>1, <2>1, <3>1 DEF InitPool, Shape, Worker
  <2>4. queue = <<>> /\ queue' = queue /\ queueSize' = queueSize
    BY <1>1 DEF InitPool, Shape, WorkAccounted
  <2>5. WorkAccounted' /\ BegunInOrder'
    BY <1>1, <2>1, <2>4, SameWork DEF InitPool, workVars
  <2>6. ExitLeavesNoWaiter' /\ NoUseAfterFree'
    BY <1>1, <2>1 DEF ExitLeavesNoWaiter, NoUseAfterFree, InitPool
  <2>. QED BY <2>2, <2>3, <2>5, <2>6
<1>2. CASE CreateThread
  <2>1. created \in Worker /\ state[created] = "none"
    BY <1>2 DEF CreateThread, TypeOK, Worker, Shape
  <2>2. TypeOK'
    BY <1>2, <2>1 DEF CreateThread, TypeOK, WorkerState, poolVars, workVars
  <2>3. Busy' = Busy /\ Waiting' = Waiting
    BY <1>2, <2>1 DEF CreateThread, TypeOK, Busy, Waiting
  <2>4. Shape'
    <3>1. \A w \in Worker : w # created => state'[w] = state[w]
      BY <1>2, <2>1 DEF CreateThread, TypeOK
    <3>2. \A w \in Worker : worker'[w] # NoWork <=> state'[w] \in {"run", "async"}
      BY <1>2, <2>1, <3>1 DEF CreateThread, TypeOK, Shape
    <3>3. \A w \in Worker : w >= created' => state'[w] = "none"
      BY <1>2, <2>1, <3>1 DEF CreateThread, TypeOK, Shape, Worker
    <3>. QED BY <1>2, <3>2, <3>3 DEF CreateThread, Shape
  <2>5. WorkAccounted' /\ BegunInOrder'
    BY <1>2, <2>3, SameWork DEF CreateThread, poolVars, workVars
  <2>6. ExitLeavesNoWaiter' /\ NoUseAfterFree'
    BY <1>2, <2>3 DEF ExitLeavesNoWaiter, NoUseAfterFree, CreateThread, poolVars
  <2>. QED BY <2>2, <2>4, <2>5, <2>6
<1>3. CASE PublishPool
  <2>1. TypeOK' /\ Shape'
    BY <1>3 DEF PublishPool, TypeOK, Shape, poolVars, workVars
  <2>2. Busy' = Busy /\ Waiting' = Waiting
    BY <1>3 DEF PublishPool, Busy, Waiting
  <2>3. WorkAccounted' /\ BegunInOrder'
    BY <1>3, <2>2, SameWork DEF PublishPool, poolVars, workVars
  <2>4. ExitLeavesNoWaiter' /\ NoUseAfterFree'
    BY <1>3, <2>2 DEF ExitLeavesNoWaiter, NoUseAfterFree, PublishPool, poolVars
  <2>. QED BY <2>1, <2>3, <2>4
<1>4. CASE Destroy
  <2>1. Broadcast
    BY <1>4 DEF Destroy
  <2>2. TypeOK'
    BY <1>4, <2>1, BroadcastShape DEF Destroy, TypeOK, workVars
  <2>3. Shape'
    BY <1>4, <2>1, BroadcastShape DEF Destroy, Shape, Worker, TypeOK
  <2>4. WorkAccounted' /\ BegunInOrder'
    BY <1>4, <2>1, BroadcastShape, SameWork DEF Destroy, workVars
  <2>5. ExitLeavesNoWaiter' /\ NoUseAfterFree'
    BY <1>4, <2>1, BroadcastShape DEF Destroy, ExitLeavesNoWaiter, NoUseAfterFree
  <2>. QED BY <2>2, <2>3, <2>4, <2>5
<1>5. CASE JoinThread
  <2>1. joinIdx \in Worker
    BY <1>5 DEF JoinThread, TypeOK, Worker
  <2>2. TypeOK'
    <3>1. crashed' \in BOOLEAN
      BY <1>5 DEF JoinThread, TypeOK
    <3>2. state' \in [Worker -> WorkerState] /\ joinIdx' \in -1 .. ThreadCnt - 1
      BY <1>5, <2>1 DEF JoinThread, TypeOK, WorkerState
    <3>. QED BY <1>5, <3>1, <3>2 DEF JoinThread, TypeOK, poolVars, workVars
  <2>3. Busy' = Busy /\ Waiting' = Waiting
    BY <1>5, <2>1 DEF JoinThread, TypeOK, Busy, Waiting
  <2>4. Shape'
    BY <1>5, <2>1 DEF JoinThread, TypeOK, Shape, Worker, poolVars
  <2>5. WorkAccounted' /\ BegunInOrder'
    BY <1>5, <2>3, SameWork DEF JoinThread, poolVars, workVars
  <2>6. ExitLeavesNoWaiter' /\ NoUseAfterFree'
    BY <1>5, <2>3 DEF ExitLeavesNoWaiter, NoUseAfterFree, JoinThread, poolVars
  <2>. QED BY <2>2, <2>4, <2>5, <2>6
<1>6. CASE FreePool
  <2>1. \A w \in Worker : state[w] = "joined" /\ worker[w] = NoWork
    BY <1>6 DEF FreePool, TypeOK, Shape, Worker
  <2>2. /\ Active' = {} /\ Busy = {} /\ Busy' = {} /\ Held = {} /\ Held' = {}
        /\ Waiting' = {}
    BY <1>6, <2>1 DEF FreePool, Active, Busy, Held, Waiting
  <2>3. Queued \subseteq Work
    BY DEF Queued, Elems, TypeOK
  <2>4. Queued' = {} /\ queueSize' = 0 /\ Len(queue') = 0
    BY <1>6 DEF FreePool, Queued, Elems, WorkAccounted, TypeOK
  <2>5. TypeOK'
    BY <1>6, <2>3, <2>4 DEF FreePool, TypeOK
  <2>6. Shape'
    BY <1>6, <2>1 DEF FreePool, Shape
  <2>7. WorkAccounted'
    BY <1>6, <2>2, <2>4 DEF FreePool, WorkAccounted
  <2>8. BegunInOrder'
    BY <2>4 DEF BegunInOrder
  <2>9. ExitLeavesNoWaiter' /\ NoUseAfterFree'
    BY <2>2 DEF ExitLeavesNoWaiter, NoUseAfterFree
  <2>. QED BY <2>5, <2>6, <2>7, <2>8, <2>9
<1>. QED BY <1>1, <1>2, <1>3, <1>4, <1>5, <1>6 DEF OwnerStep

(* Then start and stop, which only change stop and wake the sleepers. *)
LEMMA StartStopIInv ==
  ASSUME IInv, Start \/ Stop
  PROVE  IInv'
<1> USE DEF IInv
<1>1. Callable /\ Broadcast /\ UNCHANGED <<ctlVars, exit, queue, queueSize, workVars, worker>>
      /\ stop' \in BOOLEAN
  BY DEF Start, Stop
<1>2. TypeOK'
  BY <1>1, BroadcastShape DEF TypeOK, ctlVars, workVars
<1>3. Shape'
  BY <1>1, BroadcastShape DEF Shape, ctlVars
<1>4. WorkAccounted' /\ BegunInOrder'
  BY <1>1, BroadcastShape, SameWork DEF workVars
<1>5. ExitLeavesNoWaiter' /\ NoUseAfterFree'
  BY <1>1, BroadcastShape DEF ExitLeavesNoWaiter, NoUseAfterFree, ctlVars
<1>. QED BY <1>2, <1>3, <1>4, <1>5

(* A new work is younger than every other and joins the queue's end. *)
LEMMA AddWorkIInv ==
  ASSUME IInv, AddWork
  PROVE  IInv'
<1> USE ThreadPoolAssumption DEF IInv
<1> DEFINE x == added + 1
<1>1. /\ x \in Work /\ queue \in Seq(Work) /\ queue' = Append(queue, x) /\ added' = x
      /\ queueSize' = queueSize + 1 /\ UNCHANGED <<worker, finished, dropped>>
      /\ added \in Nat /\ Len(queue) \in Nat /\ queueSize \in Nat
  BY DEF AddWork, TypeOK, Work
<1>2. \/ state' = state
      \/ \E w \in Waiting : state' = [state EXCEPT ![w] = "lock"]
  BY DEF AddWork, Signal
<1>3. /\ state' \in [Worker -> WorkerState] /\ Busy' = Busy /\ Waiting' \subseteq Waiting
      /\ Active' \subseteq Active
      /\ \A v \in Worker : state'[v] \in {"none", "joined", "run", "async"}
                             \/ state[v] \in {"none", "joined", "run", "async"}
                           => state'[v] = state[v]
  <2>1. CASE state' = state
    BY <2>1 DEF TypeOK, Busy, Waiting, Active
  <2>2. ASSUME NEW w \in Waiting, state' = [state EXCEPT ![w] = "lock"]
        PROVE <1>3
    BY <2>2, MoveShape DEF Waiting
  <2>. QED BY <1>2, <2>1, <2>2
<1>4. TypeOK'
  <2>1. queue' \in Seq(Work) /\ queueSize' \in Nat
    BY <1>1
  <2>2. added' \in 0 .. MaxWork
    BY DEF AddWork, TypeOK
  <2>3. UNCHANGED <<phase, created, joinIdx, inits, crashed, stop, exit, finished, dropped, worker>>
    BY DEF AddWork, ctlVars
  <2>. QED BY <1>3, <2>1, <2>2, <2>3 DEF TypeOK
<1>5. Shape'
  BY <1>3 DEF AddWork, Callable, Shape, ctlVars
<1>6. Queued' = Queued \cup {x} /\ Held' = Held /\ Len(queue') = Len(queue) + 1
  BY <1>1, <1>3, ElemsAppend DEF Queued, Held
<1>7. WorkAccounted'
  <2>1. /\ queueSize' = Len(queue')
        /\ 1 .. added' = (Queued \cup Held \cup finished \cup dropped)'
    <3>1. 1 .. x = (1 .. added) \cup {x}
      BY <1>1
    <3>. QED BY <1>1, <1>6, <3>1 DEF WorkAccounted
  <2>2. \A y \in Queued \cup Held \cup finished \cup dropped : y \in Nat /\ y < x
    BY <1>1 DEF WorkAccounted
  <2>3. \A i, j \in 1 .. Len(queue') : i # j => queue'[i] # queue'[j]
    <3>1. \A i \in 1 .. Len(queue) : queue[i] \in Nat /\ queue[i] < x
      BY <2>2 DEF Queued, Elems
    <3>2. /\ \A i \in 1 .. Len(queue) : queue'[i] = queue[i]
          /\ queue'[Len(queue) + 1] = x
      BY <1>1, ElemsAppend
    <3>. QED BY <1>1, <1>6, <3>1, <3>2 DEF WorkAccounted
  <2>4. \A v, w \in Busy' : v # w => worker'[v] # worker'[w]
    BY <1>1, <1>3 DEF WorkAccounted
  <2>5. /\ (Queued \cap (Held \cup finished \cup dropped) = {})'
        /\ (Held \cap (finished \cup dropped) = {})'
        /\ (finished \cap dropped = {})'
    <3>1. x \notin Held \cup finished \cup dropped
      BY <2>2, <1>1
    <3>. QED BY <1>1, <1>6, <3>1 DEF WorkAccounted
  <2>. QED BY <2>1, <2>3, <2>4, <2>5 DEF WorkAccounted
<1>8. BegunInOrder'
  <2>1. \A y \in Queued \cup Held \cup finished : y \in Nat /\ y < x
    BY <1>1 DEF WorkAccounted
  <2>2. \A i \in 1 .. Len(queue) : queue[i] \in Nat /\ queue[i] < x /\ queue'[i] = queue[i]
    BY <1>1, <2>1, ElemsAppend DEF Queued, Elems
  <2>3. queue'[Len(queue) + 1] = x
    BY <1>1, ElemsAppend
  <2>. QED BY <1>1, <1>6, <2>1, <2>2, <2>3 DEF BegunInOrder
<1>9. ExitLeavesNoWaiter' /\ NoUseAfterFree'
  BY <1>3 DEF AddWork, ExitLeavesNoWaiter, NoUseAfterFree, ctlVars
<1>. QED BY <1>4, <1>5, <1>7, <1>8, <1>9

(* A thread that waits, wakes up or exits moves no work. *)
LEMMA MoveIInv ==
  ASSUME IInv, NEW w \in Worker, WorkerExit(w) \/ WorkerWait(w) \/ SpuriousWakeup(w)
  PROVE  IInv'
<1> USE DEF IInv
<1>1. PICK b \in {"lock", "wait", "exited"} :
        /\ state[w] \in {"lock", "wait"}
        /\ state' = [state EXCEPT ![w] = b]
        /\ b = "wait" => ~exit
  BY DEF WorkerExit, WorkerWait, SpuriousWakeup
<1>2. UNCHANGED <<ctlVars, poolVars, workVars, worker>>
  BY DEF WorkerExit, WorkerWait, SpuriousWakeup
<1>3. /\ state' \in [Worker -> WorkerState]
      /\ Busy' = Busy
      /\ Active' \subseteq Active
      /\ b # "wait" => Waiting' \subseteq Waiting
      /\ \A v \in Worker : state'[v] \in {"none", "joined", "run", "async"}
                             \/ state[v] \in {"none", "joined", "run", "async"}
                           => state'[v] = state[v]
  BY <1>1, MoveShape
<1>4. TypeOK'
  BY <1>2, <1>3 DEF TypeOK, ctlVars, poolVars, workVars
<1>5. Shape'
  BY <1>2, <1>3 DEF Shape, ctlVars, poolVars
<1>6. WorkAccounted' /\ BegunInOrder'
  BY <1>2, <1>3, SameWork DEF poolVars, workVars
<1>7. ExitLeavesNoWaiter' /\ NoUseAfterFree'
  BY <1>1, <1>2, <1>3 DEF ExitLeavesNoWaiter, NoUseAfterFree, ctlVars, poolVars
<1>. QED BY <1>4, <1>5, <1>6, <1>7

(* Taking the first work moves it from the queue into the thread's hands. *)
LEMMA TakeIInv ==
  ASSUME IInv, NEW w \in Worker, WorkerTake(w)
  PROVE  IInv'
<1> USE DEF IInv
<1> DEFINE x == Head(queue)
<1>1. /\ state[w] = "lock" /\ state' = [state EXCEPT ![w] = "run"]
      /\ worker' = [worker EXCEPT ![w] = x]
      /\ queue # <<>> /\ queue' = Tail(queue) /\ queueSize' = queueSize - 1
      /\ UNCHANGED <<ctlVars, stop, exit, workVars>>
  BY DEF WorkerTake
<1>2. queue \in Seq(Work) /\ x \in Work /\ x = queue[1] /\ Queued = {x} \cup Queued'
      /\ Len(queue') = Len(queue) - 1 /\ Len(queue) \in Nat \ {0} /\ queue' \in Seq(Work)
      /\ \A i \in 1 .. Len(queue) - 1 : queue'[i] = queue[i + 1]
  BY <1>1, ElemsTail DEF TypeOK, Queued
<1>3. TypeOK'
  <2>1. state' \in [Worker -> WorkerState] /\ worker' \in [Worker -> Work \cup {NoWork}]
    BY <1>1, <1>2 DEF TypeOK, WorkerState
  <2>2. queueSize' \in Nat
    BY <1>1, <1>2 DEF WorkAccounted
  <2>. QED BY <1>1, <1>2, <2>1, <2>2 DEF TypeOK, ctlVars, workVars
<1>4. Busy' = Busy \cup {w} /\ w \notin Busy /\ Waiting' = Waiting
  BY <1>1 DEF Busy, Waiting, TypeOK
<1>5. Held' = Held \cup {x}
  BY <1>1, <1>4 DEF Held, TypeOK, Busy
<1>6. Shape'
  <2>1. \A v \in Worker : worker'[v] # NoWork <=> state'[v] \in {"run", "async"}
    BY <1>1, <1>2, ThreadPoolAssumption DEF Shape, TypeOK, NoWork, Work
  <2>2. \A v \in Worker : state[v] \in {"none", "joined"} => state'[v] = state[v]
    BY <1>1 DEF TypeOK
  <2>3. phase # "none"
    BY <1>1 DEF Shape
  <2>. QED BY <1>1, <2>1, <2>2, <2>3 DEF Shape, ctlVars
<1>7. x \notin Held \cup finished \cup dropped /\ x \notin Queued'
  <2>1. x \notin Held \cup finished \cup dropped
    BY <1>2 DEF WorkAccounted
  <2>2. \A i \in 1 .. Len(queue') : queue'[i] # x
    BY <1>2 DEF WorkAccounted
  <2>. QED BY <2>1, <2>2 DEF Queued, Elems
<1>8. WorkAccounted'
  <2>1. queueSize' = Len(queue')
    BY <1>1, <1>2 DEF WorkAccounted
  <2>2. (1 .. added = Queued \cup Held \cup finished \cup dropped)'
    BY <1>1, <1>2, <1>5 DEF WorkAccounted, workVars
  <2>3. \A i, j \in 1 .. Len(queue') : i # j => queue'[i] # queue'[j]
    <3>1. \A i, j \in 1 .. Len(queue) : i # j => queue[i] # queue[j]
      BY DEF WorkAccounted
    <3>2. \A i \in 1 .. Len(queue') : i + 1 \in 1 .. Len(queue) /\ queue'[i] = queue[i + 1]
      BY <1>2
    <3>3. ASSUME NEW i \in 1 .. Len(queue'), NEW j \in 1 .. Len(queue'), i # j
          PROVE  queue'[i] # queue'[j]
      <4>1. i + 1 # j + 1 /\ i + 1 \in 1 .. Len(queue) /\ j + 1 \in 1 .. Len(queue)
        BY <3>2, <3>3
      <4>2. queue[i + 1] # queue[j + 1]
        BY <3>1, <4>1
      <4>. QED BY <3>2, <4>2
    <3>. QED BY <3>3
  <2>4. \A u, v \in Busy' : u # v => worker'[u] # worker'[v]
    <3>1. \A v \in Busy : worker'[v] = worker[v] /\ worker[v] # x
      BY <1>1, <1>4, <1>7 DEF Held, Busy, TypeOK
    <3>2. worker'[w] = x
      BY <1>1 DEF TypeOK
    <3>. QED BY <1>4, <3>1, <3>2 DEF WorkAccounted
  <2>5. /\ (Queued \cap (Held \cup finished \cup dropped) = {})'
        /\ (Held \cap (finished \cup dropped) = {})'
        /\ (finished \cap dropped = {})'
    BY <1>1, <1>2, <1>5, <1>7 DEF WorkAccounted, workVars
  <2>. QED BY <2>1, <2>2, <2>3, <2>4, <2>5 DEF WorkAccounted
<1>9. BegunInOrder'
  <2>1. \A i \in 1 .. Len(queue') : i + 1 \in 1 .. Len(queue) /\ queue'[i] = queue[i + 1]
    BY <1>2
  <2>2. 1 \in 1 .. Len(queue)
    BY <1>2
  <2>3. \A i, j \in 1 .. Len(queue') : i < j => queue'[i] < queue'[j]
    BY <2>1 DEF BegunInOrder
  <2>4. \A i \in 1 .. Len(queue') : x < queue'[i]
    BY <1>2, <2>1, <2>2 DEF BegunInOrder
  <2>5. \A i \in 1 .. Len(queue') : \A y \in Held' \cup finished' : y < queue'[i]
    BY <1>1, <1>5, <2>1, <2>4 DEF BegunInOrder, workVars
  <2>. QED BY <2>3, <2>5 DEF BegunInOrder
<1>10. ExitLeavesNoWaiter' /\ NoUseAfterFree'
  BY <1>1, <1>4 DEF ExitLeavesNoWaiter, NoUseAfterFree, ctlVars, Active
<1>. QED BY <1>3, <1>6, <1>8, <1>9, <1>10

(* Finishing a work moves it from the thread's hands to finished; going    *)
(* from the routine to the callback moves nothing.                         *)
LEMMA DoneIInv ==
  ASSUME IInv, NEW w \in Worker, RoutineDone(w) \/ AsyncDone(w)
  PROVE  IInv'
<1> USE DEF IInv
<1> DEFINE x == worker[w]
<1>1. UNCHANGED <<ctlVars, poolVars, added, dropped>> /\ state[w] \in {"run", "async"}
  BY DEF RoutineDone, AsyncDone
<1>2. CASE state' = [state EXCEPT ![w] = "async"] /\ UNCHANGED <<worker, finished>>
  <2>1. Busy' = Busy /\ Waiting' = Waiting /\ state' \in [Worker -> WorkerState]
    BY <1>1, <1>2 DEF Busy, Waiting, TypeOK, WorkerState
  <2>2. TypeOK'
    BY <1>1, <1>2, <2>1 DEF TypeOK, ctlVars, poolVars
  <2>3. Shape'
    BY <1>1, <1>2 DEF Shape, TypeOK, ctlVars, poolVars
  <2>4. WorkAccounted' /\ BegunInOrder'
    BY <1>1, <1>2, <2>1, SameWork DEF poolVars
  <2>5. ExitLeavesNoWaiter' /\ NoUseAfterFree'
    BY <1>1, <2>1 DEF ExitLeavesNoWaiter, NoUseAfterFree, ctlVars, poolVars, Active
  <2>. QED BY <2>2, <2>3, <2>4, <2>5
<1>3. CASE /\ state' = [state EXCEPT ![w] = "lock"]
           /\ finished' = finished \cup {x}
           /\ worker' = [worker EXCEPT ![w] = NoWork]
  <2>1. w \in Busy /\ Busy' = Busy \ {w} /\ Waiting' = Waiting
    BY <1>1, <1>3 DEF Busy, Waiting, TypeOK
  <2>2. x \in Work /\ x \in Held
    BY <1>1, <2>1 DEF TypeOK, Shape, Held
  <2>3. TypeOK'
    <3>1. state' \in [Worker -> WorkerState] /\ worker' \in [Worker -> Work \cup {NoWork}]
      BY <1>3 DEF TypeOK, WorkerState
    <3>. QED BY <1>1, <1>3, <2>2, <3>1 DEF TypeOK, ctlVars, poolVars
  <2>4. Shape'
    BY <1>1, <1>3 DEF Shape, TypeOK, ctlVars, poolVars
  <2>5. Held' = Held \ {x} /\ Queued' = Queued
    <3>1. \A v \in Busy' : worker'[v] = worker[v] /\ worker[v] # x
      BY <1>3, <2>1 DEF WorkAccounted, TypeOK, Busy
    <3>2. Held' = {worker[v] : v \in Busy \ {w}}
      BY <2>1, <3>1 DEF Held
    <3>. QED BY <1>1, <2>1, <3>1, <3>2 DEF Held, Queued, poolVars
  <2>6. WorkAccounted'
    <3>1. \A u, v \in Busy' : u # v => worker'[u] # worker'[v]
      BY <1>3, <2>1 DEF WorkAccounted, TypeOK, Busy
    <3>2. /\ (1 .. added = Queued \cup Held \cup finished \cup dropped)'
          /\ (Queued \cap (Held \cup finished \cup dropped) = {})'
          /\ (Held \cap (finished \cup dropped) = {})'
          /\ (finished \cap dropped = {})'
      BY <1>1, <1>3, <2>2, <2>5 DEF WorkAccounted, poolVars
    <3>. QED BY <1>1, <3>1, <3>2 DEF WorkAccounted, poolVars
  <2>7. BegunInOrder'
    BY <1>1, <1>3, <2>2, <2>5 DEF BegunInOrder, poolVars
  <2>8. ExitLeavesNoWaiter' /\ NoUseAfterFree'
    BY <1>1, <2>1 DEF ExitLeavesNoWaiter, NoUseAfterFree, ctlVars, poolVars, Active
  <2>. QED BY <2>3, <2>4, <2>6, <2>7, <2>8
<1>. QED BY <1>2, <1>3 DEF RoutineDone, AsyncDone

(* Every step preserves the invariant. *)
LEMMA StepIInv == IInv /\ [Next]_vars => IInv'
<1> SUFFICES ASSUME IInv, [Next]_vars PROVE IInv'
  OBVIOUS
<1>1. CASE InitPool \/ OwnerStep \/ Destroy
  BY <1>1, OwnerIInv
<1>2. CASE Start \/ Stop
  BY <1>2, StartStopIInv
<1>3. CASE AddWork
  BY <1>3, AddWorkIInv
<1>4. ASSUME NEW w \in Worker, ThreadRoutine(w) \/ SpuriousWakeup(w) PROVE IInv'
  BY <1>4, MoveIInv, TakeIInv, DoneIInv DEF ThreadRoutine
<1>5. CASE UNCHANGED vars
  BY <1>5 DEF vars, ctlVars, poolVars, workVars, IInv, TypeOK, Shape, WorkAccounted,
     BegunInOrder, ExitLeavesNoWaiter, NoUseAfterFree, Active, Busy, Held, Waiting, Queued
<1>. QED BY <1>1, <1>2, <1>3, <1>4, <1>5 DEF Next

(* The invariant holds in every reachable state of the pool, so: types are *)
(* respected, no work is lost, run twice or overtaken, no thread sleeps    *)
(* after exit, and the pool is never freed under one of its threads.       *)
THEOREM PoolInvariant == Spec => []IInv
<1>. QED BY InitIInv, StepIInv, PTL DEF Spec

(* Type correctness, from the invariant. *)
THEOREM TypeCorrect == Spec => []TypeOK
<1>1. IInv => TypeOK
  BY DEF IInv
<1>. QED BY <1>1, PoolInvariant, PTL

(* No interleaving of add_work, the workers and destroy loses a work or    *)
(* executes it twice (thread_routine, add_work, destroy).                  *)
THEOREM WorkAccountedAlways == Spec => []WorkAccounted
<1>1. IInv => WorkAccounted
  BY DEF IInv
<1>. QED BY <1>1, PoolInvariant, PTL

(* Works are begun in the order in which add_work queued them. *)
THEOREM BegunInOrderAlways == Spec => []BegunInOrder
<1>1. IInv => BegunInOrder
  BY DEF IInv
<1>. QED BY <1>1, PoolInvariant, PTL

(* When the join loop of destroy runs nobody is asleep, and when it is     *)
(* over nobody uses the pool that destroy frees.                           *)
THEOREM DestroySafe == Spec => [](ExitLeavesNoWaiter /\ NoUseAfterFree)
<1>1. IInv => ExitLeavesNoWaiter /\ NoUseAfterFree
  BY DEF IInv
<1>. QED BY <1>1, PoolInvariant, PTL

-----------------------------------------------------------------------------
(* No lost wake-up.                                                        *)

(* Sets of workers are finite and can be counted. *)
LEMMA WorkerSets ==
  ASSUME NEW S, S \subseteq Worker
  PROVE  IsFiniteSet(S) /\ Cardinality(S) \in Nat
<1>1. IsFiniteSet(Worker)
  BY ThreadPoolAssumption, FS_Interval DEF Worker
<1>. QED BY <1>1, FS_Subset, FS_CardinalityType

(* A step that leaves the queue alone, wakes at will and lets nobody go to *)
(* sleep or leave the lock keeps every queued work provided for.           *)
LEMMA MoreAwake ==
  ASSUME TypeOK, WorkConserving, Len(queue') = Len(queue), stop' => stop, stop => stop',
         AtLock \subseteq AtLock', AtLock' \subseteq Worker, Waiting' \subseteq Waiting
  PROVE  WorkConserving'
<1>1. /\ Cardinality(AtLock) <= Cardinality(AtLock')
      /\ Cardinality(AtLock) \in Nat /\ Cardinality(AtLock') \in Nat
  BY WorkerSets, FS_Subset DEF AtLock
<1>2. Len(queue) \in Nat
  BY DEF TypeOK
<1>. QED BY <1>1, <1>2 DEF WorkConserving

(* Every step keeps every queued work provided for. *)
LEMMA StepWorkConserving ==
  ASSUME IInv, IInv', WorkConserving, [Next]_vars
  PROVE  WorkConserving'
<1> USE DEF IInv
<1>1. ASSUME Waiting' = {} \/ stop' PROVE WorkConserving'
  BY <1>1 DEF WorkConserving
<1>2. CASE InitPool \/ Destroy \/ Stop
  BY <1>1, <1>2 DEF InitPool, Destroy, Stop
<1>3. CASE Start
  BY <1>1, <1>3, BroadcastShape DEF Start
<1>4. CASE CreateThread
  <2>1. created \in Worker /\ state[created] = "none"
    BY <1>4, ThreadPoolAssumption DEF CreateThread, TypeOK, Worker, Shape
  <2>2. /\ AtLock \subseteq AtLock' /\ AtLock' \subseteq Worker /\ Waiting' \subseteq Waiting
        /\ queue' = queue /\ stop' = stop
    BY <1>4, <2>1 DEF CreateThread, poolVars, AtLock, Waiting, TypeOK
  <2>. QED BY <2>2, MoreAwake
<1>5. CASE PublishPool \/ JoinThread \/ FreePool
  <2>1. CASE FreePool
    BY <1>1, <2>1 DEF FreePool, NoUseAfterFree, Active, Waiting
  <2>2. CASE PublishPool
    BY <2>2, MoreAwake DEF PublishPool, poolVars, AtLock, Waiting
  <2>3. CASE JoinThread
    <3>1. joinIdx \in Worker
      BY <2>3 DEF JoinThread, TypeOK, Worker
    <3>2. /\ AtLock \subseteq AtLock' /\ AtLock' \subseteq Worker /\ Waiting' \subseteq Waiting
          /\ queue' = queue /\ stop' = stop
      BY <2>3, <3>1 DEF JoinThread, poolVars, AtLock, Waiting, TypeOK
    <3>. QED BY <3>2, MoreAwake
  <2>. QED BY <1>5, <2>1, <2>2, <2>3
<1>6. CASE AddWork
  <2>1. CASE stop
    BY <1>1, <1>6, <2>1 DEF AddWork
  <2>2. CASE ~stop /\ Waiting = {}
    BY <1>1, <1>6, <2>2 DEF AddWork, Signal, Waiting
  <2>3. CASE ~stop /\ Waiting # {}
    <3>1. PICK w \in Waiting : state' = [state EXCEPT ![w] = "lock"]
      BY <1>6, <2>3 DEF AddWork, Signal
    <3>2. AtLock' = AtLock \cup {w} /\ w \notin AtLock
      BY <3>1 DEF AtLock, Waiting, TypeOK
    <3>3. Cardinality(AtLock') = Cardinality(AtLock) + 1 /\ Cardinality(AtLock) \in Nat
      BY <3>2, WorkerSets, FS_AddElement DEF AtLock
    <3>4. Len(queue') = Len(queue) + 1 /\ Len(queue) \in Nat
      BY <1>6 DEF AddWork, TypeOK
    <3>. QED BY <2>3, <3>3, <3>4 DEF WorkConserving
  <2>. QED BY <2>1, <2>2, <2>3
<1>7. ASSUME NEW w \in Worker, ThreadRoutine(w) \/ SpuriousWakeup(w) PROVE WorkConserving'
  <2>1. CASE WorkerExit(w) \/ WorkerWait(w)
    <3>1. stop' \/ Len(queue') = 0
      BY <2>1 DEF WorkerExit, WorkerWait, MustWait, poolVars, WorkAccounted
    <3>2. Cardinality(AtLock') \in Nat
      BY WorkerSets DEF AtLock
    <3>. QED BY <3>1, <3>2 DEF WorkConserving
  <2>2. CASE WorkerTake(w)
    <3>1. AtLock' = AtLock \ {w} /\ w \in AtLock /\ Waiting' = Waiting
      BY <2>2 DEF WorkerTake, AtLock, Waiting, TypeOK
    <3>2. Cardinality(AtLock') = Cardinality(AtLock) - 1 /\ Cardinality(AtLock) \in Nat
      BY <3>1, WorkerSets, FS_RemoveElement DEF AtLock
    <3>3. Len(queue') = Len(queue) - 1 /\ Len(queue) \in Nat
      BY <2>2, ElemsTail DEF WorkerTake, TypeOK
    <3>. QED BY <2>2, <3>1, <3>2, <3>3 DEF WorkConserving, WorkerTake
  <2>3. CASE RoutineDone(w) \/ AsyncDone(w) \/ SpuriousWakeup(w)
    <3>1. /\ AtLock \subseteq AtLock' /\ AtLock' \subseteq Worker /\ Waiting' \subseteq Waiting
          /\ queue' = queue /\ stop' = stop
      BY <2>3 DEF RoutineDone, AsyncDone, SpuriousWakeup, poolVars, AtLock, Waiting, TypeOK
    <3>. QED BY <3>1, MoreAwake
  <2>. QED BY <1>7, <2>1, <2>2, <2>3 DEF ThreadRoutine
<1>8. CASE UNCHANGED vars
  BY <1>8, MoreAwake DEF vars, poolVars, AtLock, Waiting
<1>. QED BY <1>2, <1>3, <1>4, <1>5, <1>6, <1>7, <1>8 DEF Next, OwnerStep

(* No lost wake-up: while the pool is started and a thread sleeps, every   *)
(* queued work has an awake thread on its way to take it.                  *)
THEOREM WorkConservingAlways == Spec => []WorkConserving
<1>1. Init => WorkConserving
  BY DEF Init, WorkConserving
<1>2. IInv /\ IInv' /\ WorkConserving /\ [Next]_vars => WorkConserving'
  BY StepWorkConserving
<1>. QED BY <1>1, <1>2, PoolInvariant, PTL DEF Spec

-----------------------------------------------------------------------------
(* The pool implements the abstract work queue.                            *)

(* Every step of the pool is a step of the work queue, or none. *)
LEMMA StepRefines ==
  ASSUME IInv, IInv', [Next]_vars
  PROVE  [WQ!Next]_(WQ!wvars)
<1> USE DEF IInv
<1>1. ASSUME UNCHANGED <<queue, worker, finished, dropped>> PROVE [WQ!Next]_(WQ!wvars)
  BY <1>1 DEF WQ!wvars
<1>2. CASE InitPool
  BY <1>1, <1>2 DEF InitPool, Shape, workVars
<1>3. CASE CreateThread \/ PublishPool \/ JoinThread \/ Destroy \/ Start \/ Stop
  BY <1>1, <1>3 DEF CreateThread, PublishPool, JoinThread, Destroy, Start, Stop,
     poolVars, workVars
<1>4. CASE FreePool
  <2>1. \A w \in Worker : worker[w] = NoWork
    BY <1>4 DEF FreePool, Shape, TypeOK, Worker
  <2>2. WQ!Discard
    BY <1>4, <2>1 DEF FreePool, WQ!Discard, Queued, Elems
  <2>. QED BY <2>2 DEF WQ!Next
<1>5. CASE AddWork
  <2>1. added + 1 \in Work /\ added \in Nat
    BY <1>5, ThreadPoolAssumption DEF AddWork, TypeOK, Work
  <2>2. added + 1 \notin Queued \cup Held \cup finished \cup dropped
    BY <2>1 DEF WorkAccounted
  <2>3. \A w \in Worker : worker[w] = NoWork \/ worker[w] \in Held
    BY DEF Shape, Held, Busy
  <2>4. WQ!Seen = Queued \cup finished \cup dropped \cup {worker[w] : w \in Worker}
    BY DEF WQ!Seen, Queued, Elems
  <2>5. added + 1 \notin WQ!Seen
    BY <2>1, <2>2, <2>3, <2>4 DEF NoWork
  <2>6. WQ!Submit(added + 1)
    BY <1>5, <2>5 DEF AddWork, WQ!Submit
  <2>. QED BY <2>1, <2>6 DEF WQ!Next
<1>6. ASSUME NEW w \in Worker, ThreadRoutine(w) \/ SpuriousWakeup(w)
      PROVE  [WQ!Next]_(WQ!wvars)
  <2>1. CASE WorkerExit(w) \/ WorkerWait(w) \/ SpuriousWakeup(w)
    BY <1>1, <2>1 DEF WorkerExit, WorkerWait, SpuriousWakeup, poolVars, workVars
  <2>2. CASE WorkerTake(w)
    <3>1. WQ!Begin(w)
      BY <2>2 DEF WorkerTake, WQ!Begin, Shape, workVars
    <3>. QED BY <3>1 DEF WQ!Next
  <2>3. CASE RoutineDone(w) \/ AsyncDone(w)
    <3>1. worker[w] # NoWork
      BY <2>3 DEF RoutineDone, AsyncDone, Shape
    <3>2. WQ!Finish(w) \/ UNCHANGED <<queue, worker, finished, dropped>>
      BY <2>3, <3>1 DEF RoutineDone, AsyncDone, WQ!Finish, poolVars
    <3>. QED BY <1>1, <3>2 DEF WQ!Next
  <2>. QED BY <1>6, <2>1, <2>2, <2>3 DEF ThreadRoutine
<1>7. CASE UNCHANGED vars
  BY <1>1, <1>7 DEF vars, poolVars, workVars
<1>. QED BY <1>2, <1>3, <1>4, <1>5, <1>6, <1>7 DEF Next, OwnerStep

(* The pool implements the work queue: clients may think of it as a FIFO   *)
(* queue served by ThreadCnt servers, whatever its locks and threads do.   *)
THEOREM PoolImplementsWorkQueue == Spec => ImplementsWorkQueue
<1>1. Init => WQ!Init
  BY DEF Init, WQ!Init
<1>2. IInv /\ IInv' /\ [Next]_vars => [WQ!Next]_(WQ!wvars)
  BY StepRefines
<1>. QED BY <1>1, <1>2, PoolInvariant, PTL DEF Spec, ImplementsWorkQueue, WQ!Spec
-----------------------------------------------------------------------------
(***************************************************************************)
(* Threads: side by side each part behaves as it does alone.               *)
(***************************************************************************)

LEMMA ThreadsInitParts == ThreadsInit => Init /\ TimerInit
BY DEF ThreadsInit

LEMMA ThreadsStepParts == [ThreadsNext]_threadsVars => [Next]_vars /\ [TimerNext]_timerVars
<1> SUFFICES ASSUME [ThreadsNext]_threadsVars PROVE [Next]_vars /\ [TimerNext]_timerVars
  OBVIOUS
<1>1. CASE PoolOnly
  BY <1>1 DEF PoolOnly
<1>2. CASE TimerOnly
  BY <1>2 DEF TimerOnly
<1>3. CASE UNCHANGED threadsVars
  BY <1>3 DEF threadsVars
<1>. QED BY <1>1, <1>2, <1>3 DEF ThreadsNext

(* A behaviour of Threads is one of each of its parts, fair as the part    *)
(* asks, so that what is proved of a part holds in Threads.                *)
THEOREM ThreadsImplementsParts == ThreadsSpec => FairSpec /\ TimerFairSpec
BY ThreadsInitParts, ThreadsStepParts, PTL
   DEF ThreadsSpec, FairSpec, Spec, TimerFairSpec, TimerSpec
=============================================================================
