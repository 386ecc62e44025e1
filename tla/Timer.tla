------------------------------- MODULE Timer --------------------------------
(***************************************************************************)
(* timer/timer_manager.c: the timers in timer_list, each a timerfd in one  *)
(* epoll set, and the service thread that waits on the set and calls the   *)
(* listeners.  The manual (documents/.docx, 2.3) forbids calling the API   *)
(* from several threads at once, so there is one client; the service       *)
(* thread itself calls free_timer for a one-shot timer that has expired.   *)
(*                                                                         *)
(* Each section under list_lock is an action; stop and free_timer leave    *)
(* and re-enter the lock.  Calls to timerfd, epoll and calloc that fail,   *)
(* and listeners that call the API, are not modelled.  A timer is the      *)
(* address of its timer_info, so it can be allocated again once freed.     *)
(***************************************************************************)
EXTENDS Lists

CONSTANTS Timer,      (* the timer_info addresses                          *)
          NoTimer,
          MaxInits,   (* bound: inits held                                 *)
          OneShots,   (* the values of oneshot that clients pass           *)
          Paired      (* is alloc followed by start and stop by free, as   *)
                      (* in examples/timer/main.c?                         *)

ASSUME TimerAssumption ==
  /\ NoTimer \notin Timer
  /\ MaxInits \in Nat
  /\ OneShots \subseteq BOOLEAN
  /\ Paired \in BOOLEAN

Caller == {"client", "service"}

VARIABLES
  list,      (* timer_list                                                 *)
  oneshot, started, armed,
  polled,    (* the timers whose timerfd is in the epoll set               *)
  ready,     (* those of them with an edge that epoll_wait has not returned*)
  batch,     (* events[] from the entry being served on                    *)
  dangling,  (* the entries of events[] freed since epoll_wait returned    *)
  lock,      (* who holds list_lock, or "free"                             *)
  pc,        (* where each caller is; for the service thread also "off"    *)
             (* (not running), "wait" and "dispatch"                       *)
  arg, ret,  (* the timer a caller works on; where its stop returns to     *)
  next,      (* ninfo of free_all_timer                                    *)
  running,   (* the thread object has pthreads                             *)
  cancelled, (* pthread_cancel was called on the service thread            *)
  initCount,
  due,       (* the client's next call when Paired                         *)
  fired,     (* the listener was called since the last start or stop       *)
  joined,    (* the last stop of the timer joined the service thread       *)
  stale      (* a freed timer_info was used                                *)

infoVars   == <<list, oneshot, started, armed, polled, ready, dangling>>
callVars   == <<lock, pc, arg, ret, next>>
threadVars == <<running, cancelled>>
ghostVars  == <<due, fired, joined, stale>>
timerVars == <<infoVars, batch, callVars, threadVars, initCount, ghostVars>>

InList(t) == \E i \in 1 .. Len(list) : list[i] = t

TimerInit ==
  /\ list = <<>>
  /\ oneshot = [t \in Timer |-> FALSE]
  /\ started = [t \in Timer |-> FALSE]
  /\ armed = [t \in Timer |-> FALSE]
  /\ polled = {}
  /\ ready = {}
  /\ batch = {}
  /\ dangling = {}
  /\ lock = "free"
  /\ pc = [p \in Caller |-> IF p = "client" THEN "idle" ELSE "off"]
  /\ arg = [p \in Caller |-> NoTimer]
  /\ ret = [p \in Caller |-> "idle"]
  /\ next = NoTimer
  /\ running = FALSE
  /\ cancelled = FALSE
  /\ initCount = 0
  /\ due = <<"any", NoTimer>>
  /\ fired = [t \in Timer |-> FALSE]
  /\ joined = [t \in Timer |-> FALSE]
  /\ stale = FALSE

-----------------------------------------------------------------------------
(* The client's calls.                                                     *)

(* The client is free to make this call on this timer. *)
Calls(op, t) ==
  /\ pc["client"] = "idle"
  /\ initCount > 0
  /\ Paired => due[1] = "any" \/ due = <<op, t>>

Goto(p, l) == pc' = [pc EXCEPT ![p] = l]

(* The caller leaves the procedure; the service thread goes on serving. *)
Return(p) ==
  /\ Goto(p, IF p = "client" THEN "idle" ELSE "dispatch")
  /\ arg' = [arg EXCEPT ![p] = NoTimer]

(* alloc_timer *)
AllocTimer(t, once) ==
  /\ Calls("alloc", t)
  /\ lock = "free"
  /\ ~InList(t)
  /\ list' = Append(list, t)
  /\ oneshot' = [oneshot EXCEPT ![t] = once]
  /\ fired' = [fired EXCEPT ![t] = FALSE]
  /\ joined' = [joined EXCEPT ![t] = FALSE]
  /\ due' = <<"start", t>>
  /\ UNCHANGED <<started, armed, polled, ready, dangling, batch, callVars, threadVars,
                 initCount, stale>>

(* start, up to epoll_add_event *)
StartCall(t) ==
  /\ Calls("start", t)
  /\ Paired => due = <<"start", t>>
  /\ lock = "free"
  /\ InList(t)
  /\ ~started[t]
  /\ polled' = polled \cup {t}
  /\ Goto("client", "start_lock")
  /\ arg' = [arg EXCEPT !["client"] = t]
  /\ UNCHANGED <<list, oneshot, started, armed, ready, dangling, batch, lock, ret, next,
                 threadVars, initCount, ghostVars>>

(* Mutant: the thread is started for the second timer. *)
StartLockOffByOne ==
  /\ pc["client"] = "start_lock"
  /\ lock = "free"
  /\ IF Len(list) = 2 /\ ~running
       THEN /\ running' = TRUE
            /\ pc' = [pc EXCEPT !["client"] = "start_arm", !["service"] = "wait"]
       ELSE /\ Goto("client", "start_arm")
            /\ UNCHANGED running
  /\ UNCHANGED <<infoVars, batch, lock, arg, ret, next, cancelled, initCount, ghostVars>>

(* start, under list_lock: the thread is started for the first timer in the*)
(* list (starting a thread that is running does nothing).                  *)
StartLock ==
  /\ pc["client"] = "start_lock"
  /\ lock = "free"
  /\ IF Len(list) = 1 /\ ~running
       THEN /\ running' = TRUE
            /\ pc' = [pc EXCEPT !["client"] = "start_arm", !["service"] = "wait"]
       ELSE /\ Goto("client", "start_arm")
            /\ UNCHANGED running
  /\ UNCHANGED <<infoVars, batch, lock, arg, ret, next, cancelled, initCount, ghostVars>>

(* start, outside the lock: timerfd_settime. *)
StartArm ==
  /\ pc["client"] = "start_arm"
  /\ LET t == arg["client"]
     IN  /\ armed' = [armed EXCEPT ![t] = TRUE]
         /\ fired' = [fired EXCEPT ![t] = FALSE]
         /\ joined' = [joined EXCEPT ![t] = FALSE]
  /\ Goto("client", "start_mark")
  /\ UNCHANGED <<list, oneshot, started, polled, ready, dangling, batch, lock, arg, ret, next,
                 threadVars, initCount, due, stale>>

(* start, the rest: is_start = 1.  A one-shot timer may have expired       *)
(* before that, and been freed.                                            *)
StartMark ==
  /\ pc["client"] = "start_mark"
  /\ LET t == arg["client"]
     IN  /\ started' = [started EXCEPT ![t] = InList(t)]
         /\ stale' = (stale \/ ~InList(t))
  /\ Return("client")
  /\ due' = <<"any", NoTimer>>
  /\ UNCHANGED <<list, oneshot, armed, polled, ready, dangling, batch, lock, ret, next,
                 threadVars, initCount, fired, joined>>

(* stop; the client does not stop or free a one-shot timer, which may be   *)
(* freed under it at any time.                                             *)
StopCall(t) ==
  /\ Calls("stop", t)
  /\ InList(t)
  /\ ~oneshot[t]
  /\ started[t]
  /\ Goto("client", "stop")
  /\ arg' = [arg EXCEPT !["client"] = t]
  /\ ret' = [ret EXCEPT !["client"] = "idle"]
  /\ due' = <<"free", t>>
  /\ UNCHANGED <<infoVars, batch, lock, next, threadVars, initCount, fired, joined, stale>>

(* free_timer *)
FreeCall(t) ==
  /\ Calls("free", t)
  /\ InList(t)
  /\ ~oneshot[t]
  /\ Goto("client", "free_lock")
  /\ arg' = [arg EXCEPT !["client"] = t]
  /\ due' = <<"any", NoTimer>>
  /\ UNCHANGED <<infoVars, batch, lock, ret, next, threadVars, initCount, fired, joined, stale>>

-----------------------------------------------------------------------------
(* stop and free_timer, called by the client or by the service thread.     *)

(* stop, up to is_start = 0: the timer is disarmed and leaves the epoll    *)
(* set, but not the events already returned.                               *)
StopTimer(p) ==
  /\ pc[p] = "stop"
  /\ lock = "free"
  /\ LET t == arg[p]
     IN  IF started[t]
           THEN /\ armed' = [armed EXCEPT ![t] = FALSE]
                /\ polled' = polled \ {t}
                /\ ready' = ready \ {t}
                /\ started' = [started EXCEPT ![t] = FALSE]
                /\ fired' = [fired EXCEPT ![t] = FALSE]
                /\ Goto(p, "stop_lock")
                /\ UNCHANGED stale
           ELSE /\ stale' = (stale \/ ~InList(t))
                /\ Goto(p, ret[p])
                /\ UNCHANGED <<armed, polled, ready, started, fired>>
  /\ UNCHANGED <<list, oneshot, dangling, batch, lock, arg, ret, next, threadVars,
                 initCount, due, joined>>

(* Mutant: the lock is released without joining the thread. *)
StopLockNoJoin(p) ==
  /\ pc[p] = "stop_lock"
  /\ lock = "free"
  /\ joined' = [joined EXCEPT ![arg[p]] = (Len(list) = 1 /\ running)]
  /\ Goto(p, ret[p])
  /\ UNCHANGED <<infoVars, batch, lock, arg, ret, next, threadVars, initCount, due, fired, stale>>

(* Mutant: the thread is stopped although another timer needs it. *)
StopLockAlways(p) ==
  /\ pc[p] = "stop_lock"
  /\ lock = "free"
  /\ IF running
       THEN /\ lock' = p
            /\ cancelled' = TRUE
            /\ Goto(p, "stop_join")
       ELSE /\ Goto(p, ret[p])
            /\ UNCHANGED <<lock, cancelled>>
  /\ UNCHANGED <<infoVars, batch, arg, ret, next, running, initCount, ghostVars>>

(* stop, under list_lock: the thread is stopped with the last timer in the *)
(* list; thread->stop cancels it and joins it with list_lock held.         *)
StopLock(p) ==
  /\ pc[p] = "stop_lock"
  /\ lock = "free"
  /\ IF Len(list) = 1 /\ running
       THEN /\ lock' = p
            /\ cancelled' = TRUE
            /\ Goto(p, "stop_join")
       ELSE /\ Goto(p, ret[p])
            /\ UNCHANGED <<lock, cancelled>>
  /\ UNCHANGED <<infoVars, batch, arg, ret, next, running, initCount, ghostVars>>

(* Mutant: stop keeps list_lock when it has joined the thread. *)
StopJoinKeepsLock ==
  /\ pc["client"] = "stop_join"
  /\ pc["service"] = "off"
  /\ running' = FALSE
  /\ cancelled' = FALSE
  /\ joined' = [joined EXCEPT ![arg["client"]] = TRUE]
  /\ Goto("client", ret["client"])
  /\ UNCHANGED <<infoVars, batch, lock, arg, ret, next, initCount, due, fired, stale>>

(* The client's join returns when the service thread has ended. *)
StopJoin ==
  /\ pc["client"] = "stop_join"
  /\ pc["service"] = "off"
  /\ running' = FALSE
  /\ cancelled' = FALSE
  /\ lock' = "free"
  /\ joined' = [joined EXCEPT ![arg["client"]] = TRUE]
  /\ Goto("client", ret["client"])
  /\ UNCHANGED <<infoVars, batch, arg, ret, next, initCount, due, fired, stale>>

(* The service thread joins itself with its own cancellation pending:      *)
(* pthread_join is a cancellation point, the thread ends inside it and     *)
(* nobody releases list_lock.                                              *)
JoinSelf ==
  /\ pc["service"] = "stop_join"
  /\ Goto("service", "off")
  /\ batch' = {}
  /\ UNCHANGED <<infoVars, lock, arg, ret, next, threadVars, initCount, ghostVars>>

(* close, list_del and free *)
Remove(t) ==
  /\ list' = Without(list, {t})
  /\ polled' = polled \ {t}
  /\ ready' = ready \ {t}
  /\ armed' = [armed EXCEPT ![t] = FALSE]
  /\ started' = [started EXCEPT ![t] = FALSE]
  /\ dangling' = dangling \cup ({t} \cap batch)

(* free_timer, the first section: a started timer is stopped with the lock *)
(* released.                                                               *)
FreeLock(p) ==
  /\ pc[p] = "free_lock"
  /\ lock = "free"
  /\ LET t == arg[p]
     IN  \/ /\ InList(t) /\ started[t]
            /\ Goto(p, "stop")
            /\ ret' = [ret EXCEPT ![p] = "free_relock"]
            /\ UNCHANGED <<list, polled, ready, armed, started, dangling, arg>>
         \/ /\ InList(t) /\ ~started[t]
            /\ Remove(t)
            /\ Return(p)
            /\ UNCHANGED ret
         \/ /\ ~InList(t)
            /\ Return(p)
            /\ UNCHANGED <<list, polled, ready, armed, started, dangling, ret>>
  /\ UNCHANGED <<oneshot, batch, lock, next, threadVars, initCount, ghostVars>>

(* free_timer, the second section: the entry found in the first is freed. *)
FreeRelock(p) ==
  /\ pc[p] = "free_relock"
  /\ lock = "free"
  /\ stale' = (stale \/ ~InList(arg[p]))
  /\ Remove(arg[p])
  /\ Return(p)
  /\ UNCHANGED <<oneshot, batch, lock, ret, next, threadVars, initCount, due, fired, joined>>

-----------------------------------------------------------------------------
(* init, deinit and free_all_timer.                                        *)

InitManager ==
  /\ pc["client"] = "idle"
  /\ initCount < MaxInits
  /\ initCount' = initCount + 1
  /\ UNCHANGED <<infoVars, batch, callVars, threadVars, ghostVars>>

(* deinit: the last one goes on to free_all_timer. *)
DeinitManager ==
  /\ Calls("deinit", NoTimer)
  /\ IF initCount > 1
       THEN initCount' = initCount - 1 /\ UNCHANGED <<lock, pc>>
       ELSE /\ lock = "free"
            /\ lock' = "client"
            /\ Goto("client", "all")
            /\ UNCHANGED initCount
  /\ UNCHANGED <<infoVars, batch, arg, ret, next, threadVars, ghostVars>>

(* One turn of free_all_timer; ninfo is read before the lock is released. *)
FreeAll ==
  /\ pc["client"] = "all"
  /\ list # <<>>
  /\ LET t == Head(list)
     IN  IF started[t]
           THEN /\ arg' = [arg EXCEPT !["client"] = t]
                /\ ret' = [ret EXCEPT !["client"] = "all_relock"]
                /\ next' = IF Len(list) > 1 THEN list[2] ELSE NoTimer
                /\ lock' = "free"
                /\ Goto("client", "stop")
                /\ UNCHANGED <<list, polled, ready, armed, started, dangling>>
           ELSE Remove(t) /\ UNCHANGED <<arg, ret, next, lock, pc>>
  /\ UNCHANGED <<oneshot, batch, threadVars, initCount, ghostVars>>

FreeAllRelock ==
  /\ pc["client"] = "all_relock"
  /\ lock = "free"
  /\ lock' = "client"
  /\ stale' = (stale \/ ~InList(arg["client"]) \/ (next # NoTimer /\ ~InList(next)))
  /\ Remove(arg["client"])
  /\ Goto("client", "all")
  /\ UNCHANGED <<oneshot, batch, arg, ret, next, threadVars, initCount, due, fired, joined>>

(* deinit after free_all_timer: a thread that still runs is stopped. *)
TimerDeinitStops ==
  /\ pc["client"] = "all"
  /\ list = <<>>
  /\ lock' = "free"
  /\ cancelled' = running
  /\ Goto("client", "deinit_join")
  /\ UNCHANGED <<infoVars, batch, arg, ret, next, running, initCount, ghostVars>>

DeinitJoins ==
  /\ pc["client"] = "deinit_join"
  /\ running => pc["service"] = "off"
  /\ running' = FALSE
  /\ cancelled' = FALSE
  /\ initCount' = 0
  /\ Goto("client", "idle")
  /\ UNCHANGED <<infoVars, batch, lock, arg, ret, next, ghostVars>>

-----------------------------------------------------------------------------
(* The timers and the service thread.                                      *)

(* A timerfd expires: once, or again and again. *)
Expire(t) ==
  /\ armed[t]
  /\ ready' = ready \cup ({t} \cap polled)
  /\ armed' = [armed EXCEPT ![t] = ~oneshot[t]]
  /\ UNCHANGED <<list, oneshot, started, polled, dangling, batch, callVars, threadVars,
                 initCount, ghostVars>>

(* epoll_wait returns all the edges there are (EPOLLET). *)
Wait ==
  /\ pc["service"] = "wait"
  /\ ~cancelled
  /\ ready # {}
  /\ batch' = ready
  /\ dangling' = {}
  /\ ready' = {}
  /\ Goto("service", "dispatch")
  /\ UNCHANGED <<list, oneshot, started, armed, polled, lock, arg, ret, next,
                 threadVars, initCount, ghostVars>>

(* One event: read, the listener, and free_timer of a one-shot timer.  The *)
(* pointer comes from events[], whatever has happened to the timer since.  *)
Dispatch(t) ==
  /\ pc["service"] = "dispatch"
  /\ ~cancelled
  /\ t \in batch
  /\ batch' = batch \ {t}
  /\ fired' = [fired EXCEPT ![t] = TRUE]
  /\ stale' = (stale \/ t \in dangling)
  /\ IF oneshot[t]
       THEN /\ Goto("service", "free_lock")
            /\ arg' = [arg EXCEPT !["service"] = t]
       ELSE UNCHANGED <<pc, arg>>
  /\ UNCHANGED <<infoVars, lock, ret, next, threadVars, initCount, due, joined>>

DispatchEnds ==
  /\ pc["service"] = "dispatch"
  /\ batch = {}
  /\ Goto("service", "wait")
  /\ UNCHANGED <<infoVars, batch, lock, arg, ret, next, threadVars, initCount, ghostVars>>

(* epoll_wait and read are cancellation points: a thread that is cancelled *)
(* comes no further.                                                       *)
ThreadEnds ==
  /\ pc["service"] \in {"wait", "dispatch"}
  /\ cancelled
  /\ batch' = {}
  /\ Goto("service", "off")
  /\ UNCHANGED <<infoVars, lock, arg, ret, next, threadVars, initCount, ghostVars>>

Procedures(p) == StopTimer(p) \/ StopLock(p) \/ FreeLock(p) \/ FreeRelock(p)

(* What the client does once it is in a call, and the service thread. *)
ClientGoesOn ==
  \/ StartLock \/ StartArm \/ StartMark \/ StopJoin \/ Procedures("client")
  \/ FreeAll \/ FreeAllRelock \/ TimerDeinitStops \/ DeinitJoins

ServiceThread ==
  \/ Wait \/ DispatchEnds \/ ThreadEnds \/ Procedures("service") \/ JoinSelf
  \/ \E t \in Timer : Dispatch(t)

TimerNext ==
  \/ InitManager \/ DeinitManager
  \/ \E t \in Timer, once \in OneShots : AllocTimer(t, once)
  \/ \E t \in Timer : StartCall(t) \/ StopCall(t) \/ FreeCall(t) \/ Expire(t)
  \/ ClientGoesOn
  \/ ServiceThread

TimerSpec == TimerInit /\ [][TimerNext]_timerVars

(* A call that has begun goes on, timerfds expire and the service thread   *)
(* is scheduled.                                                           *)
TimerFairness ==
  /\ WF_timerVars(ClientGoesOn)
  /\ WF_timerVars(ServiceThread)
  /\ \A t \in Timer : WF_timerVars(Expire(t))

TimerFairSpec == TimerSpec /\ TimerFairness
-----------------------------------------------------------------------------
(* Properties *)

TimerTypeOK ==
  /\ list \in Seq(Timer)
  /\ oneshot \in [Timer -> BOOLEAN]
  /\ started \in [Timer -> BOOLEAN]
  /\ armed \in [Timer -> BOOLEAN]
  /\ polled \subseteq Timer /\ ready \subseteq polled
  /\ batch \subseteq Timer /\ dangling \subseteq Timer
  /\ lock \in Caller \cup {"free"}
  /\ pc["client"] \in {"idle", "start_lock", "start_arm", "start_mark", "stop", "stop_lock",
                       "stop_join", "free_lock", "free_relock", "all", "all_relock", "deinit_join"}
  /\ pc["service"] \in {"off", "wait", "dispatch", "free_lock", "free_relock",
                        "stop", "stop_lock", "stop_join"}
  /\ arg \in [Caller -> Timer \cup {NoTimer}]
  /\ next \in Timer \cup {NoTimer}
  /\ running \in BOOLEAN /\ cancelled \in BOOLEAN
  /\ initCount \in 0 .. MaxInits

(* The service thread ends, or has ended, inside the join of itself with   *)
(* list_lock held.                                                         *)
LockLost == lock = "service" /\ pc["service"] \in {"stop_join", "off"}

(* The client joins the service thread with list_lock held, and the thread *)
(* is about to take list_lock, past its last cancellation point.           *)
Deadlocked ==
  /\ lock = "client" /\ pc["client"] = "stop_join"
  /\ pc["service"] \in {"free_lock", "free_relock", "stop", "stop_lock"}

(* When alloc is always followed by start and stop by free, every started  *)
(* timer has a service thread that is not being ended, unless list_lock is *)
(* lost or a freed timer_info was used: counting the list is then as good  *)
(* as counting the started timers.                                         *)
Served ==
  LockLost \/ stale \/
  \A t \in Timer :
    started[t] /\ pc["client"] = "idle" => running /\ ~cancelled /\ pc["service"] # "off"

(* A stop that ended the service thread is final: the listener is not      *)
(* called again until the timer is started again.  (With other timers in   *)
(* the list stop does not wait, and the listener may still be called.)     *)
JoinedStopIsFinal == [][\A t \in Timer : Dispatch(t) => ~joined[t]]_timerVars

(* list_lock is left behind by a thread that has ended in one case only: a *)
(* one-shot timer has expired and one timer is left in the list, so that   *)
(* the stop of the service thread makes it join itself.                    *)
LockLostByLastOneShot ==
  LockLost => Len(list) = 1 /\ oneshot[arg["service"]]

(* Every call returns: the client's joins end, and list_lock is released.  *)
(* timer_start and timer_stop return 0 or -1, says the manual (2.7, 2.8).  *)
CallsReturn == pc["client"] # "idle" ~> pc["client"] = "idle"

(* A started timer's listener is called, or the timer is stopped: once     *)
(* timer_start has succeeded the timer counts (the manual, 2.7).           *)
TimersFire == \A t \in Timer : started[t] ~> (fired[t] \/ ~started[t])

(* The two ways above are the only ones in which a call of a client that   *)
(* pairs its calls does not return.                                        *)
CallsReturnOrDeadlock ==
  pc["client"] # "idle" ~> (pc["client"] = "idle" \/ LockLost \/ Deadlocked)

(* Likewise a started timer of such a client fires or is stopped, unless   *)
(* the service thread is lost in one of the two ways or has served a timer *)
(* that was freed.                                                         *)
TimersFireOrDeadlock ==
  \A t \in Timer : started[t] ~> (fired[t] \/ ~started[t] \/ LockLost \/ Deadlocked \/ stale)
=============================================================================
