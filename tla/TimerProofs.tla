---------------------------- MODULE TimerProofs -----------------------------
(***************************************************************************)
(* Proofs about Timer, for any timers and any number of calls.             *)
(***************************************************************************)
EXTENDS Timer, ListsProofs, TLAPS

-----------------------------------------------------------------------------
(* The list.                                                               *)

(* A timer that is appended is in the list. *)
LEMMA ListGrows ==
  ASSUME list \in Seq(Timer), NEW t \in Timer, list' = Append(list, t)
  PROVE  /\ list' \in Seq(Timer)
         /\ \A u \in Timer : InList(u)' <=> (InList(u) \/ u = t)
<1>1. list' \in Seq(Timer) /\ Len(list') = Len(list) + 1 /\ Len(list) \in Nat
  OBVIOUS
<1>2. list'[Len(list) + 1] = t /\ \A k \in 1 .. Len(list) : list'[k] = list[k]
  OBVIOUS
<1>3. \A k \in 1 .. Len(list') : k = Len(list) + 1 \/ k \in 1 .. Len(list)
  BY <1>1
<1>4. Len(list) + 1 \in 1 .. Len(list') /\ \A k \in 1 .. Len(list) : k \in 1 .. Len(list')
  BY <1>1
<1>. QED BY <1>1, <1>2, <1>3, <1>4 DEF InList

(* Of a list from which a timer is taken the others remain. *)
LEMMA ListShrinks ==
  ASSUME list \in Seq(Timer), NEW t, list' = Without(list, {t})
  PROVE  /\ list' \in Seq(Timer)
         /\ \A u \in Timer : InList(u)' <=> (InList(u) /\ u # t)
<1>1. list' \in Seq(Timer) /\ \E h : Picks(h, list', list, {t}, Len(list))
  BY WithoutPicks
<1>2. PICK h : Picks(h, list', list, {t}, Len(list))
  BY <1>1
<1>3. /\ \A k \in 1 .. Len(list') : h[k] \in 1 .. Len(list) /\ list'[k] = list[h[k]] /\ list'[k] # t
      /\ \A i \in 1 .. Len(list) : list[i] # t => \E k \in 1 .. Len(list') : h[k] = i
  BY <1>2 DEF Picks
<1>4. ASSUME NEW u, InList(u)' PROVE InList(u) /\ u # t
  <2>1. PICK k \in 1 .. Len(list') : list'[k] = u
    BY <1>4 DEF InList
  <2>. QED BY <1>3, <2>1 DEF InList
<1>5. ASSUME NEW u, InList(u), u # t PROVE InList(u)'
  <2>1. PICK i \in 1 .. Len(list) : list[i] = u
    BY <1>5 DEF InList
  <2>2. PICK k \in 1 .. Len(list') : h[k] = i
    BY <1>3, <1>5, <2>1
  <2>. QED BY <1>3, <2>1, <2>2 DEF InList
<1>. QED BY <1>1, <1>4, <1>5

LEMMA ListStays ==
  ASSUME UNCHANGED list
  PROVE  \A u \in Timer : InList(u)' <=> InList(u)
BY DEF InList

-----------------------------------------------------------------------------
(* The inductive invariant.                                                *)

(* Where a caller can be. *)
At == {"idle", "start_lock", "start_arm", "start_mark", "stop", "stop_lock", "stop_join",
       "free_lock", "free_relock", "all", "all_relock", "deinit_join", "off", "wait", "dispatch"}

(* The data. *)
Types ==
  /\ list \in Seq(Timer)
  /\ oneshot \in [Timer -> BOOLEAN] /\ started \in [Timer -> BOOLEAN]
  /\ armed \in [Timer -> BOOLEAN] /\ joined \in [Timer -> BOOLEAN]
  /\ polled \subseteq Timer /\ ready \subseteq polled /\ batch \subseteq Timer
  /\ running \in BOOLEAN /\ cancelled \in BOOLEAN

(* Where the two callers are. *)
Places ==
  /\ lock \in {"client", "service", "free"}
  /\ pc \in [Caller -> At] /\ arg \in [Caller -> Timer \cup {NoTimer}]
  /\ ret \in [Caller -> {"idle", "free_relock", "all_relock"}]
  /\ pc["client"] \notin {"off", "wait", "dispatch"}
  /\ pc["service"] \in {"off", "wait", "dispatch", "free_lock", "free_relock", "stop",
                        "stop_lock", "stop_join"}

(* The caller is in stop. *)
Stops(p) == pc[p] \in {"stop", "stop_lock", "stop_join"}

(* The client is in deinit, in free_all_timer or behind it. *)
InDeinit ==
  \/ pc["client"] \in {"all", "all_relock", "deinit_join"}
  \/ Stops("client") /\ ret["client"] = "all_relock"

(* The service thread is in free_timer; there it is for a one-shot timer.  *)
Frees == Stops("service") \/ pc["service"] \in {"free_lock", "free_relock"}

(* Who holds list_lock between two steps. *)
LockInv ==
  /\ lock = "client" <=> pc["client"] \in {"all", "stop_join"}
  /\ lock = "service" => pc["service"] \in {"stop_join", "off"}
                         /\ Len(list) = 1 /\ oneshot[arg["service"]]
  /\ pc["service"] = "stop_join" => lock = "service"
  /\ pc["service"] = "off" => batch = {}
  /\ ~running => pc["service"] = "off"

(* The client works on a timer that it has, and frees no one-shot timer    *)
(* but in deinit.                                                          *)
ClientInv ==
  /\ pc["client"] \in {"start_lock", "start_arm", "start_mark", "stop", "stop_lock", "stop_join",
                       "free_lock", "free_relock", "all_relock"} => arg["client"] \in Timer
  /\ pc["client"] \in {"free_lock", "free_relock"} => ~oneshot[arg["client"]]
  /\ Stops("client") /\ ret["client"] # "all_relock" => ~oneshot[arg["client"]]

(* A one-shot timer that is being served is in the list, outside deinit. *)
ServiceInv ==
  /\ Stops("service") => ret["service"] = "free_relock"
  /\ Frees => /\ arg["service"] \in Timer /\ oneshot[arg["service"]]
              /\ arg["service"] \notin batch
              /\ InList(arg["service"]) \/ InDeinit
  /\ \A t \in batch : oneshot[t] => InList(t) \/ InDeinit
  /\ \A t \in polled : InList(t)

(* A timer whose stop joined the thread is not armed and nowhere ready. *)
JoinedInv ==
  /\ \A t \in Timer : joined[t] => ~armed[t] /\ t \notin ready /\ t \notin batch
  /\ pc["client"] \in {"stop_lock", "stop_join"} =>
       ~armed[arg["client"]] /\ arg["client"] \notin ready

TimerInv == Types /\ Places /\ LockInv /\ ClientInv /\ ServiceInv /\ JoinedInv
-----------------------------------------------------------------------------
(* Every step preserves the invariant.                                     *)
USE DEF TimerInv, Types, Places, LockInv, ClientInv, ServiceInv, JoinedInv, Stops, InDeinit, Frees,
        Caller, At, Goto, Return, Calls, infoVars, callVars, threadVars, ghostVars

(* One lemma for each action, with a step for each part of the invariant. *)
LEMMA AllocStep ==
  ASSUME TimerInv, NEW t \in Timer, NEW once \in OneShots, AllocTimer(t, once)
  PROVE  TimerInv'
<1>9. Places'
  BY DEF AllocTimer
<1>1. Types'
  BY ListGrows, TimerAssumption DEF AllocTimer
<1>2. LockInv'
  BY DEF AllocTimer
<1>3. ClientInv'
  BY DEF AllocTimer
<1>4. ServiceInv'
  BY ListGrows DEF AllocTimer
<1>5. JoinedInv'
  BY DEF AllocTimer
<1>. QED BY <1>9, <1>1, <1>2, <1>3, <1>4, <1>5

LEMMA StartCallStep ==
  ASSUME TimerInv, NEW t \in Timer, StartCall(t)
  PROVE  TimerInv'
<1>9. Places'
  BY DEF StartCall
<1>1. Types'
  BY DEF StartCall
<1>2. LockInv'
  BY DEF StartCall
<1>3. ClientInv'
  BY DEF StartCall
<1>4. ServiceInv'
  BY ListStays DEF StartCall
<1>5. JoinedInv'
  BY DEF StartCall
<1>. QED BY <1>9, <1>1, <1>2, <1>3, <1>4, <1>5

LEMMA StopCallStep ==
  ASSUME TimerInv, NEW t \in Timer, StopCall(t)
  PROVE  TimerInv'
<1>9. Places'
  BY DEF StopCall
<1>1. Types'
  BY DEF StopCall
<1>2. LockInv'
  BY DEF StopCall
<1>3. ClientInv'
  BY DEF StopCall
<1>4. ServiceInv'
  BY ListStays DEF StopCall
<1>5. JoinedInv'
  BY DEF StopCall
<1>. QED BY <1>9, <1>1, <1>2, <1>3, <1>4, <1>5

LEMMA FreeCallStep ==
  ASSUME TimerInv, NEW t \in Timer, FreeCall(t)
  PROVE  TimerInv'
<1>9. Places'
  BY DEF FreeCall
<1>1. Types'
  BY DEF FreeCall
<1>2. LockInv'
  BY DEF FreeCall
<1>3. ClientInv'
  BY DEF FreeCall
<1>4. ServiceInv'
  BY ListStays DEF FreeCall
<1>5. JoinedInv'
  BY DEF FreeCall
<1>. QED BY <1>9, <1>1, <1>2, <1>3, <1>4, <1>5

LEMMA ExpireStep ==
  ASSUME TimerInv, NEW t \in Timer, Expire(t)
  PROVE  TimerInv'
<1>9. Places'
  BY DEF Expire
<1>1. Types'
  BY DEF Expire
<1>2. LockInv'
  BY DEF Expire
<1>3. ClientInv'
  BY DEF Expire
<1>4. ServiceInv'
  BY ListStays DEF Expire
<1>5. JoinedInv'
  BY DEF Expire
<1>. QED BY <1>9, <1>1, <1>2, <1>3, <1>4, <1>5

LEMMA DispatchStep ==
  ASSUME TimerInv, NEW t \in Timer, Dispatch(t)
  PROVE  TimerInv'
<1>9. Places'
  BY DEF Dispatch
<1>1. Types'
  BY DEF Dispatch
<1>2. LockInv'
  BY DEF Dispatch
<1>3. ClientInv'
  BY DEF Dispatch
<1>4. ServiceInv'
  BY ListStays DEF Dispatch
<1>5. JoinedInv'
  BY DEF Dispatch
<1>. QED BY <1>9, <1>1, <1>2, <1>3, <1>4, <1>5

LEMMA StartLockStep ==
  ASSUME TimerInv, StartLock
  PROVE  TimerInv'
<1>9. Places'
  BY DEF StartLock
<1>1. Types'
  BY DEF StartLock
<1>2. LockInv'
  BY DEF StartLock
<1>3. ClientInv'
  BY DEF StartLock
<1>4. ServiceInv'
  BY ListStays DEF StartLock
<1>5. JoinedInv'
  BY DEF StartLock
<1>. QED BY <1>9, <1>1, <1>2, <1>3, <1>4, <1>5

LEMMA StartArmStep ==
  ASSUME TimerInv, StartArm
  PROVE  TimerInv'
<1>9. Places'
  BY DEF StartArm
<1>1. Types'
  BY DEF StartArm
<1>2. LockInv'
  BY DEF StartArm
<1>3. ClientInv'
  BY DEF StartArm
<1>4. ServiceInv'
  BY ListStays DEF StartArm
<1>5. JoinedInv'
  BY DEF StartArm
<1>. QED BY <1>9, <1>1, <1>2, <1>3, <1>4, <1>5

LEMMA StartMarkStep ==
  ASSUME TimerInv, StartMark
  PROVE  TimerInv'
<1>9. Places'
  BY DEF StartMark
<1>1. Types'
  <2>1. InList(arg["client"]) \in BOOLEAN
    BY DEF InList
  <2>. QED BY <2>1 DEF StartMark
<1>2. LockInv'
  BY DEF StartMark
<1>3. ClientInv'
  BY DEF StartMark
<1>4. ServiceInv'
  BY ListStays DEF StartMark
<1>5. JoinedInv'
  BY DEF StartMark
<1>. QED BY <1>9, <1>1, <1>2, <1>3, <1>4, <1>5

LEMMA StopJoinStep ==
  ASSUME TimerInv, StopJoin
  PROVE  TimerInv'
<1>9. Places'
  BY DEF StopJoin
<1>1. Types'
  BY DEF StopJoin
<1>2. LockInv'
  BY DEF StopJoin
<1>3. ClientInv'
  BY DEF StopJoin
<1>4. ServiceInv'
  BY ListStays DEF StopJoin
<1>5. JoinedInv'
  BY DEF StopJoin
<1>. QED BY <1>9, <1>1, <1>2, <1>3, <1>4, <1>5

LEMMA FreeAllRelockStep ==
  ASSUME TimerInv, FreeAllRelock
  PROVE  TimerInv'
<1>9. Places'
  BY DEF FreeAllRelock, Remove
<1>1. Types'
  BY ListShrinks DEF FreeAllRelock, Remove
<1>2. LockInv'
  BY DEF FreeAllRelock, Remove
<1>3. ClientInv'
  BY DEF FreeAllRelock, Remove
<1>4. ServiceInv'
  BY ListShrinks DEF FreeAllRelock, Remove
<1>5. JoinedInv'
  BY DEF FreeAllRelock, Remove
<1>. QED BY <1>9, <1>1, <1>2, <1>3, <1>4, <1>5

LEMMA TimerDeinitStopsStep ==
  ASSUME TimerInv, TimerDeinitStops
  PROVE  TimerInv'
<1>9. Places'
  BY DEF TimerDeinitStops
<1>1. Types'
  BY DEF TimerDeinitStops
<1>2. LockInv'
  BY DEF TimerDeinitStops
<1>3. ClientInv'
  BY DEF TimerDeinitStops
<1>4. ServiceInv'
  BY ListStays DEF TimerDeinitStops
<1>5. JoinedInv'
  BY DEF TimerDeinitStops
<1>. QED BY <1>9, <1>1, <1>2, <1>3, <1>4, <1>5

LEMMA DeinitJoinsStep ==
  ASSUME TimerInv, DeinitJoins
  PROVE  TimerInv'
<1>9. Places'
  BY DEF DeinitJoins
<1>1. Types'
  BY DEF DeinitJoins
<1>2. LockInv'
  BY DEF DeinitJoins
<1>3. ClientInv'
  BY DEF DeinitJoins
<1>4. ServiceInv'
  BY ListStays DEF DeinitJoins
<1>5. JoinedInv'
  BY DEF DeinitJoins
<1>. QED BY <1>9, <1>1, <1>2, <1>3, <1>4, <1>5

LEMMA InitManagerStep ==
  ASSUME TimerInv, InitManager
  PROVE  TimerInv'
<1>9. Places'
  BY DEF InitManager
<1>1. Types'
  BY DEF InitManager
<1>2. LockInv'
  BY DEF InitManager
<1>3. ClientInv'
  BY DEF InitManager
<1>4. ServiceInv'
  BY ListStays DEF InitManager
<1>5. JoinedInv'
  BY DEF InitManager
<1>. QED BY <1>9, <1>1, <1>2, <1>3, <1>4, <1>5

LEMMA DeinitManagerStep ==
  ASSUME TimerInv, DeinitManager
  PROVE  TimerInv'
<1>9. Places'
  BY DEF DeinitManager
<1>1. Types'
  BY DEF DeinitManager
<1>2. LockInv'
  BY DEF DeinitManager
<1>3. ClientInv'
  BY DEF DeinitManager
<1>4. ServiceInv'
  BY ListStays DEF DeinitManager
<1>5. JoinedInv'
  BY DEF DeinitManager
<1>. QED BY <1>9, <1>1, <1>2, <1>3, <1>4, <1>5

LEMMA WaitStep ==
  ASSUME TimerInv, Wait
  PROVE  TimerInv'
<1>9. Places'
  BY DEF Wait
<1>1. Types'
  BY DEF Wait
<1>2. LockInv'
  BY DEF Wait
<1>3. ClientInv'
  BY DEF Wait
<1>4. ServiceInv'
  BY ListStays DEF Wait
<1>5. JoinedInv'
  BY DEF Wait
<1>. QED BY <1>9, <1>1, <1>2, <1>3, <1>4, <1>5

LEMMA DispatchEndsStep ==
  ASSUME TimerInv, DispatchEnds
  PROVE  TimerInv'
<1>9. Places'
  BY DEF DispatchEnds
<1>1. Types'
  BY DEF DispatchEnds
<1>2. LockInv'
  BY DEF DispatchEnds
<1>3. ClientInv'
  BY DEF DispatchEnds
<1>4. ServiceInv'
  BY ListStays DEF DispatchEnds
<1>5. JoinedInv'
  BY DEF DispatchEnds
<1>. QED BY <1>9, <1>1, <1>2, <1>3, <1>4, <1>5

LEMMA ThreadEndsStep ==
  ASSUME TimerInv, ThreadEnds
  PROVE  TimerInv'
<1>9. Places'
  BY DEF ThreadEnds
<1>1. Types'
  BY DEF ThreadEnds
<1>2. LockInv'
  BY DEF ThreadEnds
<1>3. ClientInv'
  BY DEF ThreadEnds
<1>4. ServiceInv'
  BY ListStays DEF ThreadEnds
<1>5. JoinedInv'
  BY DEF ThreadEnds
<1>. QED BY <1>9, <1>1, <1>2, <1>3, <1>4, <1>5

LEMMA JoinSelfStep ==
  ASSUME TimerInv, JoinSelf
  PROVE  TimerInv'
<1>9. Places'
  BY DEF JoinSelf
<1>1. Types'
  BY DEF JoinSelf
<1>2. LockInv'
  BY DEF JoinSelf
<1>3. ClientInv'
  BY DEF JoinSelf
<1>4. ServiceInv'
  BY ListStays DEF JoinSelf
<1>5. JoinedInv'
  BY DEF JoinSelf
<1>. QED BY <1>9, <1>1, <1>2, <1>3, <1>4, <1>5

LEMMA FreeAllStep ==
  ASSUME TimerInv, FreeAll
  PROVE  TimerInv'
<1> DEFINE t == Head(list)
<1>0. t \in Timer
  BY DEF FreeAll
<1>6. ASSUME started[t] PROVE Types' /\ ServiceInv'
  <2>1. UNCHANGED list /\ (\A u \in Timer : InList(u)' <=> InList(u))
    BY <1>6, ListStays DEF FreeAll
  <2>2. Types'
    BY <1>0, <1>6, <2>1 DEF FreeAll
  <2>3. ServiceInv'
    BY <1>0, <1>6, <2>1 DEF FreeAll
  <2>. QED BY <2>2, <2>3
<1>7. ASSUME ~started[t] PROVE Types' /\ ServiceInv'
  <2>1. list' \in Seq(Timer) /\ \A u \in Timer : InList(u)' <=> (InList(u) /\ u # t)
    <3>1. list' = Without(list, {t})
      BY <1>7 DEF FreeAll, Remove
    <3>. QED BY <3>1, ListShrinks
  <2>2. Types'
    BY <1>0, <1>7, <2>1 DEF FreeAll, Remove
  <2>3. ServiceInv'
    BY <1>0, <1>7, <2>1 DEF FreeAll, Remove
  <2>. QED BY <2>2, <2>3
<1>9. Places'
  BY DEF FreeAll, Remove
<1>1. Types' /\ ServiceInv'
  BY <1>6, <1>7 DEF FreeAll
<1>2. LockInv'
  BY DEF FreeAll, Remove
<1>3. ClientInv'
  BY DEF FreeAll, Remove
<1>5. JoinedInv'
  BY DEF FreeAll, Remove
<1>. QED BY <1>9, <1>1, <1>2, <1>3, <1>5

LEMMA ClientStopTimerStep ==
  ASSUME TimerInv, StopTimer("client")
  PROVE  TimerInv'
<1>9. Places'
  BY DEF StopTimer
<1>1. Types'
  BY DEF StopTimer
<1>2. LockInv'
  BY DEF StopTimer
<1>3. ClientInv'
  BY DEF StopTimer
<1>4. ServiceInv'
  BY ListStays DEF StopTimer
<1>5. JoinedInv'
  BY DEF StopTimer
<1>. QED BY <1>9, <1>1, <1>2, <1>3, <1>4, <1>5

LEMMA ClientStopLockStep ==
  ASSUME TimerInv, StopLock("client")
  PROVE  TimerInv'
<1>9. Places'
  BY DEF StopLock
<1>1. Types'
  BY DEF StopLock
<1>2. LockInv'
  BY DEF StopLock
<1>3. ClientInv'
  BY DEF StopLock
<1>4. ServiceInv'
  BY ListStays DEF StopLock
<1>5. JoinedInv'
  BY DEF StopLock
<1>. QED BY <1>9, <1>1, <1>2, <1>3, <1>4, <1>5

LEMMA ClientFreeLockStep ==
  ASSUME TimerInv, FreeLock("client")
  PROVE  TimerInv'
<1>9. Places'
  BY DEF FreeLock, Remove
<1>1. Types'
  BY ListShrinks DEF FreeLock, Remove
<1>2. LockInv'
  BY DEF FreeLock, Remove
<1>3. ClientInv'
  BY DEF FreeLock, Remove
<1>4. ServiceInv'
  <2>1. CASE UNCHANGED list
    BY <2>1, ListStays DEF FreeLock, Remove
  <2>2. CASE list' # list
    <3>1. list' = Without(list, {arg["client"]})
      BY <2>2 DEF FreeLock, Remove
    <3>2. \A u \in Timer : InList(u)' <=> (InList(u) /\ u # arg["client"])
      BY <3>1, ListShrinks
    <3>. QED BY <2>2, <3>2 DEF FreeLock, Remove
  <2>. QED BY <2>1, <2>2
<1>5. JoinedInv'
  BY DEF FreeLock, Remove
<1>. QED BY <1>9, <1>1, <1>2, <1>3, <1>4, <1>5

LEMMA ClientFreeRelockStep ==
  ASSUME TimerInv, FreeRelock("client")
  PROVE  TimerInv'
<1>9. Places'
  BY DEF FreeRelock, Remove
<1>1. Types'
  BY ListShrinks DEF FreeRelock, Remove
<1>2. LockInv'
  BY DEF FreeRelock, Remove
<1>3. ClientInv'
  BY DEF FreeRelock, Remove
<1>4. ServiceInv'
  BY ListShrinks DEF FreeRelock, Remove
<1>5. JoinedInv'
  BY DEF FreeRelock, Remove
<1>. QED BY <1>9, <1>1, <1>2, <1>3, <1>4, <1>5

LEMMA ServiceStopTimerStep ==
  ASSUME TimerInv, StopTimer("service")
  PROVE  TimerInv'
<1>9. Places'
  BY DEF StopTimer
<1>1. Types'
  BY DEF StopTimer
<1>2. LockInv'
  BY DEF StopTimer
<1>3. ClientInv'
  BY DEF StopTimer
<1>4. ServiceInv'
  BY ListStays DEF StopTimer
<1>5. JoinedInv'
  <2>1. UNCHANGED <<joined, batch>> /\ arg' = arg /\ pc'["client"] = pc["client"]
    BY DEF StopTimer
  <2>2. ready' \subseteq ready
    BY DEF StopTimer
  <2>3. \A t \in Timer : armed'[t] => armed[t]
    BY DEF StopTimer
  <2>. QED BY <2>1, <2>2, <2>3
<1>. QED BY <1>9, <1>1, <1>2, <1>3, <1>4, <1>5

LEMMA ServiceStopLockStep ==
  ASSUME TimerInv, StopLock("service")
  PROVE  TimerInv'
<1>9. Places'
  BY DEF StopLock
<1>1. Types'
  BY DEF StopLock
<1>2. LockInv'
  BY DEF StopLock
<1>3. ClientInv'
  BY DEF StopLock
<1>4. ServiceInv'
  BY ListStays DEF StopLock
<1>5. JoinedInv'
  BY DEF StopLock
<1>. QED BY <1>9, <1>1, <1>2, <1>3, <1>4, <1>5

LEMMA ServiceFreeLockStep ==
  ASSUME TimerInv, FreeLock("service")
  PROVE  TimerInv'
<1>9. Places'
  BY DEF FreeLock, Remove
<1>1. Types'
  BY ListShrinks DEF FreeLock, Remove
<1>2. LockInv'
  BY DEF FreeLock, Remove
<1>3. ClientInv'
  BY DEF FreeLock, Remove
<1>4. ServiceInv'
  <2>1. CASE UNCHANGED list
    BY <2>1, ListStays DEF FreeLock, Remove
  <2>2. CASE list' # list
    <3>1. list' = Without(list, {arg["service"]})
      BY <2>2 DEF FreeLock, Remove
    <3>2. \A u \in Timer : InList(u)' <=> (InList(u) /\ u # arg["service"])
      BY <3>1, ListShrinks
    <3>. QED BY <2>2, <3>2 DEF FreeLock, Remove
  <2>. QED BY <2>1, <2>2
<1>5. JoinedInv'
  BY DEF FreeLock, Remove
<1>. QED BY <1>9, <1>1, <1>2, <1>3, <1>4, <1>5

LEMMA ServiceFreeRelockStep ==
  ASSUME TimerInv, FreeRelock("service")
  PROVE  TimerInv'
<1>9. Places'
  BY DEF FreeRelock, Remove
<1>1. Types'
  BY ListShrinks DEF FreeRelock, Remove
<1>2. LockInv'
  BY DEF FreeRelock, Remove
<1>3. ClientInv'
  BY DEF FreeRelock, Remove
<1>4. ServiceInv'
  BY ListShrinks DEF FreeRelock, Remove
<1>5. JoinedInv'
  BY DEF FreeRelock, Remove
<1>. QED BY <1>9, <1>1, <1>2, <1>3, <1>4, <1>5

LEMMA StaysStep ==
  ASSUME TimerInv, UNCHANGED timerVars
  PROVE  TimerInv'
<1>1. UNCHANGED <<list, oneshot, started, armed, joined, polled, ready, batch, lock, pc, arg, ret,
                  running, cancelled>>
  BY DEF timerVars
<1>2. ServiceInv'
  BY <1>1, ListStays
<1>. QED BY <1>1, <1>2

HIDE DEF TimerInv, Types, Places, LockInv, ClientInv, ServiceInv, JoinedInv, Stops, InDeinit, Frees

LEMMA TimerStep == TimerInv /\ [TimerNext]_timerVars => TimerInv'
<1> SUFFICES ASSUME TimerInv, [TimerNext]_timerVars PROVE TimerInv'
  OBVIOUS
<1>1. CASE ClientGoesOn
  BY <1>1, StartLockStep, StartArmStep, StartMarkStep, StopJoinStep, FreeAllStep, FreeAllRelockStep,
     TimerDeinitStopsStep, DeinitJoinsStep, ClientStopTimerStep, ClientStopLockStep,
     ClientFreeLockStep, ClientFreeRelockStep DEF ClientGoesOn, Procedures
<1>2. CASE ServiceThread
  BY <1>2, WaitStep, DispatchEndsStep, ThreadEndsStep, JoinSelfStep, DispatchStep,
     ServiceStopTimerStep, ServiceStopLockStep, ServiceFreeLockStep, ServiceFreeRelockStep
     DEF ServiceThread, Procedures
<1>3. CASE TimerNext /\ ~ClientGoesOn /\ ~ServiceThread
  BY <1>3, InitManagerStep, DeinitManagerStep, AllocStep, StartCallStep, StopCallStep,
     FreeCallStep, ExpireStep DEF TimerNext
<1>. QED BY <1>1, <1>2, <1>3, StaysStep

LEMMA TimerInvInit == TimerInit => TimerInv
<1> SUFFICES ASSUME TimerInit PROVE TimerInv
  OBVIOUS
<1> USE DEF TimerInit
<1>1. <<>> \in Seq(Timer)
  OBVIOUS
<1>2. Types
  BY <1>1 DEF Types
<1>3. LockInv /\ ClientInv
  BY DEF LockInv, ClientInv, Stops
<1>4. ServiceInv /\ JoinedInv
  BY DEF ServiceInv, JoinedInv, Stops, Frees
<1>5. Places
  BY DEF Places
<1>. QED BY <1>2, <1>3, <1>4, <1>5 DEF TimerInv

LEMMA TimerAlways == TimerSpec => []TimerInv
BY TimerInvInit, TimerStep, PTL DEF TimerSpec

-----------------------------------------------------------------------------
(* A client that pairs its calls.                                          *)

(* The timer is between its calls: the client's next call is on it, or the *)
(* client or the service thread is in a call on it.                        *)
Busy(t) ==
  \/ due \in {<<"start", t>>, <<"free", t>>}
  \/ /\ Stops("client") \/ pc["client"] \in {"free_lock", "free_relock", "all_relock"}
     /\ arg["client"] = t
  \/ Frees /\ arg["service"] = t

(* The timer is armed and not marked as started yet: a one-shot timer may  *)
(* be served, and freed, by then.                                          *)
Starting(t) == pc["client"] = "start_mark" /\ arg["client"] = t

(* No timer is in the list twice. *)
Distinct == \A i, j \in 1 .. Len(list) : list[i] = list[j] => i = j

(* The list holds each timer that is started, and besides those only       *)
(* timers between their calls.                                             *)
ListHolds ==
  /\ Distinct
  /\ \A t \in Timer : /\ armed[t] => started[t] \/ Starting(t)
                      /\ started[t] => InList(t)
  /\ \A t \in batch \ dangling : InList(t)
  /\ \A t \in Timer : InList(t) => started[t] \/ Busy(t)

(* The call that is due agrees with the call the client is in. *)
DueInv ==
  /\ due \in ({"start", "free"} \X Timer) \cup {<<"any", NoTimer>>}
  /\ pc["client"] \in {"start_lock", "start_arm", "start_mark"} => due = <<"start", arg["client"]>>
  /\ pc["client"] \in {"free_lock", "free_relock", "all", "all_relock", "deinit_join"} =>
       due = <<"any", NoTimer>>
  /\ Stops("client") => due = IF ret["client"] = "idle" THEN <<"free", arg["client"]>>
                              ELSE <<"any", NoTimer>>

(* A timer that is allocated and not armed yet is nobody else's. *)
FreshInv ==
  \A t \in Timer : due = <<"start", t>> /\ ~Starting(t) =>
    /\ InList(t) /\ ~started[t] /\ ~armed[t]
    /\ t \notin ready /\ t \notin batch \ dangling
    /\ Frees => arg["service"] # t

(* The client's timer is in the list until the client frees it. *)
FreedInv ==
  /\ pc["client"] \in {"free_lock", "free_relock"} => InList(arg["client"])
  /\ Stops("client") /\ ret["client"] # "all_relock" => InList(arg["client"])
  /\ pc["client"] \in {"stop_lock", "stop_join", "free_relock"} => ~started[arg["client"]]

(* Outside deinit the thread runs while a timer is started. *)
RunsInv ==
  /\ cancelled => pc["client"] \in {"stop_join", "deinit_join"}
  /\ running /\ pc["service"] = "off" => cancelled
  /\ pc["client"] \in {"start_arm", "start_mark"} => running
  /\ pc["client"] = "stop_join" /\ ~InDeinit => Len(list) = 1
  /\ pc["client"] = "deinit_join" => list = <<>>
  /\ running \/ InDeinit \/ \A t \in Timer : ~started[t]

PairInv == ListHolds /\ DueInv /\ FreshInv /\ FreedInv /\ RunsInv

PairedInv == Paired => LockLost \/ stale \/ PairInv

(* The client pairs its calls and nothing is lost yet. *)
Sound == Paired /\ TimerInv /\ ~LockLost /\ ~stale

LEMMA GrowsDistinct ==
  ASSUME list \in Seq(Timer), Distinct, NEW t \in Timer, ~InList(t), list' = Append(list, t)
  PROVE  Distinct'
<1>1. list' \in Seq(Timer) /\ Len(list') = Len(list) + 1 /\ Len(list) \in Nat
  OBVIOUS
<1>2. list'[Len(list) + 1] = t /\ \A k \in 1 .. Len(list) : list'[k] = list[k]
  OBVIOUS
<1>3. \A k \in 1 .. Len(list') : k = Len(list) + 1 \/ k \in 1 .. Len(list)
  BY <1>1
<1>4. \A k \in 1 .. Len(list) : list[k] # t
  BY DEF InList
<1>. QED BY <1>1, <1>2, <1>3, <1>4 DEF Distinct

LEMMA ShrinksDistinct ==
  ASSUME list \in Seq(Timer), Distinct, NEW t, list' = Without(list, {t})
  PROVE  Distinct'
<1>1. PICK h : Picks(h, list', list, {t}, Len(list))
  BY WithoutPicks
<1>2. list' \in Seq(Timer)
  BY WithoutPicks
<1>3. ASSUME NEW j \in 1 .. Len(list'), NEW k \in 1 .. Len(list'), list'[j] = list'[k], j < k PROVE FALSE
  <2>1. h[j] \in 1 .. Len(list) /\ h[k] \in 1 .. Len(list) /\ h[j] < h[k]
    BY <1>1, <1>3 DEF Picks
  <2>2. list[h[j]] = list[h[k]]
    BY <1>1, <1>3 DEF Picks
  <2>. QED BY <2>1, <2>2 DEF Distinct
<1>4. \A j, k \in 1 .. Len(list') : j < k \/ k < j \/ j = k
  BY <1>2
<1>. QED BY <1>3, <1>4 DEF Distinct

(* A list that holds one timer only, and once, has one entry. *)
LEMMA OneTimerLeft ==
  ASSUME list \in Seq(Timer), Distinct, NEW t \in Timer, InList(t), \A u \in Timer : InList(u) => u = t
  PROVE  Len(list) = 1
<1>1. Len(list) \in Nat /\ Len(list) # 0
  BY DEF InList
<1>2. ASSUME Len(list) > 1 PROVE FALSE
  <2>1. 1 \in 1 .. Len(list) /\ 2 \in 1 .. Len(list)
    BY <1>1, <1>2
  <2>2. list[1] = t /\ list[2] = t
    BY <2>1 DEF InList
  <2>. QED BY <2>1, <2>2 DEF Distinct
<1>. QED BY <1>1, <1>2

LEMMA OneTimerOnly ==
  ASSUME NEW t, InList(t), Len(list) = 1, NEW u, InList(u)
  PROVE  u = t
BY DEF InList

USE DEF Sound, PairInv, ListHolds, DueInv, FreshInv, FreedInv, RunsInv, Busy, Starting, LockLost,
        TimerInv, Types, Places, LockInv, ClientInv, ServiceInv, Stops, InDeinit, Frees

(* One lemma for each action again, for the parts about paired calls. *)
LEMMA InitManagerPairs ==
  ASSUME Sound, Sound', PairInv, InitManager
  PROVE  PairInv'
<1>0. UNCHANGED list /\ (\A u \in Timer : InList(u)' <=> InList(u)) /\ Distinct'
  BY ListStays DEF InitManager, Distinct
<1>1. ListHolds'
  BY <1>0 DEF InitManager
<1>2. DueInv'
  BY <1>0 DEF InitManager
<1>3. FreshInv'
  BY <1>0 DEF InitManager
<1>4. FreedInv'
  BY <1>0 DEF InitManager
<1>5. RunsInv'
  BY <1>0 DEF InitManager
<1>. QED BY <1>1, <1>2, <1>3, <1>4, <1>5 DEF PairInv

LEMMA DeinitManagerPairs ==
  ASSUME Sound, Sound', PairInv, DeinitManager
  PROVE  PairInv'
<1>0. UNCHANGED list /\ (\A u \in Timer : InList(u)' <=> InList(u)) /\ Distinct'
  BY ListStays DEF DeinitManager, Distinct
<1>1. ListHolds'
  BY <1>0 DEF DeinitManager
<1>2. DueInv'
  BY <1>0 DEF DeinitManager
<1>3. FreshInv'
  BY <1>0 DEF DeinitManager
<1>4. FreedInv'
  BY <1>0 DEF DeinitManager
<1>5. RunsInv'
  BY <1>0 DEF DeinitManager
<1>. QED BY <1>1, <1>2, <1>3, <1>4, <1>5 DEF PairInv

LEMMA AllocTimerPairs ==
  ASSUME Sound, Sound', NEW t \in Timer, NEW once \in OneShots, PairInv, AllocTimer(t, once)
  PROVE  PairInv'
<1>0. (\A u \in Timer : InList(u)' <=> (InList(u) \/ u = t)) /\ Distinct'
  BY ListGrows, GrowsDistinct DEF AllocTimer
<1>1. ListHolds'
  BY <1>0 DEF AllocTimer
<1>2. DueInv'
  BY <1>0 DEF AllocTimer
<1>3. FreshInv'
  BY <1>0 DEF AllocTimer
<1>4. FreedInv'
  BY <1>0 DEF AllocTimer
<1>5. RunsInv'
  BY <1>0 DEF AllocTimer
<1>. QED BY <1>1, <1>2, <1>3, <1>4, <1>5 DEF PairInv

LEMMA StartCallPairs ==
  ASSUME Sound, Sound', NEW t \in Timer, PairInv, StartCall(t)
  PROVE  PairInv'
<1>0. UNCHANGED list /\ (\A u \in Timer : InList(u)' <=> InList(u)) /\ Distinct'
  BY ListStays DEF StartCall, Distinct
<1>1. ListHolds'
  BY <1>0 DEF StartCall
<1>2. DueInv'
  BY <1>0 DEF StartCall
<1>3. FreshInv'
  BY <1>0 DEF StartCall
<1>4. FreedInv'
  BY <1>0 DEF StartCall
<1>5. RunsInv'
  BY <1>0 DEF StartCall
<1>. QED BY <1>1, <1>2, <1>3, <1>4, <1>5 DEF PairInv

LEMMA StopCallPairs ==
  ASSUME Sound, Sound', NEW t \in Timer, PairInv, StopCall(t)
  PROVE  PairInv'
<1>0. UNCHANGED list /\ (\A u \in Timer : InList(u)' <=> InList(u)) /\ Distinct'
  BY ListStays DEF StopCall, Distinct
<1>1. ListHolds'
  BY <1>0 DEF StopCall
<1>2. DueInv'
  BY <1>0 DEF StopCall
<1>3. FreshInv'
  BY <1>0 DEF StopCall
<1>4. FreedInv'
  BY <1>0 DEF StopCall
<1>5. RunsInv'
  BY <1>0 DEF StopCall
<1>. QED BY <1>1, <1>2, <1>3, <1>4, <1>5 DEF PairInv

LEMMA FreeCallPairs ==
  ASSUME Sound, Sound', NEW t \in Timer, PairInv, FreeCall(t)
  PROVE  PairInv'
<1>0. UNCHANGED list /\ (\A u \in Timer : InList(u)' <=> InList(u)) /\ Distinct'
  BY ListStays DEF FreeCall, Distinct
<1>1. ListHolds'
  BY <1>0 DEF FreeCall
<1>2. DueInv'
  BY <1>0 DEF FreeCall
<1>3. FreshInv'
  BY <1>0 DEF FreeCall
<1>4. FreedInv'
  BY <1>0 DEF FreeCall
<1>5. RunsInv'
  BY <1>0 DEF FreeCall
<1>. QED BY <1>1, <1>2, <1>3, <1>4, <1>5 DEF PairInv

LEMMA ExpirePairs ==
  ASSUME Sound, Sound', NEW t \in Timer, PairInv, Expire(t)
  PROVE  PairInv'
<1>0. UNCHANGED list /\ (\A u \in Timer : InList(u)' <=> InList(u)) /\ Distinct'
  BY ListStays DEF Expire, Distinct
<1>1. ListHolds'
  BY <1>0 DEF Expire
<1>2. DueInv'
  BY <1>0 DEF Expire
<1>3. FreshInv'
  BY <1>0 DEF Expire
<1>4. FreedInv'
  BY <1>0 DEF Expire
<1>5. RunsInv'
  BY <1>0 DEF Expire
<1>. QED BY <1>1, <1>2, <1>3, <1>4, <1>5 DEF PairInv

LEMMA StartLockPairs ==
  ASSUME Sound, Sound', PairInv, StartLock
  PROVE  PairInv'
<1>0. UNCHANGED list /\ (\A u \in Timer : InList(u)' <=> InList(u)) /\ Distinct'
  BY ListStays DEF StartLock, Distinct
<1>1. ListHolds'
  BY <1>0 DEF StartLock
<1>2. DueInv'
  BY <1>0 DEF StartLock
<1>3. FreshInv'
  BY <1>0 DEF StartLock
<1>4. FreedInv'
  BY <1>0 DEF StartLock
<1>5. RunsInv'
  <2>1. CASE running
    BY <1>0, <2>1 DEF StartLock
  <2>2. CASE ~running
    <3>1. \A u \in Timer : InList(u) => u = arg["client"]
      BY <2>2 DEF StartLock
    <3>2. InList(arg["client"])
      BY DEF StartLock
    <3>3. arg["client"] \in Timer /\ list \in Seq(Timer) /\ Distinct
      BY DEF StartLock
    <3>4. Len(list) = 1
      BY <3>1, <3>2, <3>3, OneTimerLeft
    <3>. QED BY <1>0, <2>2, <3>4 DEF StartLock
  <2>. QED BY <2>1, <2>2
<1>. QED BY <1>1, <1>2, <1>3, <1>4, <1>5 DEF PairInv

LEMMA StartArmPairs ==
  ASSUME Sound, Sound', PairInv, StartArm
  PROVE  PairInv'
<1>0. UNCHANGED list /\ (\A u \in Timer : InList(u)' <=> InList(u)) /\ Distinct'
  BY ListStays DEF StartArm, Distinct
<1>1. ListHolds'
  BY <1>0 DEF StartArm
<1>2. DueInv'
  BY <1>0 DEF StartArm
<1>3. FreshInv'
  BY <1>0 DEF StartArm
<1>4. FreedInv'
  BY <1>0 DEF StartArm
<1>5. RunsInv'
  BY <1>0 DEF StartArm
<1>. QED BY <1>1, <1>2, <1>3, <1>4, <1>5 DEF PairInv

LEMMA StartMarkPairs ==
  ASSUME Sound, Sound', PairInv, StartMark
  PROVE  PairInv'
<1>0. UNCHANGED list /\ (\A u \in Timer : InList(u)' <=> InList(u)) /\ Distinct'
  BY ListStays DEF StartMark, Distinct
<1>1. ListHolds'
  BY <1>0 DEF StartMark
<1>2. DueInv'
  BY <1>0 DEF StartMark
<1>3. FreshInv'
  BY <1>0 DEF StartMark
<1>4. FreedInv'
  BY <1>0 DEF StartMark
<1>5. RunsInv'
  BY <1>0 DEF StartMark
<1>. QED BY <1>1, <1>2, <1>3, <1>4, <1>5 DEF PairInv

LEMMA StopJoinPairs ==
  ASSUME Sound, Sound', PairInv, StopJoin
  PROVE  PairInv'
<1>0. UNCHANGED list /\ (\A u \in Timer : InList(u)' <=> InList(u)) /\ Distinct'
  BY ListStays DEF StopJoin, Distinct
<1>1. ListHolds'
  BY <1>0 DEF StopJoin
<1>2. DueInv'
  BY <1>0 DEF StopJoin
<1>3. FreshInv'
  BY <1>0 DEF StopJoin
<1>4. FreedInv'
  BY <1>0 DEF StopJoin
<1>5. RunsInv'
  <2>1. CASE InDeinit
    BY <1>0, <2>1 DEF StopJoin
  <2>2. CASE ~InDeinit
    <3>1. InList(arg["client"]) /\ Len(list) = 1 /\ ~started[arg["client"]]
      BY <2>2 DEF StopJoin
    <3>2. \A t \in Timer : ~started[t]
      BY <3>1, OneTimerOnly
    <3>. QED BY <1>0, <2>2, <3>2 DEF StopJoin
  <2>. QED BY <2>1, <2>2
<1>. QED BY <1>1, <1>2, <1>3, <1>4, <1>5 DEF PairInv

LEMMA FreeAllPairs ==
  ASSUME Sound, Sound', PairInv, FreeAll
  PROVE  PairInv'
<1>0. (\A u \in Timer : InList(u)' <=> (InList(u) /\ (list' = list \/ u # Head(list)))) /\ Distinct'
  <2>1. CASE list' = list
    BY <2>1, ListStays DEF Distinct
  <2>2. CASE list' # list
    <3>1. list' = Without(list, {Head(list)})
      BY <2>2 DEF FreeAll, Remove
    <3>. QED BY <2>2, <3>1, ListShrinks, ShrinksDistinct
  <2>. QED BY <2>1, <2>2
<1>1. ListHolds'
  BY <1>0 DEF FreeAll, Remove
<1>2. DueInv'
  BY <1>0 DEF FreeAll, Remove
<1>3. FreshInv'
  BY <1>0 DEF FreeAll, Remove
<1>4. FreedInv'
  BY <1>0 DEF FreeAll, Remove
<1>5. RunsInv'
  BY <1>0 DEF FreeAll, Remove
<1>. QED BY <1>1, <1>2, <1>3, <1>4, <1>5 DEF PairInv

LEMMA FreeAllRelockPairs ==
  ASSUME Sound, Sound', PairInv, FreeAllRelock
  PROVE  PairInv'
<1>0. (\A u \in Timer : InList(u)' <=> (InList(u) /\ u # arg["client"])) /\ Distinct'
  BY ListShrinks, ShrinksDistinct DEF FreeAllRelock, Remove
<1>1. ListHolds'
  BY <1>0 DEF FreeAllRelock, Remove
<1>2. DueInv'
  BY <1>0 DEF FreeAllRelock, Remove
<1>3. FreshInv'
  BY <1>0 DEF FreeAllRelock, Remove
<1>4. FreedInv'
  BY <1>0 DEF FreeAllRelock, Remove
<1>5. RunsInv'
  BY <1>0 DEF FreeAllRelock, Remove
<1>. QED BY <1>1, <1>2, <1>3, <1>4, <1>5 DEF PairInv

LEMMA TimerDeinitStopsPairs ==
  ASSUME Sound, Sound', PairInv, TimerDeinitStops
  PROVE  PairInv'
<1>0. UNCHANGED list /\ (\A u \in Timer : InList(u)' <=> InList(u)) /\ Distinct'
  BY ListStays DEF TimerDeinitStops, Distinct
<1>1. ListHolds'
  BY <1>0 DEF TimerDeinitStops
<1>2. DueInv'
  BY <1>0 DEF TimerDeinitStops
<1>3. FreshInv'
  BY <1>0 DEF TimerDeinitStops
<1>4. FreedInv'
  BY <1>0 DEF TimerDeinitStops
<1>5. RunsInv'
  BY <1>0 DEF TimerDeinitStops
<1>. QED BY <1>1, <1>2, <1>3, <1>4, <1>5 DEF PairInv

LEMMA DeinitJoinsPairs ==
  ASSUME Sound, Sound', PairInv, DeinitJoins
  PROVE  PairInv'
<1>0. UNCHANGED list /\ (\A u \in Timer : InList(u)' <=> InList(u)) /\ Distinct'
  BY ListStays DEF DeinitJoins, Distinct
<1>1. ListHolds'
  BY <1>0 DEF DeinitJoins
<1>2. DueInv'
  BY <1>0 DEF DeinitJoins
<1>3. FreshInv'
  BY <1>0 DEF DeinitJoins
<1>4. FreedInv'
  BY <1>0 DEF DeinitJoins
<1>5. RunsInv'
  <2>1. \A t \in Timer : ~InList(t)
    BY DEF DeinitJoins, InList
  <2>. QED BY <1>0, <2>1 DEF DeinitJoins
<1>. QED BY <1>1, <1>2, <1>3, <1>4, <1>5 DEF PairInv

LEMMA WaitPairs ==
  ASSUME Sound, Sound', PairInv, Wait
  PROVE  PairInv'
<1>0. UNCHANGED list /\ (\A u \in Timer : InList(u)' <=> InList(u)) /\ Distinct'
  BY ListStays DEF Wait, Distinct
<1>1. ListHolds'
  BY <1>0 DEF Wait
<1>2. DueInv'
  BY <1>0 DEF Wait
<1>3. FreshInv'
  BY <1>0 DEF Wait
<1>4. FreedInv'
  BY <1>0 DEF Wait
<1>5. RunsInv'
  BY <1>0 DEF Wait
<1>. QED BY <1>1, <1>2, <1>3, <1>4, <1>5 DEF PairInv

LEMMA DispatchPairs ==
  ASSUME Sound, Sound', NEW t \in Timer, PairInv, Dispatch(t)
  PROVE  PairInv'
<1>0. UNCHANGED list /\ (\A u \in Timer : InList(u)' <=> InList(u)) /\ Distinct'
  BY ListStays DEF Dispatch, Distinct
<1>1. ListHolds'
  BY <1>0 DEF Dispatch
<1>2. DueInv'
  BY <1>0 DEF Dispatch
<1>3. FreshInv'
  BY <1>0 DEF Dispatch
<1>4. FreedInv'
  BY <1>0 DEF Dispatch
<1>5. RunsInv'
  BY <1>0 DEF Dispatch
<1>. QED BY <1>1, <1>2, <1>3, <1>4, <1>5 DEF PairInv

LEMMA DispatchEndsPairs ==
  ASSUME Sound, Sound', PairInv, DispatchEnds
  PROVE  PairInv'
<1>0. UNCHANGED list /\ (\A u \in Timer : InList(u)' <=> InList(u)) /\ Distinct'
  BY ListStays DEF DispatchEnds, Distinct
<1>1. ListHolds'
  BY <1>0 DEF DispatchEnds
<1>2. DueInv'
  BY <1>0 DEF DispatchEnds
<1>3. FreshInv'
  BY <1>0 DEF DispatchEnds
<1>4. FreedInv'
  BY <1>0 DEF DispatchEnds
<1>5. RunsInv'
  BY <1>0 DEF DispatchEnds
<1>. QED BY <1>1, <1>2, <1>3, <1>4, <1>5 DEF PairInv

LEMMA ThreadEndsPairs ==
  ASSUME Sound, Sound', PairInv, ThreadEnds
  PROVE  PairInv'
<1>0. UNCHANGED list /\ (\A u \in Timer : InList(u)' <=> InList(u)) /\ Distinct'
  BY ListStays DEF ThreadEnds, Distinct
<1>1. ListHolds'
  BY <1>0 DEF ThreadEnds
<1>2. DueInv'
  BY <1>0 DEF ThreadEnds
<1>3. FreshInv'
  BY <1>0 DEF ThreadEnds
<1>4. FreedInv'
  BY <1>0 DEF ThreadEnds
<1>5. RunsInv'
  BY <1>0 DEF ThreadEnds
<1>. QED BY <1>1, <1>2, <1>3, <1>4, <1>5 DEF PairInv

LEMMA JoinSelfPairs ==
  ASSUME Sound, Sound', PairInv, JoinSelf
  PROVE  PairInv'
<1>0. UNCHANGED list /\ (\A u \in Timer : InList(u)' <=> InList(u)) /\ Distinct'
  BY ListStays DEF JoinSelf, Distinct
<1>1. ListHolds'
  BY <1>0 DEF JoinSelf
<1>2. DueInv'
  BY <1>0 DEF JoinSelf
<1>3. FreshInv'
  BY <1>0 DEF JoinSelf
<1>4. FreedInv'
  BY <1>0 DEF JoinSelf
<1>5. RunsInv'
  BY <1>0 DEF JoinSelf
<1>. QED BY <1>1, <1>2, <1>3, <1>4, <1>5 DEF PairInv

LEMMA ClientStopTimerPairs ==
  ASSUME Sound, Sound', PairInv, StopTimer("client")
  PROVE  PairInv'
<1>0. UNCHANGED list /\ (\A u \in Timer : InList(u)' <=> InList(u)) /\ Distinct'
  BY ListStays DEF StopTimer, Distinct
<1>1. ListHolds'
  BY <1>0 DEF StopTimer
<1>2. DueInv'
  BY <1>0 DEF StopTimer
<1>3. FreshInv'
  BY <1>0 DEF StopTimer
<1>4. FreedInv'
  BY <1>0 DEF StopTimer
<1>5. RunsInv'
  BY <1>0 DEF StopTimer
<1>. QED BY <1>1, <1>2, <1>3, <1>4, <1>5 DEF PairInv

LEMMA ClientStopLockPairs ==
  ASSUME Sound, Sound', PairInv, StopLock("client")
  PROVE  PairInv'
<1>0. UNCHANGED list /\ (\A u \in Timer : InList(u)' <=> InList(u)) /\ Distinct'
  BY ListStays DEF StopLock, Distinct
<1>1. ListHolds'
  BY <1>0 DEF StopLock
<1>2. DueInv'
  BY <1>0 DEF StopLock
<1>3. FreshInv'
  BY <1>0 DEF StopLock
<1>4. FreedInv'
  BY <1>0 DEF StopLock
<1>5. RunsInv'
  BY <1>0 DEF StopLock
<1>. QED BY <1>1, <1>2, <1>3, <1>4, <1>5 DEF PairInv

LEMMA ClientFreeLockPairs ==
  ASSUME Sound, Sound', PairInv, FreeLock("client")
  PROVE  PairInv'
<1>7. CASE InList(arg["client"]) /\ ~started[arg["client"]]
  <2>1. /\ Remove(arg["client"]) /\ Return("client")
        /\ UNCHANGED <<ret, oneshot, batch, lock, next, threadVars, initCount, ghostVars>>
    BY <1>7 DEF FreeLock
  <2>2. (\A u \in Timer : InList(u)' <=> (InList(u) /\ u # arg["client"])) /\ Distinct'
    BY <2>1, ListShrinks, ShrinksDistinct DEF Remove
  <2>3. ListHolds'
    BY <1>7, <2>1, <2>2 DEF Remove, FreeLock
  <2>4. DueInv'
    BY <1>7, <2>1, <2>2 DEF Remove, FreeLock
  <2>5. FreshInv'
    BY <1>7, <2>1, <2>2 DEF Remove, FreeLock
  <2>6. FreedInv'
    BY <1>7, <2>1, <2>2 DEF Remove, FreeLock
  <2>7. RunsInv'
    BY <1>7, <2>1, <2>2 DEF Remove, FreeLock
  <2>. QED BY <2>3, <2>4, <2>5, <2>6, <2>7 DEF PairInv
<1>8. CASE ~(InList(arg["client"]) /\ ~started[arg["client"]])
  <2>1. UNCHANGED <<infoVars, batch, lock, next, threadVars, initCount, ghostVars>>
    BY <1>8 DEF FreeLock
  <2>2. (\A u \in Timer : InList(u)' <=> InList(u)) /\ Distinct'
    BY <2>1, ListStays DEF Distinct
  <2>3. ListHolds'
    BY <1>8, <2>1, <2>2 DEF FreeLock
  <2>4. DueInv'
    BY <1>8, <2>1, <2>2 DEF FreeLock
  <2>5. FreshInv'
    BY <1>8, <2>1, <2>2 DEF FreeLock
  <2>6. FreedInv'
    BY <1>8, <2>1, <2>2 DEF FreeLock
  <2>7. RunsInv'
    BY <1>8, <2>1, <2>2 DEF FreeLock
  <2>. QED BY <2>3, <2>4, <2>5, <2>6, <2>7 DEF PairInv
<1>. QED BY <1>7, <1>8

LEMMA ClientFreeRelockPairs ==
  ASSUME Sound, Sound', PairInv, FreeRelock("client")
  PROVE  PairInv'
<1>0. (\A u \in Timer : InList(u)' <=> (InList(u) /\ u # arg["client"])) /\ Distinct'
  BY ListShrinks, ShrinksDistinct DEF FreeRelock, Remove
<1>1. ListHolds'
  BY <1>0 DEF FreeRelock, Remove
<1>2. DueInv'
  BY <1>0 DEF FreeRelock, Remove
<1>3. FreshInv'
  BY <1>0 DEF FreeRelock, Remove
<1>4. FreedInv'
  BY <1>0 DEF FreeRelock, Remove
<1>5. RunsInv'
  BY <1>0 DEF FreeRelock, Remove
<1>. QED BY <1>1, <1>2, <1>3, <1>4, <1>5 DEF PairInv

LEMMA ServiceStopTimerPairs ==
  ASSUME Sound, Sound', PairInv, StopTimer("service")
  PROVE  PairInv'
<1>0. UNCHANGED list /\ (\A u \in Timer : InList(u)' <=> InList(u)) /\ Distinct'
  BY ListStays DEF StopTimer, Distinct
<1>1. ListHolds'
  BY <1>0 DEF StopTimer
<1>2. DueInv'
  BY <1>0 DEF StopTimer
<1>3. FreshInv'
  BY <1>0 DEF StopTimer
<1>4. FreedInv'
  BY <1>0 DEF StopTimer
<1>5. RunsInv'
  BY <1>0 DEF StopTimer
<1>. QED BY <1>1, <1>2, <1>3, <1>4, <1>5 DEF PairInv

LEMMA ServiceStopLockPairs ==
  ASSUME Sound, Sound', PairInv, StopLock("service")
  PROVE  PairInv'
<1>0. UNCHANGED list /\ (\A u \in Timer : InList(u)' <=> InList(u)) /\ Distinct'
  BY ListStays DEF StopLock, Distinct
<1>1. ListHolds'
  BY <1>0 DEF StopLock
<1>2. DueInv'
  BY <1>0 DEF StopLock
<1>3. FreshInv'
  BY <1>0 DEF StopLock
<1>4. FreedInv'
  BY <1>0 DEF StopLock
<1>5. RunsInv'
  BY <1>0 DEF StopLock
<1>. QED BY <1>1, <1>2, <1>3, <1>4, <1>5 DEF PairInv

LEMMA ServiceFreeLockPairs ==
  ASSUME Sound, Sound', PairInv, FreeLock("service")
  PROVE  PairInv'
<1>7. CASE InList(arg["service"]) /\ ~started[arg["service"]]
  <2>1. /\ Remove(arg["service"]) /\ Return("service")
        /\ UNCHANGED <<ret, oneshot, batch, lock, next, threadVars, initCount, ghostVars>>
    BY <1>7 DEF FreeLock
  <2>2. (\A u \in Timer : InList(u)' <=> (InList(u) /\ u # arg["service"])) /\ Distinct'
    BY <2>1, ListShrinks, ShrinksDistinct DEF Remove
  <2>3. ListHolds'
    BY <1>7, <2>1, <2>2 DEF Remove, FreeLock
  <2>4. DueInv'
    BY <1>7, <2>1, <2>2 DEF Remove, FreeLock
  <2>5. FreshInv'
    BY <1>7, <2>1, <2>2 DEF Remove, FreeLock
  <2>6. FreedInv'
    BY <1>7, <2>1, <2>2 DEF Remove, FreeLock
  <2>7. RunsInv'
    <3>1. lock = "free" /\ lock' = lock
      BY <1>7 DEF FreeLock
    <3>2. pc["client"] \notin {"deinit_join", "stop_join"}
      BY <1>7, <3>1 DEF InList
    <3>3. UNCHANGED <<running, cancelled>> /\ pc'["client"] = pc["client"]
      BY <2>1
    <3>4. pc'["service"] = "dispatch" /\ pc["service"] = "free_lock"
      BY <2>1 DEF FreeLock
    <3>5. \A t \in Timer : started'[t] => started[t]
      BY <2>1 DEF Remove
    <3>. QED BY <2>1, <3>1, <3>2, <3>3, <3>4, <3>5
  <2>. QED BY <2>3, <2>4, <2>5, <2>6, <2>7 DEF PairInv
<1>8. CASE ~(InList(arg["service"]) /\ ~started[arg["service"]])
  <2>1. UNCHANGED <<infoVars, batch, lock, next, threadVars, initCount, ghostVars>>
    BY <1>8 DEF FreeLock
  <2>2. (\A u \in Timer : InList(u)' <=> InList(u)) /\ Distinct'
    BY <2>1, ListStays DEF Distinct
  <2>3. ListHolds'
    <3>1. UNCHANGED <<list, armed, started, batch, dangling>>
      BY <2>1
    <3>2. \A t \in batch' \ dangling' : InList(t)'
      BY <2>2, <3>1
    <3>3. \A t \in Timer : InList(t)' => started'[t] \/ Busy(t)'
      <4>1. CASE InList(arg["service"]) /\ started[arg["service"]]
        BY <2>1, <2>2, <3>1, <4>1 DEF FreeLock
      <4>2. CASE ~InList(arg["service"])
        BY <2>1, <2>2, <3>1, <4>2 DEF FreeLock
      <4>. QED BY <1>8, <4>1, <4>2
    <3>4. pc'["client"] = pc["client"] /\ arg'["client"] = arg["client"]
      BY <1>8 DEF FreeLock
    <3>. QED BY <2>2, <3>1, <3>2, <3>3, <3>4
  <2>4. DueInv'
    BY <1>8, <2>1, <2>2 DEF FreeLock
  <2>5. FreshInv'
    BY <1>8, <2>1, <2>2 DEF FreeLock
  <2>6. FreedInv'
    BY <1>8, <2>1, <2>2 DEF FreeLock
  <2>7. RunsInv'
    BY <1>8, <2>1, <2>2 DEF FreeLock
  <2>. QED BY <2>3, <2>4, <2>5, <2>6, <2>7 DEF PairInv
<1>. QED BY <1>7, <1>8

LEMMA ServiceFreeRelockPairs ==
  ASSUME Sound, Sound', PairInv, FreeRelock("service")
  PROVE  PairInv'
<1>0. (\A u \in Timer : InList(u)' <=> (InList(u) /\ u # arg["service"])) /\ Distinct'
  BY ListShrinks, ShrinksDistinct DEF FreeRelock, Remove
<1>1. ListHolds'
  BY <1>0 DEF FreeRelock, Remove
<1>2. DueInv'
  BY <1>0 DEF FreeRelock, Remove
<1>3. FreshInv'
  BY <1>0 DEF FreeRelock, Remove
<1>4. FreedInv'
  BY <1>0 DEF FreeRelock, Remove
<1>5. RunsInv'
  <2>1. pc["client"] # "deinit_join"
    BY DEF FreeRelock, InList
  <2>2. CASE InDeinit
    BY <1>0, <2>1, <2>2 DEF FreeRelock, Remove
  <2>3. CASE ~InDeinit
    BY <1>0, <2>1, <2>3 DEF FreeRelock, Remove
  <2>. QED BY <2>2, <2>3
<1>. QED BY <1>1, <1>2, <1>3, <1>4, <1>5 DEF PairInv

HIDE DEF Sound, PairInv, ListHolds, DueInv, FreshInv, FreedInv, RunsInv, Busy, Starting, LockLost,
         TimerInv, Types, Places, LockInv, ClientInv, ServiceInv, Stops, InDeinit, Frees

(* Once list_lock is lost or a freed timer_info was used, it stays so. *)
LEMMA LostStays ==
  ASSUME TimerInv, LockLost, [TimerNext]_timerVars
  PROVE  LockLost'
<1> USE DEF LockLost, TimerInv, Places, LockInv, Goto, Caller
<1>1. CASE ClientGoesOn
  BY <1>1 DEF ClientGoesOn, Procedures, StartLock, StartArm, StartMark, StopJoin, StopTimer, StopLock, FreeLock, FreeRelock,
     FreeAll, FreeAllRelock, TimerDeinitStops, DeinitJoins, Return, callVars, threadVars
<1>2. CASE ServiceThread
  BY <1>2 DEF ServiceThread, Procedures, StopTimer, StopLock, FreeLock, FreeRelock, Wait, Dispatch,
     DispatchEnds, ThreadEnds, JoinSelf, callVars
<1>3. CASE TimerNext /\ ~ClientGoesOn /\ ~ServiceThread
  BY <1>3 DEF TimerNext, InitManager, DeinitManager, AllocTimer, StartCall, StopCall, FreeCall, Expire, Calls, callVars
<1>4. CASE UNCHANGED timerVars
  BY <1>4 DEF timerVars, callVars
<1>. QED BY <1>1, <1>2, <1>3, <1>4

LEMMA StaleStays ==
  ASSUME stale, [TimerNext]_timerVars
  PROVE  stale'
<1> USE DEF ghostVars
<1>1. CASE ClientGoesOn
  BY <1>1 DEF ClientGoesOn, Procedures, StartLock, StartArm, StartMark, StopJoin, StopTimer, StopLock, FreeLock, FreeRelock,
     FreeAll, FreeAllRelock, TimerDeinitStops, DeinitJoins
<1>2. CASE ServiceThread
  BY <1>2 DEF ServiceThread, Procedures, StopTimer, StopLock, FreeLock, FreeRelock, Wait, Dispatch,
     DispatchEnds, ThreadEnds, JoinSelf
<1>3. CASE TimerNext /\ ~ClientGoesOn /\ ~ServiceThread
  BY <1>3 DEF TimerNext, InitManager, DeinitManager, AllocTimer, StartCall, StopCall, FreeCall, Expire
<1>4. CASE UNCHANGED timerVars
  BY <1>4 DEF timerVars
<1>. QED BY <1>1, <1>2, <1>3, <1>4

LEMMA StaysPairs ==
  ASSUME PairInv, UNCHANGED timerVars
  PROVE  PairInv'
BY DEF PairInv, ListHolds, DueInv, FreshInv, FreedInv, RunsInv, Busy, Starting, Stops, InDeinit, Frees, Distinct,
       InList, timerVars, infoVars, callVars, threadVars, ghostVars

LEMMA PairStep ==
  ASSUME Sound, Sound', PairInv, [TimerNext]_timerVars
  PROVE  PairInv'
<1>1. CASE ClientGoesOn
  BY <1>1, StartLockPairs, StartArmPairs, StartMarkPairs, StopJoinPairs, FreeAllPairs, FreeAllRelockPairs,
     TimerDeinitStopsPairs, DeinitJoinsPairs, ClientStopTimerPairs, ClientStopLockPairs,
     ClientFreeLockPairs, ClientFreeRelockPairs DEF ClientGoesOn, Procedures
<1>2. CASE ServiceThread
  BY <1>2, WaitPairs, DispatchEndsPairs, ThreadEndsPairs, JoinSelfPairs, DispatchPairs,
     ServiceStopTimerPairs, ServiceStopLockPairs, ServiceFreeLockPairs, ServiceFreeRelockPairs
     DEF ServiceThread, Procedures
<1>3. CASE TimerNext /\ ~ClientGoesOn /\ ~ServiceThread
  BY <1>3, InitManagerPairs, DeinitManagerPairs, AllocTimerPairs, StartCallPairs, StopCallPairs,
     FreeCallPairs, ExpirePairs DEF TimerNext
<1>. QED BY <1>1, <1>2, <1>3, StaysPairs

LEMMA PairedInit == TimerInit => PairedInv
<1> SUFFICES ASSUME TimerInit PROVE PairInv
  BY DEF PairedInv
<1> USE DEF TimerInit, Stops, InDeinit, Frees, Busy
<1>1. ListHolds
  BY DEF ListHolds, Distinct, InList
<1>2. DueInv /\ FreedInv
  BY DEF DueInv, FreedInv
<1>3. FreshInv
  BY DEF FreshInv
<1>4. RunsInv
  BY DEF RunsInv
<1>. QED BY <1>1, <1>2, <1>3, <1>4 DEF PairInv

LEMMA PairedStep ==
  TimerInv /\ TimerInv' /\ PairedInv /\ [TimerNext]_timerVars => PairedInv'
<1> SUFFICES ASSUME TimerInv, TimerInv', PairedInv, [TimerNext]_timerVars, Paired, ~LockLost', ~stale'
             PROVE  PairInv'
  BY DEF PairedInv
<1>1. ~LockLost /\ ~stale
  BY LostStays, StaleStays
<1>2. Sound /\ Sound' /\ PairInv
  BY <1>1 DEF Sound, PairedInv
<1>. QED BY <1>2, PairStep

(* For any timers, of a client that follows alloc by start and stop by     *)
(* free: every started timer has a service thread that is not being ended, *)
(* unless list_lock is lost or a freed timer_info was used.                *)
THEOREM ServedAlways == ASSUME Paired PROVE TimerSpec => []Served
<1>1. TimerInv /\ PairedInv => Served
  BY DEF Served, PairedInv, PairInv, RunsInv, InDeinit, Stops
<1>2. TimerSpec => []PairedInv
  BY PairedInit, PairedStep, TimerAlways, PTL DEF TimerSpec
<1>. QED BY <1>1, <1>2, TimerAlways, PTL

(* For any timers and calls, paired or not: list_lock is left behind by a  *)
(* thread that has ended only when it joined itself, at the end of the     *)
(* last timer of the list, a one-shot timer that has expired.              *)
THEOREM LockLostByLastOneShotAlways == TimerSpec => []LockLostByLastOneShot
<1>1. TimerInv => LockLostByLastOneShot
  BY DEF TimerInv, LockInv, LockLostByLastOneShot, LockLost
<1>. QED BY <1>1, TimerAlways, PTL

(* For any timers and calls: a stop that ended the service thread is       *)
(* final, whatever had expired when it was called.                         *)
THEOREM JoinedStopIsFinalAlways == TimerSpec => JoinedStopIsFinal
<1>1. TimerInv /\ [TimerNext]_timerVars => [\A t \in Timer : Dispatch(t) => ~joined[t]]_timerVars
  <2> SUFFICES ASSUME TimerInv, NEW t \in Timer, Dispatch(t) PROVE ~joined[t]
    OBVIOUS
  <2>. QED BY DEF TimerInv, JoinedInv, Dispatch
<1>. QED BY <1>1, TimerAlways, PTL DEF TimerSpec, JoinedStopIsFinal

-----------------------------------------------------------------------------
(* The types that TimerInv lacks. *)
TimerRest ==
  /\ dangling \subseteq Timer /\ next \in Timer \cup {NoTimer} /\ initCount \in 0 .. MaxInits

(* Entries are freed only of the events under way, ninfo is in the list,   *)
(* and only an init counts up.                                             *)
LEMMA DanglingKept ==
  [TimerNext]_timerVars => dangling' \in {dangling, {}} \/ dangling' \subseteq dangling \cup batch
<1> USE DEF infoVars, callVars, threadVars, ghostVars
<1>1. ASSUME NEW p \in Caller, Procedures(p)
      PROVE  dangling' = dangling \/ dangling' \subseteq dangling \cup batch
  BY <1>1 DEF Procedures, StopTimer, StopLock, FreeLock, FreeRelock, Remove
<1>2. ASSUME ClientGoesOn PROVE dangling' = dangling \/ dangling' \subseteq dangling \cup batch
  <2>1. CASE Procedures("client")
    BY <1>1, <2>1 DEF Caller
  <2>2. CASE FreeAll \/ FreeAllRelock
    BY <2>2 DEF FreeAll, FreeAllRelock, Remove
  <2>3. CASE StartLock \/ StartArm \/ StartMark \/ StopJoin \/ TimerDeinitStops \/ DeinitJoins
    BY <2>3 DEF StartLock, StartArm, StartMark, StopJoin, TimerDeinitStops, DeinitJoins
  <2>. QED BY <1>2, <2>1, <2>2, <2>3 DEF ClientGoesOn
<1>3. ASSUME ServiceThread
      PROVE  dangling' \in {dangling, {}} \/ dangling' \subseteq dangling \cup batch
  <2>1. CASE Procedures("service")
    BY <1>1, <2>1 DEF Caller
  <2>2. CASE Wait \/ DispatchEnds \/ ThreadEnds \/ JoinSelf \/ \E t \in Timer : Dispatch(t)
    BY <2>2 DEF Wait, DispatchEnds, ThreadEnds, JoinSelf, Dispatch
  <2>. QED BY <1>3, <2>1, <2>2 DEF ServiceThread
<1>4. ASSUME NEW t \in Timer, StartCall(t) \/ StopCall(t) \/ FreeCall(t) \/ Expire(t)
      PROVE  dangling' = dangling
  BY <1>4 DEF StartCall, StopCall, FreeCall, Expire
<1>5. InitManager \/ DeinitManager \/ (\E t \in Timer, once \in OneShots : AllocTimer(t, once))
        \/ UNCHANGED timerVars
      => dangling' = dangling
  BY DEF InitManager, DeinitManager, AllocTimer, timerVars
<1>. QED BY <1>2, <1>3, <1>4, <1>5 DEF TimerNext

LEMMA NextKept ==
  ASSUME list \in Seq(Timer), next \in Timer \cup {NoTimer}, [TimerNext]_timerVars
  PROVE  next' \in Timer \cup {NoTimer}
<1> USE DEF infoVars, callVars, threadVars, ghostVars
<1>1. CASE FreeAll
  <2>1. list # <<>> /\ (next' = next \/ next' = IF Len(list) > 1 THEN list[2] ELSE NoTimer)
    BY <1>1 DEF FreeAll
  <2>2. Len(list) > 1 => list[2] \in Timer
    OBVIOUS
  <2>. QED BY <2>1, <2>2
<1>2. CASE ClientGoesOn /\ ~FreeAll
  BY <1>2 DEF ClientGoesOn, StartLock, StartArm, StartMark, StopJoin, Procedures, StopTimer, StopLock, FreeLock,
             FreeRelock, FreeAllRelock, TimerDeinitStops, DeinitJoins
<1>3. CASE ServiceThread
  BY <1>3 DEF ServiceThread, Wait, DispatchEnds, ThreadEnds, JoinSelf, Dispatch, Procedures, StopTimer,
             StopLock, FreeLock, FreeRelock
<1>4. ASSUME NEW t \in Timer, StartCall(t) \/ StopCall(t) \/ FreeCall(t) \/ Expire(t)
      PROVE  next' = next
  BY <1>4 DEF StartCall, StopCall, FreeCall, Expire
<1>5. InitManager \/ DeinitManager \/ (\E t \in Timer, once \in OneShots : AllocTimer(t, once))
        \/ UNCHANGED timerVars
      => next' = next
  BY DEF InitManager, DeinitManager, AllocTimer, timerVars
<1>. QED BY <1>1, <1>2, <1>3, <1>4, <1>5 DEF TimerNext

LEMMA InitCountKept ==
  ASSUME initCount \in 0 .. MaxInits, [TimerNext]_timerVars
  PROVE  initCount' \in 0 .. MaxInits
<1> USE DEF infoVars, callVars, threadVars, ghostVars
<1>1. \/ initCount' = initCount
      \/ initCount < MaxInits /\ initCount' = initCount + 1
      \/ initCount > 1 /\ initCount' = initCount - 1
      \/ initCount' = 0
  <2>1. ClientGoesOn => initCount' \in {initCount, 0}
    BY DEF ClientGoesOn, StartLock, StartArm, StartMark, StopJoin, Procedures, StopTimer, StopLock, FreeLock,
           FreeRelock, FreeAll, FreeAllRelock, TimerDeinitStops, DeinitJoins
  <2>2. ServiceThread => initCount' = initCount
    BY DEF ServiceThread, Wait, DispatchEnds, ThreadEnds, JoinSelf, Dispatch, Procedures, StopTimer,
           StopLock, FreeLock, FreeRelock
  <2>3. ASSUME NEW t \in Timer, StartCall(t) \/ StopCall(t) \/ FreeCall(t) \/ Expire(t)
        PROVE  initCount' = initCount
    BY <2>3 DEF StartCall, StopCall, FreeCall, Expire
  <2>4. (\E t \in Timer, once \in OneShots : AllocTimer(t, once)) \/ UNCHANGED timerVars
        => initCount' = initCount
    BY DEF AllocTimer, timerVars
  <2>5. /\ InitManager => initCount < MaxInits /\ initCount' = initCount + 1
        /\ DeinitManager => initCount' = initCount \/ (initCount > 1 /\ initCount' = initCount - 1)
    BY DEF InitManager, DeinitManager
  <2>. QED BY <2>1, <2>2, <2>3, <2>4, <2>5 DEF TimerNext
<1>. QED BY <1>1, TimerAssumption

(* Every variable of the timer manager keeps its type, whatever the client *)
(* calls: the entries that free_timer leaves behind among the events are   *)
(* timers, and ninfo is one or none.                                       *)
THEOREM TimerTypesAlways == TimerSpec => []TimerTypeOK
<1>1. TimerInit => TimerRest
  BY TimerAssumption DEF TimerInit, TimerRest
<1>2. TimerInv /\ TimerRest /\ [TimerNext]_timerVars => TimerRest'
  <2> SUFFICES ASSUME Types, TimerRest, [TimerNext]_timerVars PROVE TimerRest'
    BY DEF TimerInv
  <2>1. dangling' \subseteq Timer
    BY DanglingKept DEF TimerRest, Types
  <2>2. next' \in Timer \cup {NoTimer}
    BY NextKept DEF TimerRest, Types
  <2>3. initCount' \in 0 .. MaxInits
    BY InitCountKept DEF TimerRest
  <2>. QED BY <2>1, <2>2, <2>3 DEF TimerRest
<1>3. ASSUME TimerInv, TimerRest PROVE TimerTypeOK
  <2>1. /\ lock \in Caller \cup {"free"} /\ arg \in [Caller -> Timer \cup {NoTimer}]
        /\ pc["client"] \in At /\ pc["client"] \notin {"off", "wait", "dispatch"}
        /\ pc["service"] \in {"off", "wait", "dispatch", "free_lock", "free_relock", "stop",
                              "stop_lock", "stop_join"}
    BY <1>3 DEF TimerInv, Places, Caller
  <2>2. pc["client"] \in {"idle", "start_lock", "start_arm", "start_mark", "stop", "stop_lock", "stop_join",
                         "free_lock", "free_relock", "all", "all_relock", "deinit_join"}
    BY <2>1 DEF At
  <2>3. Types
    BY <1>3 DEF TimerInv
  <2>. QED BY <1>3, <2>1, <2>2, <2>3 DEF Types, TimerRest, TimerTypeOK
<1>. QED BY <1>1, <1>2, <1>3, TimerAlways, PTL DEF TimerSpec
=============================================================================
