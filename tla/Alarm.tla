------------------------------- MODULE Alarm --------------------------------
(***************************************************************************)
(* alarm/alarm_manager.c: the alarm list, the /dev/alarm device that is    *)
(* armed for its first entry, the service thread that waits for the device *)
(* and calls the listeners of the alarms that are due, and the counted     *)
(* init/start/stop/deinit of the clients that share the manager.           *)
(*                                                                         *)
(* Each section under alarms_lock is one action.  start and stop hold      *)
(* start_lock throughout and deinit holds init_lock throughout; a stop that*)
(* ends the thread is three steps: set the wake-up alarm, pthread_cancel,  *)
(* pthread_join.  Time is counted in steps; the 100 ms of stop is          *)
(* StopDelay.  An open, an ioctl or a calloc that fails is not modelled.   *)
(***************************************************************************)
EXTENDS Lists, FiniteSets

CONSTANTS Listener,     (* the clients' listeners                          *)
          Dummy,        (* dummy_listener                                  *)
          NoTime,       (* the device is not armed                         *)
          MaxTime,      (* bound: the last instant                         *)
          StopDelay,    (* how far ahead stop sets its wake-up alarm       *)
          MaxClients,   (* bound: clients that hold an init                *)
          MaxSets,      (* bound: calls of set                             *)
          MaxSessions   (* bound: service threads started                  *)

ASSUME AlarmAssumption ==
  /\ Dummy \notin Listener
  /\ MaxTime \in Nat /\ StopDelay \in Nat \ {0} /\ NoTime \notin Nat
  /\ MaxClients \in Nat /\ MaxSets \in Nat /\ MaxSessions \in Nat

VARIABLES
  now,         (* the device's clock                                       *)
  list,        (* alarm_list                                               *)
  trigger,     (* trigger_list from the entry being called on              *)
  armed,       (* the instant /dev/alarm is set to, or NoTime              *)
  pending,     (* the device went off and nobody has waited for it yet     *)
  pc,          (* the service thread                                       *)
  cancelled,   (* pthread_cancel was called on it                          *)
  initCount, startCount,
  stopper,     (* where a stop that ends the thread is                     *)
  closing,     (* that stop was called by deinit                           *)
  sets, sessions,
  fresh,       (* no service thread has ended, the device was not closed   *)
  prompt       (* every stop reached pthread_cancel before its wake-up     *)
               (* alarm was due                                            *)

devVars    == <<armed, pending>>
countVars  == <<initCount, startCount, closing>>
boundVars  == <<sets, sessions, fresh, prompt>>
threadVars == <<pc, cancelled, trigger>>
vars == <<now, list, devVars, threadVars, countVars, stopper, boundVars>>

Time == 0 .. MaxTime
AlarmRec == [when : Time, listener : Listener \cup {Dummy}]

(* The descriptor is open from the first init to the end of the last       *)
(* deinit.                                                                 *)
DevOpen == initCount > 0 \/ closing

Init ==
  /\ now = 0
  /\ list = <<>>
  /\ trigger = <<>>
  /\ armed = NoTime
  /\ pending = FALSE
  /\ pc = "off"
  /\ cancelled = FALSE
  /\ initCount = 0
  /\ startCount = 0
  /\ stopper = "idle"
  /\ closing = FALSE
  /\ sets = 0
  /\ sessions = 0
  /\ fresh = TRUE
  /\ prompt = TRUE

-----------------------------------------------------------------------------
(* The alarm list.                                                         *)

(* remove_alarm_locked *)
Remove(l, listener) == Without(l, {a \in AlarmRec : a.listener = listener})

(* add_alarm_locked: appended, then bubbled towards the front past every   *)
(* entry that is strictly later.                                           *)
Insert(l, a) ==
  LET k == Cardinality({i \in 1 .. Len(l) : \A j \in 1 .. i : l[j].when <= a.when})
  IN  SubSeq(l, 1, k) \o <<a>> \o SubSeq(l, k + 1, Len(l))

(* Its result: the index, from 0, of the first entry with that time. *)
IndexOf(l, when) ==
  Cardinality({i \in 1 .. Len(l) : \A j \in 1 .. i : l[j].when # when})

(* Mutant: the device is armed only for the first alarm of all. *)
SetRepeatArmsOnce(when, listener) ==
  LET a == [when |-> when, listener |-> listener]
      l == Insert(Remove(list, listener), a)
  IN  /\ list' = l
      /\ armed' = IF list = <<>> THEN when ELSE armed

(* set_repeat: replace the listener's alarm; arm the device if it is first.*)
SetRepeat(when, listener) ==
  LET a == [when |-> when, listener |-> listener]
      l == Insert(Remove(list, listener), a)
  IN  /\ list' = l
      /\ armed' = IF IndexOf(l, when) = 0 THEN when ELSE armed

Set(when, listener) ==
  /\ DevOpen
  /\ sets < MaxSets
  /\ sets' = sets + 1
  /\ SetRepeat(when, listener)
  /\ UNCHANGED <<now, pending, threadVars, countVars, stopper, sessions, fresh, prompt>>

(* cancel removes the alarm and leaves the device as it is. *)
Cancel(listener) ==
  /\ DevOpen
  /\ list' = Remove(list, listener)
  /\ UNCHANGED <<now, devVars, threadVars, countVars, stopper, boundVars>>

-----------------------------------------------------------------------------
(* The device.                                                             *)

Tick ==
  /\ now < MaxTime
  /\ now' = now + 1
  /\ prompt' = (prompt /\ ~(stopper = "set" /\ \E i \in 1 .. Len(list) :
                              list[i].listener = Dummy /\ list[i].when <= now'))
  /\ UNCHANGED <<list, devVars, threadVars, countVars, stopper, sets, sessions, fresh>>

GoOff ==
  /\ armed # NoTime
  /\ armed <= now
  /\ armed' = NoTime
  /\ pending' = TRUE
  /\ UNCHANGED <<now, list, threadVars, countVars, stopper, boundVars>>

-----------------------------------------------------------------------------
(* thread_loop                                                             *)

(* pthread_testcancel at the loop's top *)
LoopTop ==
  /\ pc = "top"
  /\ pc' = IF cancelled THEN "exited" ELSE "wait"
  /\ fresh' = (fresh /\ ~cancelled)
  /\ UNCHANGED <<now, list, trigger, devVars, cancelled, countVars, stopper, sets, sessions, prompt>>

(* ioctl(fd, ANDROID_ALARM_WAIT) returns; it is no cancellation point. *)
WaitForAlarm ==
  /\ pc = "wait"
  /\ pending
  /\ pending' = FALSE
  /\ pc' = "woke"
  /\ UNCHANGED <<now, list, trigger, armed, cancelled, countVars, stopper, boundVars>>

(* pthread_testcancel after the wait: the thread ends and triggers nothing.*)
CancelledAwake ==
  /\ pc = "woke"
  /\ cancelled
  /\ pc' = "exited"
  /\ fresh' = FALSE
  /\ UNCHANGED <<now, list, trigger, devVars, cancelled, countVars, stopper, sets, sessions, prompt>>

(* Mutant: the device is not armed again. *)
TriggerAlarmOnce ==
  /\ pc = "woke"
  /\ ~cancelled
  /\ LET k == Cardinality({i \in 1 .. Len(list) : \A j \in 1 .. i : list[j].when <= now})
     IN  /\ trigger' = SubSeq(list, 1, k)
         /\ list' = SubSeq(list, k + 1, Len(list))
  /\ pc' = IF trigger' = <<>> THEN "top" ELSE "call"
  /\ UNCHANGED <<now, devVars, cancelled, countVars, stopper, boundVars>>

(* trigger_alarm_locked: move what is due to trigger_list, arm the device  *)
(* for the first of the rest; the first listener is then called.           *)
TriggerAlarm ==
  /\ pc = "woke"
  /\ ~cancelled
  /\ LET k == Cardinality({i \in 1 .. Len(list) : \A j \in 1 .. i : list[j].when <= now})
     IN  /\ trigger' = SubSeq(list, 1, k)
         /\ list' = SubSeq(list, k + 1, Len(list))
  /\ armed' = IF list' = <<>> THEN armed ELSE list'[1].when
  /\ pc' = IF trigger' = <<>> THEN "top" ELSE "call"
  /\ UNCHANGED <<now, pending, cancelled, countVars, stopper, boundVars>>

(* A listener, called without alarms_lock, returns; on to the next. *)
ListenerReturns ==
  /\ pc = "call"
  /\ trigger' = Tail(trigger)
  /\ pc' = IF trigger' = <<>> THEN "top" ELSE "call"
  /\ UNCHANGED <<now, list, devVars, cancelled, countVars, stopper, boundVars>>

(* A listener passes a cancellation point; the rest are never called. *)
ListenerCancelled ==
  /\ pc = "call"
  /\ cancelled
  /\ pc' = "exited"
  /\ fresh' = FALSE
  /\ UNCHANGED <<now, list, trigger, devVars, cancelled, countVars, stopper, sets, sessions, prompt>>

ThreadLoop ==
  \/ LoopTop \/ WaitForAlarm \/ CancelledAwake \/ TriggerAlarm
  \/ ListenerReturns

-----------------------------------------------------------------------------
(* init, start, stop, deinit.                                              *)

(* init: the first caller opens the device and makes the thread object. *)
InitManager ==
  /\ ~closing
  /\ initCount < MaxClients
  /\ initCount' = initCount + 1
  /\ UNCHANGED <<now, list, devVars, threadVars, startCount, closing, stopper, boundVars>>

(* start: each client that has called init starts at most once. *)
StartManager ==
  /\ stopper = "idle"
  /\ startCount < initCount
  /\ startCount = 0 => sessions < MaxSessions
  /\ startCount' = startCount + 1
  /\ IF startCount = 0
     THEN pc' = "top" /\ cancelled' = FALSE /\ sessions' = sessions + 1
     ELSE UNCHANGED <<pc, cancelled, sessions>>
  /\ UNCHANGED <<now, list, trigger, devVars, initCount, closing, stopper, sets, fresh, prompt>>

(* Mutant: no wake-up alarm. *)
StopBodyNoWakeup ==
  /\ startCount' = startCount - 1
  /\ IF startCount = 1 THEN stopper' = "set" ELSE UNCHANGED stopper
  /\ UNCHANGED <<now, list, devVars, threadVars, boundVars>>

(* The body of stop, under start_lock: "For wakeup ANDROID_ALARM_WAIT" the *)
(* last stop sets an alarm for dummy_listener before it ends the thread.   *)
StopBody ==
  /\ startCount' = startCount - 1
  /\ IF startCount = 1
     THEN /\ now + StopDelay <= MaxTime
          /\ SetRepeat(now + StopDelay, Dummy)
          /\ stopper' = "set"
     ELSE UNCHANGED <<list, armed, stopper>>
  /\ UNCHANGED <<now, pending, threadVars, boundVars>>

StopManager ==
  /\ stopper = "idle"
  /\ startCount > 0
  /\ StopBody
  /\ UNCHANGED <<initCount, closing>>

(* thread->stop: pthread_cancel ... *)
StopCancels ==
  /\ stopper = "set"
  /\ cancelled' = TRUE
  /\ stopper' = "join"
  /\ UNCHANGED <<now, list, devVars, pc, trigger, countVars, boundVars>>

(* close(fd) drops what the device was set to. *)
CloseDev == armed' = NoTime /\ pending' = FALSE /\ fresh' = FALSE

(* ... pthread_join; if deinit called stop, it then closes the device. *)
StopJoins ==
  /\ stopper = "join"
  /\ pc = "exited"
  /\ pc' = "off"
  /\ stopper' = "idle"
  /\ closing' = FALSE
  /\ IF closing THEN CloseDev ELSE UNCHANGED <<devVars, fresh>>
  /\ UNCHANGED <<now, list, trigger, cancelled, initCount, startCount, sets, sessions, prompt>>

(* Mutant: the last deinit closes the device without stopping the thread.  *)
DeinitNoStop ==
  /\ ~closing
  /\ initCount > startCount \/ initCount = 1
  /\ initCount' = initCount - 1
  /\ IF initCount = 1 THEN CloseDev ELSE UNCHANGED <<devVars, fresh>>
  /\ UNCHANGED <<now, list, threadVars, startCount, closing, stopper, sets, sessions, prompt>>

(* deinit: by a client that has stopped, or by the last one in any case.   *)
(* The last one stops the thread if it runs, and closes the device; is_start *)
(* makes it wait for a stop that is under way.                             *)
DeinitManager ==
  /\ ~closing
  /\ initCount > startCount \/ initCount = 1
  /\ initCount' = initCount - 1
  /\ \/ /\ initCount > 1
        /\ UNCHANGED <<now, list, devVars, threadVars, startCount, closing, stopper, boundVars>>
     \/ /\ initCount = 1
        /\ stopper = "idle"
        /\ pc = "off"
        /\ CloseDev
        /\ UNCHANGED <<now, list, threadVars, startCount, closing, stopper, sets, sessions, prompt>>
     \/ /\ initCount = 1
        /\ stopper = "idle"
        /\ pc # "off"
        /\ closing' = TRUE
        /\ StopBody

Next ==
  \/ \E l \in Listener, t \in Time : Set(t, l)
  \/ \E l \in Listener : Cancel(l)
  \/ Tick \/ GoOff
  \/ ThreadLoop \/ ListenerCancelled
  \/ InitManager \/ StartManager \/ StopManager \/ DeinitManager
  \/ StopCancels \/ StopJoins

Spec == Init /\ [][Next]_vars

(* Time passes, the device goes off when due, the service thread is        *)
(* scheduled and its listeners return, and a stop that has begun goes on.  *)
Fairness ==
  /\ WF_vars(Tick)
  /\ WF_vars(GoOff)
  /\ WF_vars(ThreadLoop)
  /\ WF_vars(StopCancels)
  /\ WF_vars(StopJoins)

FairSpec == Spec /\ Fairness
-----------------------------------------------------------------------------
(* Properties *)

TypeOK ==
  /\ now \in Time
  /\ list \in Seq(AlarmRec)
  /\ trigger \in Seq(AlarmRec)
  /\ armed \in Time \cup {NoTime}
  /\ pending \in BOOLEAN
  /\ pc \in {"off", "top", "wait", "woke", "call", "exited"}
  /\ cancelled \in BOOLEAN
  /\ initCount \in 0 .. MaxClients
  /\ startCount \in 0 .. MaxClients
  /\ stopper \in {"idle", "set", "join"}
  /\ closing \in BOOLEAN
  /\ sets \in 0 .. MaxSets
  /\ sessions \in 0 .. MaxSessions
  /\ fresh \in BOOLEAN /\ prompt \in BOOLEAN

(* Until the first service thread ends, no alarm is forgotten: while the   *)
(* list is not empty, either the device will go off no later than its      *)
(* first entry, or it has gone off and the service thread is about to look.*)
(* set arms the device only for a new first entry and cancel does not      *)
(* touch it at all.                                                        *)
NoAlarmForgotten ==
  fresh /\ list # <<>> =>
    \/ pending
    \/ pc = "woke"
    \/ armed # NoTime /\ armed <= list[1].when

(* The service thread never outlives the device it waits on, nor the       *)
(* thread object that the last deinit frees.                               *)
ThreadHasDevice == pc # "off" => DevOpen /\ (startCount > 0 \/ stopper # "idle")

(* An alarm set while the first service thread is running is delivered,    *)
(* replaced or cancelled, or the thread is ended.                          *)
AlarmDelivered ==
  \A l \in Listener :
    (fresh /\ pc # "off" /\ \E i \in 1 .. Len(list) : list[i].listener = l)
      ~> (~fresh \/ \A i \in 1 .. Len(list) : list[i].listener # l)

(* A stop that ends the first service thread and is not itself delayed for *)
(* StopDelay returns: its wake-up alarm gets the thread out of             *)
(* ANDROID_ALARM_WAIT, whatever else is in the list and whatever the       *)
(* listeners set and cancel meanwhile.                                     *)
FirstStopReturns == (stopper = "join" /\ fresh /\ prompt) ~> stopper = "idle"

(* Every stop that ends the service thread returns: the alarm it sets is   *)
(* "For wakeup ANDROID_ALARM_WAIT" (alarm_manager.c:379).                  *)
StopReturns == (stopper = "join" /\ prompt) ~> stopper = "idle"
=============================================================================
