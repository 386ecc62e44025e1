------------------------------- MODULE Input -------------------------------
(***************************************************************************)
(* input/input_manager.c and input_event_callback_list.c: the thread that  *)
(* waits for the input devices and calls the listeners of a device's       *)
(* events, and one other thread that calls the manager.                    *)
(*                                                                         *)
(* A step of the thread ends where it can be cancelled or interrupted.     *)
(* Left out: listeners that call the manager, failing allocations, calls   *)
(* before a successful init (thread is NULL then).                         *)
(***************************************************************************)
EXTENDS Integers, Sequences, SequencesExt

CONSTANTS
  Device,       (* the input devices; they have names of their own         *)
  Listener,     (* the functions that are registered                       *)
  MaxStarts     (* bound: initCalls and starts at a time                   *)

ASSUME InputAssumption == MaxStarts \in Nat \ {0}

VARIABLES
  devices,        (* input_dev_list                                        *)
  listeners,      (* listener_list: functions and the names they listen to *)
  deviceListLock, listenerLock,   (* "free", "thread", or "dead": its      *)
                                  (* holder will not give it back          *)
  initCalls, starts,  (* init_count, start_count                           *)
  leftOver,       (* the starts that a deinit has not stopped              *)
  hasThread,      (* thread: constructed and not deleted                   *)
  thread,         (* where it is: "none", "loop", "select", "lock",        *)
                  (* "read", "callback"                                    *)
  rdfs, device,   (* its set of descriptors, and the device it reads       *)
  api             (* where the calling thread is                           *)

lockVars == <<deviceListLock, listenerLock>>
countVars == <<initCalls, starts, leftOver, hasThread>>
threadPos == <<thread, rdfs, device>>
inputVars == <<devices, listeners, lockVars, countVars, threadPos, api>>

-----------------------------------------------------------------------------
(* The calls.                                                              *)

(* init, scan_devices: without a device it fails with the lock held and    *)
(* the init counted.  Devices that do not open are passed over, all of     *)
(* them too.                                                               *)
InputInitCall ==
  /\ api = "idle"
  /\ initCalls < MaxStarts
  /\ initCalls' = initCalls + 1
  /\ \/ initCalls > 0 /\ UNCHANGED <<devices, deviceListLock, hasThread>>
     \/ /\ initCalls = 0 /\ deviceListLock = "free"
        /\ deviceListLock' = "dead"
        /\ UNCHANGED <<devices, hasThread>>
     \/ /\ initCalls = 0 /\ deviceListLock = "free"
        /\ devices' \in SUBSET Device
        /\ hasThread' = TRUE
        /\ UNCHANGED deviceListLock
  /\ UNCHANGED <<listeners, listenerLock, starts, leftOver, threadPos, api>>

StartInput ==
  /\ api = "idle" /\ hasThread
  /\ starts < MaxStarts
  /\ starts' = starts + 1
  /\ thread' = IF starts = 0 THEN "loop" ELSE thread
  /\ UNCHANGED <<devices, listeners, lockVars, initCalls, leftOver, hasThread, rdfs, device, api>>

(* Mutant: the last stop does not wait for the thread. *)
StopInputAny ==
  /\ api = "idle" /\ hasThread
  /\ starts > 0
  /\ starts' = starts - 1
  /\ api' = "join" /\ leftOver' = IF starts = 1 THEN 0 ELSE leftOver
  /\ UNCHANGED <<devices, listeners, lockVars, initCalls, hasThread, threadPos>>

(* stop: the thread is cancelled when the last start is stopped. *)
StopInput ==
  /\ api = "idle" /\ hasThread
  /\ starts > 0
  /\ starts' = starts - 1
  /\ IF starts = 1 THEN api' = "join" /\ leftOver' = 0 ELSE UNCHANGED <<api, leftOver>>
  /\ UNCHANGED <<devices, listeners, lockVars, initCalls, hasThread, threadPos>>

(* Mutant: deinit frees the devices without their lock. *)
DeinitUnlocked ==
  /\ api = "idle" /\ initCalls > 0
  /\ initCalls' = initCalls - 1
  /\ IF initCalls = 1 THEN api' = "stop" /\ devices' = {} ELSE UNCHANGED <<api, devices>>
  /\ UNCHANGED <<listeners, lockVars, starts, leftOver, hasThread, threadPos>>

DeinitInput ==
  /\ api = "idle" /\ initCalls > 0
  /\ initCalls' = initCalls - 1
  /\ api' = IF initCalls = 1 THEN "free" ELSE "idle"
  /\ UNCHANGED <<devices, listeners, lockVars, starts, leftOver, hasThread, threadPos>>

(* deinit goes on: it frees the devices, *)
DeinitFrees ==
  /\ api = "free" /\ deviceListLock = "free"
  /\ devices' = {}
  /\ api' = "stop"
  /\ UNCHANGED <<listeners, lockVars, countVars, threadPos>>

(* stops one start of a thread that runs, and deletes the thread, which    *)
(* stops it whatever the count,                                            *)
DeinitStops ==
  /\ api = "stop"
  /\ starts' = IF thread # "none" THEN starts - 1 ELSE starts
  /\ leftOver' = starts'
  /\ api' = "delete"
  /\ UNCHANGED <<devices, listeners, lockVars, initCalls, hasThread, threadPos>>

DeinitDeletes ==
  /\ api = "delete" /\ thread = "none"
  /\ hasThread' = FALSE
  /\ api' = "listeners"
  /\ UNCHANGED <<devices, listeners, lockVars, initCalls, starts, leftOver, threadPos>>

(* and unregisters all listeners. *)
DeinitEnds ==
  /\ api = "listeners" /\ listenerLock = "free"
  /\ listeners' = <<>>
  /\ api' = "idle"
  /\ UNCHANGED <<devices, lockVars, countVars, threadPos>>

(* pthread_join has returned. *)
StopEnds ==
  /\ api = "join" /\ thread = "none"
  /\ api' = "idle"
  /\ UNCHANGED <<devices, listeners, lockVars, countVars, threadPos>>

(* register_event_listener *)
Register(name, f) ==
  /\ api = "idle" /\ listenerLock = "free"
  /\ listeners' =
       IF \E k \in DOMAIN listeners : listeners[k].listener = f
         THEN [k \in DOMAIN listeners |->
                 IF listeners[k].listener = f
                   THEN [listeners[k] EXCEPT !.names = @ \cup {name}] ELSE listeners[k]]
         ELSE Append(listeners, [listener |-> f, names |-> {name}])
  /\ UNCHANGED <<devices, lockVars, countVars, threadPos, api>>

(* unregister_event_listener: with the last name of one listener the       *)
(* whole list goes.                                                        *)
Unregister(name, f) ==
  /\ api = "idle" /\ listenerLock = "free"
  /\ \E k \in DOMAIN listeners :
       /\ listeners[k].listener = f
       /\ listeners' = IF listeners[k].names \subseteq {name} THEN <<>>
                       ELSE [listeners EXCEPT ![k].names = @ \ {name}]
  /\ UNCHANGED <<devices, lockVars, countVars, threadPos, api>>

-----------------------------------------------------------------------------
(* thread_loop.                                                            *)

(* The set of descriptors is filled from the list, under its lock. *)
Collect ==
  /\ thread = "loop" /\ deviceListLock = "free"
  /\ rdfs' = devices
  /\ thread' = "select"
  /\ UNCHANGED <<devices, listeners, lockVars, countVars, device, api>>

(* select returns what can be read (also of a device that was closed while *)
(* it waited); when it fails it is called again.                           *)
Select ==
  /\ thread = "select"
  /\ rdfs' \in SUBSET rdfs \ {{}}
  /\ thread' = "lock"
  /\ UNCHANGED <<devices, listeners, lockVars, countVars, device, api>>

TakeList ==
  /\ thread = "lock" /\ deviceListLock = "free"
  /\ deviceListLock' = "thread"
  /\ thread' = "read"
  /\ UNCHANGED <<devices, listeners, listenerLock, countVars, rdfs, device, api>>

(* The next device of the list that can be read: the read brings nothing,  *)
(* or on_event calls the listeners under their lock.  One event stands for *)
(* the up to 256 of a read.                                                *)
ReadFails(d) ==
  /\ thread = "read" /\ d \in rdfs \cap devices
  /\ rdfs' = rdfs \ {d}
  /\ UNCHANGED <<devices, listeners, lockVars, countVars, thread, device, api>>
OnEvent(d) ==
  /\ thread = "read" /\ d \in rdfs \cap devices
  /\ listenerLock = "free"
  /\ listenerLock' = "thread" /\ device' = d
  /\ thread' = "callback"
  /\ UNCHANGED <<devices, listeners, deviceListLock, countVars, rdfs, api>>
EventDone ==
  /\ thread = "callback"
  /\ listenerLock' = "free" /\ rdfs' = rdfs \ {device}
  /\ thread' = "read"
  /\ UNCHANGED <<devices, listeners, deviceListLock, countVars, device, api>>

(* Mutant: the lock is kept. *)
ListDoneKeeps ==
  /\ thread = "read" /\ rdfs \cap devices = {}
  /\ thread' = "loop"
  /\ UNCHANGED <<devices, listeners, lockVars, countVars, rdfs, device, api>>

ListDone ==
  /\ thread = "read" /\ rdfs \cap devices = {}
  /\ deviceListLock' = "free"
  /\ thread' = "loop"
  /\ UNCHANGED <<devices, listeners, listenerLock, countVars, rdfs, device, api>>

(* A cancelled thread dies in select, in a read or in a listener, with the *)
(* locks it holds.                                                         *)
Left(lock) == IF lock = "thread" THEN "dead" ELSE lock
InputThreadDies ==
  /\ api \in {"join", "delete"}
  /\ \/ thread \in {"select", "callback"}
     \/ thread = "read" /\ rdfs \cap devices # {}
  /\ deviceListLock' = Left(deviceListLock) /\ listenerLock' = Left(listenerLock)
  /\ thread' = "none"
  /\ UNCHANGED <<devices, listeners, countVars, rdfs, device, api>>

-----------------------------------------------------------------------------
InputInit ==
  /\ devices = {} /\ listeners = <<>>
  /\ deviceListLock = "free" /\ listenerLock = "free"
  /\ initCalls = 0 /\ starts = 0 /\ leftOver = 0 /\ hasThread = FALSE
  /\ thread = "none" /\ rdfs = {} /\ device \in Device /\ api = "idle"

ThreadRuns ==
  \/ Collect \/ TakeList
  \/ \E d \in Device : ReadFails(d) \/ OnEvent(d)
  \/ EventDone \/ ListDone
Deiniting == DeinitFrees \/ DeinitStops \/ DeinitDeletes \/ DeinitEnds

InputNext ==
  \/ InputInitCall \/ StartInput \/ StopInput \/ StopEnds \/ DeinitInput \/ Deiniting
  \/ \E d \in Device, f \in Listener : Register(d, f) \/ Unregister(d, f)
  \/ Select \/ ThreadRuns \/ InputThreadDies

(* The thread runs on outside of select, and its listeners return; a call  *)
(* runs on, and gets a mutex that is free again and again; a cancelled     *)
(* thread dies at one of the points (select) that it keeps coming by.      *)
InputFairness ==
  /\ WF_inputVars(ThreadRuns)
  /\ SF_inputVars(Deiniting)
  /\ SF_inputVars(InputThreadDies)

InputSpec == InputInit /\ [][InputNext]_inputVars /\ InputFairness
-----------------------------------------------------------------------------
(* Properties *)

InputTypeOK ==
  /\ devices \subseteq Device
  /\ listeners \in Seq([listener : Listener, names : SUBSET Device])
  /\ deviceListLock \in {"free", "thread", "dead"} /\ listenerLock \in {"free", "thread", "dead"}
  /\ initCalls \in Nat /\ starts \in Nat /\ leftOver \in Nat /\ hasThread \in BOOLEAN
  /\ thread \in {"none", "loop", "select", "lock", "read", "callback"}
  /\ rdfs \subseteq Device /\ device \in Device
  /\ api \in {"idle", "join", "free", "stop", "delete", "listeners"}

(* The thread never reads, or names to a listener, a device that a deinit  *)
(* has freed, though deinit frees the devices while the thread still runs. *)
ReadsLiveDevice == thread = "callback" => device \in devices

(* As long as a start is not stopped the thread runs.  A deinit that stops *)
(* one start of two leaves the other over: then no thread runs, in this    *)
(* session or the next, until the count was stopped down to 0.  That loss  *)
(* is the code's, and is delimited here, not caught.                       *)
StartedRuns ==
  api = "idle" => (thread # "none" <=> starts > 0 /\ leftOver = 0)

(* What input_manager.h:34 declares: unregister_event_listener takes back  *)
(* the one registration of the name and the listener it is given.  The     *)
(* code frees the whole list with the last name of any listener.           *)
Registered == {r \in Device \X Listener : \E k \in DOMAIN listeners :
                 listeners[k].listener = r[2] /\ r[1] \in listeners[k].names}
UnregisterTakesItsOwn ==
  [][\A d \in Device, f \in Listener :
       Unregister(d, f) => Registered \ Registered' \subseteq {<<d, f>>}]_inputVars

(* A deinit returns, unless a lock died: of a failed scan, or with a       *)
(* thread that was cancelled in a read or in a listener.  Deinit then      *)
(* hangs in the code too; what is checked is that nothing else hangs it.   *)
DeinitReturns ==
  api \in {"free", "stop", "delete", "listeners"} ~>
    api = "idle" \/ "dead" \in {deviceListLock, listenerLock}
=============================================================================
