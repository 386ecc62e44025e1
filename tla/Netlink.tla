------------------------------ MODULE Netlink ------------------------------
(***************************************************************************)
(* netlink/netlink_manager.c and netlink_listener.c, the list of handlers  *)
(* between them, and the two managers of the library that own a handler:   *)
(* battery/battery_manager.c (inits counted) and                           *)
(* vibrator/vibrator_manager.c (inits not counted).  One thread calls the  *)
(* managers, the listener's thread hands events to the handlers.           *)
(*                                                                         *)
(* A handler is <<owner, n>>, its owner's n-th; what a freed one holds is  *)
(* unknown (destruct has set its functions to NULL): using it ends the     *)
(* program.  start_count of the listener follows the manager's.  Left out: *)
(* failing system calls, and callbacks that call a manager.                *)
(***************************************************************************)
EXTENDS Integers, Sequences, FiniteSetsExt

CONSTANTS
  Owner,        (* the managers that own a handler                         *)
  Counted,      (* those whose init and deinit are counted                 *)
  Nil,
  MaxHandlers,  (* bound: handlers one owner makes                         *)
  MaxCount,     (* bound: inits and starts at a time                       *)
  MaxFd         (* bound: file descriptors                                 *)

ASSUME NetlinkAssumption ==
  /\ Counted \subseteq Owner
  /\ MaxHandlers \in Nat /\ MaxCount \in Nat \ {0} /\ MaxFd \in Nat \ {0}
  /\ Nil \notin Owner \X Nat

Handler == Owner \X (1 .. MaxHandlers)
Fd == 1 .. MaxFd

VARIABLES
  nl, initN, startN,     (* the manager: nl # NULL, its two counters       *)
  managerFd, listenerFd, (* local_socket of each; 0 before the first       *)
  fds,                   (* what the descriptors are: "free", "socket",    *)
                         (* or "file", a file of somebody else             *)
  first, next,           (* head, and next of the handlers                 *)
  registered,            (* kept for the properties: the handlers          *)
                         (* registered and not unregistered since          *)
  handlerLock,           (* "free", "held" or, for ever, "lost"            *)
  caller, who,           (* where the calling thread is, and with what     *)
  netThread,             (* the listener's thread: "none", "poll",         *)
  nh, nextNh,            (* "dispatch" or "callback"; its locals           *)
  ownerN, made, live,    (* of the owners: init_count, handlers made, the  *)
                         (* handler that is not freed (0: none)            *)
  ownerLock,             (* listener_lock, device_lock: "free", "thread"   *)
                         (* or, the thread having died with it, "dead"     *)
  fault                  (* the program has ended                          *)

managerVars == <<nl, initN, startN, managerFd, listenerFd, fds>>
listVars == <<first, next, registered, handlerLock>>
netThreadVars == <<netThread, nh, nextNh>>
ownerVars == <<ownerN, made, live, ownerLock>>
netVars == <<managerVars, listVars, caller, who, netThreadVars, ownerVars, fault>>

Alive(h) == live[h[1]] = h[2]
Idle0 == ~fault /\ caller = "idle"
Fault == fault' = TRUE

-----------------------------------------------------------------------------
(* The owners.                                                             *)

(* battery init, motor_init: the handler is made. *)
OwnerInit(o) ==
  /\ Idle0
  /\ ownerN[o] < MaxCount
  /\ IF live[o] # 0 THEN UNCHANGED <<made, live>>
     ELSE /\ made[o] < MaxHandlers
          /\ made' = [made EXCEPT ![o] = @ + 1] /\ live' = [live EXCEPT ![o] = made[o] + 1]
  /\ ownerN' = IF o \in Counted THEN [ownerN EXCEPT ![o] = @ + 1] ELSE ownerN
  /\ UNCHANGED <<managerVars, listVars, caller, who, netThreadVars, ownerLock, fault>>

(* deinit: the battery manager frees its handler and then drops the        *)
(* listeners, the vibrator manager the other way round.                    *)
OwnerDeinit(o) ==
  /\ Idle0
  /\ live[o] # 0
  /\ IF o \in Counted
       THEN /\ ownerN' = [ownerN EXCEPT ![o] = @ - 1]
            /\ IF ownerN[o] = 1
                 THEN caller' = "drop" /\ live' = [live EXCEPT ![o] = 0]
                 ELSE UNCHANGED <<caller, live>>
       ELSE caller' = "drop" /\ UNCHANGED <<ownerN, live>>
  /\ who' = <<o, live[o]>>
  /\ UNCHANGED <<managerVars, listVars, netThreadVars, made, ownerLock, fault>>

(* unregister_all_listener, and the device list of motor_deinit. *)
OwnerDrops ==
  /\ ~fault
  /\ caller = "drop" /\ ownerLock[who[1]] = "free"
  /\ caller' = "idle"
  /\ live' = [live EXCEPT ![who[1]] = 0]
  /\ UNCHANGED <<managerVars, listVars, who, netThreadVars, ownerN, made, ownerLock, fault>>

-----------------------------------------------------------------------------
(* The list of handlers.                                                   *)

(* register_handler, unregister_handler of the manager: nl is NULL before  *)
(* the first init and after a stop.                                        *)
ListCall(o, s) ==
  /\ Idle0
  /\ live[o] # 0
  /\ IF nl THEN /\ handlerLock = "free"
                /\ handlerLock' = "held" /\ caller' = s /\ who' = <<o, live[o]>>
                /\ UNCHANGED fault
           ELSE Fault /\ UNCHANGED <<handlerLock, caller, who>>
  /\ UNCHANGED <<managerVars, first, next, registered, netThreadVars, ownerVars>>

(* register_handler, one turn of the loop: both priorities compared are    *)
(* those of the new handler, so the loop goes on to the end of the list.   *)
RegisterPasses ==
  /\ ~fault
  /\ caller = "register" /\ first # Nil
  /\ IF Alive(first) THEN first' = next[first] /\ UNCHANGED fault
                     ELSE Fault /\ UNCHANGED first
  /\ UNCHANGED <<managerVars, next, registered, handlerLock, caller, who, netThreadVars, ownerVars>>

RegisterPuts ==
  /\ ~fault
  /\ caller = "register" /\ first = Nil
  /\ next' = [next EXCEPT ![who] = first] /\ first' = who
  /\ registered' = registered \cup {who}
  /\ handlerLock' = "free" /\ caller' = "idle"
  /\ UNCHANGED <<managerVars, who, netThreadVars, ownerVars, fault>>

(* Mutant: the lock is freed, and the handler found left in the list. *)
UnregisterLeaves ==
  /\ ~fault
  /\ caller = "unregister" /\ first = who
  /\ handlerLock' = "free" /\ caller' = "idle"
  /\ registered' = registered \ {who}
  /\ UNCHANGED <<managerVars, first, next, who, netThreadVars, ownerVars, fault>>

(* unregister_handler found it, and returns with the lock. *)
UnregisterFinds ==
  /\ ~fault
  /\ caller = "unregister" /\ first = who
  /\ first' = next[who] /\ handlerLock' = "lost" /\ caller' = "idle"
  /\ registered' = registered \ {who}
  /\ UNCHANGED <<managerVars, next, who, netThreadVars, ownerVars, fault>>

(* It passes, and so drops, every other. *)
UnregisterPasses ==
  /\ ~fault
  /\ caller = "unregister" /\ first \notin {Nil, who}
  /\ IF Alive(first) THEN first' = next[first] /\ UNCHANGED fault
                     ELSE Fault /\ UNCHANGED first
  /\ UNCHANGED <<managerVars, next, registered, handlerLock, caller, who, netThreadVars, ownerVars>>

UnregisterEnds ==
  /\ ~fault
  /\ caller = "unregister" /\ first = Nil
  /\ handlerLock' = "free" /\ caller' = "idle"
  /\ registered' = registered \ {who}
  /\ UNCHANGED <<managerVars, first, next, who, netThreadVars, ownerVars, fault>>

-----------------------------------------------------------------------------
(* The manager and the listener.                                           *)

(* init: a socket takes the lowest free descriptor; the listener keeps the *)
(* one of its first init, for nobody calls its deinit.                     *)
NetInit ==
  /\ Idle0
  /\ initN < MaxCount
  /\ initN' = initN + 1
  /\ IF initN # 0 THEN UNCHANGED <<nl, managerFd, listenerFd, fds>>
     ELSE LET free == {d \in Fd : fds[d] = "free"}
          IN  /\ free # {}
              /\ managerFd' = Min(free) /\ fds' = [fds EXCEPT ![Min(free)] = "socket"]
              /\ nl' = TRUE
              /\ listenerFd' = IF listenerFd = 0 THEN Min(free) ELSE listenerFd
  /\ UNCHANGED <<startN, listVars, caller, who, netThreadVars, ownerVars, fault>>

(* The manager's stop, also of a deinit: the last one cancels the thread   *)
(* and waits for it.                                                       *)
Stopping ==
  /\ startN' = startN - 1
  /\ caller' = IF startN = 1 THEN "join" ELSE "idle"
  /\ UNCHANGED fault

(* deinit tests the count before it lowers it: the last one stops nothing, *)
(* and one too many, which makes the count wrap (here -1), stops a thread  *)
(* that runs.                                                              *)
NetDeinit ==
  /\ Idle0
  /\ initN >= 0
  /\ initN' = initN - 1
  /\ CASE initN # 0 -> UNCHANGED <<startN, caller, fault>>
       [] initN = 0 /\ ~nl -> Fault /\ UNCHANGED <<startN, caller>>
       [] initN = 0 /\ nl ->
            IF netThread # "none" THEN Stopping ELSE UNCHANGED <<startN, caller, fault>>
  /\ UNCHANGED <<nl, managerFd, listenerFd, fds, listVars, who, netThreadVars, ownerVars>>

NetStart ==
  /\ Idle0
  /\ startN < MaxCount
  /\ IF startN = 0 /\ ~nl
       THEN Fault /\ UNCHANGED <<startN, netThread>>
       ELSE /\ startN' = startN + 1
            /\ netThread' = IF startN = 0 THEN "poll" ELSE netThread
            /\ UNCHANGED fault
  /\ UNCHANGED <<nl, initN, managerFd, listenerFd, fds, listVars, caller, who, nh, nextNh, ownerVars>>

NetStop ==
  /\ Idle0
  /\ startN > 0 /\ Stopping
  /\ UNCHANGED <<nl, initN, managerFd, listenerFd, fds, listVars, who, netThreadVars, ownerVars>>

NetStopped ==
  /\ ~fault
  /\ caller = "join" /\ netThread = "none"
  /\ caller' = "idle"
  /\ fds' = [fds EXCEPT ![managerFd] = "free"] /\ nl' = FALSE
  /\ UNCHANGED <<initN, startN, managerFd, listenerFd, listVars, who, netThreadVars, ownerVars, fault>>

(* The rest of the program opens and closes files. *)
OtherFile ==
  /\ ~fault
  /\ \E d \in Fd :
       \/ fds[d] = "file" /\ fds' = [fds EXCEPT ![d] = "free"]
       \/ /\ d = Min({d} \cup {e \in Fd : fds[e] = "free"}) /\ fds[d] = "free"
          /\ fds' = [fds EXCEPT ![d] = "file"]
  /\ UNCHANGED <<nl, initN, startN, managerFd, listenerFd, listVars, caller, who, netThreadVars,
                 ownerVars, fault>>

-----------------------------------------------------------------------------
(* The thread.                                                             *)

(* thread_loop receives an event; dispatch_event reads head, without lock. *)
Received ==
  /\ ~fault
  /\ netThread = "poll" /\ fds[listenerFd] = "socket"
  /\ netThread' = "dispatch" /\ nh' = first /\ nextNh' = Nil
  /\ UNCHANGED <<managerVars, listVars, caller, who, ownerVars, fault>>

(* One turn of dispatch_event: handle_event calls the listeners under the  *)
(* owner's lock.                                                           *)
HandleEvent ==
  /\ ~fault
  /\ netThread = "dispatch" /\ nh # Nil
  /\ IF Alive(nh)
       THEN /\ ownerLock[nh[1]] = "free"
            /\ ownerLock' = [ownerLock EXCEPT ![nh[1]] = "thread"]
            /\ netThread' = "callback" /\ nextNh' = next[nh]
            /\ UNCHANGED fault
       ELSE Fault /\ UNCHANGED <<netThread, nextNh, ownerLock>>
  /\ UNCHANGED <<managerVars, listVars, caller, who, nh, ownerN, made, live>>

(* The event is of another subsystem, and the handler passes it over. *)
PassesOver ==
  /\ ~fault
  /\ netThread = "dispatch" /\ nh # Nil /\ Alive(nh)
  /\ nextNh' = next[nh] /\ nh' = next[nh]
  /\ UNCHANGED <<managerVars, listVars, caller, who, netThread, ownerVars, fault>>

Handled ==
  /\ ~fault
  /\ netThread = "callback"
  /\ ownerLock' = [ownerLock EXCEPT ![nh[1]] = "free"]
  /\ netThread' = "dispatch" /\ nh' = nextNh
  /\ UNCHANGED <<managerVars, listVars, caller, who, nextNh, ownerN, made, live, fault>>

Dispatched ==
  /\ ~fault
  /\ netThread = "dispatch" /\ nh = Nil
  /\ netThread' = "poll"
  /\ UNCHANGED <<managerVars, listVars, caller, who, nh, nextNh, ownerVars, fault>>

(* A cancelled thread dies where it waits or writes a log: in poll, or in  *)
(* a listener, and then with the owner's lock.                             *)
NetThreadDies ==
  /\ ~fault
  /\ caller = "join" /\ netThread \in {"poll", "callback"}
  /\ ownerLock' = IF netThread = "callback" THEN [ownerLock EXCEPT ![nh[1]] = "dead"] ELSE ownerLock
  /\ netThread' = "none"
  /\ UNCHANGED <<managerVars, listVars, caller, who, nh, nextNh, ownerN, made, live, fault>>

-----------------------------------------------------------------------------
NetlinkInit ==
  /\ nl = FALSE /\ initN = 0 /\ startN = 0 /\ managerFd = 0 /\ listenerFd = 0
  /\ fds = [d \in Fd |-> "free"]
  /\ first = Nil /\ next = [h \in Handler |-> Nil] /\ registered = {} /\ handlerLock = "free"
  /\ caller = "idle" /\ who = Nil
  /\ netThread = "none" /\ nh = Nil /\ nextNh = Nil
  /\ ownerN = [o \in Owner |-> 0] /\ made = [o \in Owner |-> 0] /\ live = [o \in Owner |-> 0]
  /\ ownerLock = [o \in Owner |-> "free"] /\ fault = FALSE

NetlinkNext ==
  \/ \E o \in Owner :
       \/ OwnerInit(o) \/ OwnerDeinit(o)
       \/ \E s \in {"register", "unregister"} : ListCall(o, s)
  \/ OwnerDrops
  \/ RegisterPasses \/ RegisterPuts
  \/ UnregisterFinds \/ UnregisterPasses \/ UnregisterEnds
  \/ NetInit \/ NetDeinit \/ NetStart \/ NetStop \/ NetStopped \/ OtherFile
  \/ Received \/ HandleEvent \/ PassesOver \/ Handled \/ Dispatched \/ NetThreadDies

NetlinkSpec == NetlinkInit /\ [][NetlinkNext]_netVars
-----------------------------------------------------------------------------
(* Properties *)

NetlinkTypeOK ==
  /\ nl \in BOOLEAN /\ initN \in Nat \cup {-1} /\ startN \in Nat
  /\ managerFd \in Fd \cup {0} /\ listenerFd \in Fd \cup {0}
  /\ fds \in [Fd -> {"free", "socket", "file"}]
  /\ first \in Handler \cup {Nil} /\ next \in [Handler -> Handler \cup {Nil}]
  /\ registered \subseteq Handler /\ handlerLock \in {"free", "held", "lost"}
  /\ caller \in {"idle", "drop", "register", "unregister", "join"}
  /\ who \in Handler \cup {Nil} /\ (caller \notin {"idle", "join"} => who \in Handler)
  /\ netThread \in {"none", "poll", "dispatch", "callback"}
  /\ nh \in Handler \cup {Nil} /\ nextNh \in Handler \cup {Nil}
  /\ (netThread = "callback" => nh \in Handler)
  /\ ownerN \in [Owner -> Nat] /\ made \in [Owner -> 0 .. MaxHandlers]
  /\ live \in [Owner -> 0 .. MaxHandlers]
  /\ ownerLock \in [Owner -> {"free", "thread", "dead"}] /\ fault \in BOOLEAN

(* Whoever unregistered its handler is out of the list, also when the      *)
(* handler was not found, was not registered last or was freed before the  *)
(* call: no dispatch that begins later calls it.  The property allows the  *)
(* list to lose handlers: RegisteredListens is about those.                *)
UnregisteredIsOut == first # Nil => first \in registered

(* The handlers reached from the head. *)
Listed ==
  LET reached[n \in 0 .. Cardinality(Handler)] ==
        IF n = 0 THEN {first} \ {Nil}
        ELSE reached[n - 1] \cup ({next[h] : h \in reached[n - 1]} \ {Nil})
  IN  reached[Cardinality(Handler)]

(* A registered handler is in the list until it is unregistered:           *)
(* netlink_handler.h gives a handler a next, and the two managers of the   *)
(* library register one each.                                              *)
RegisteredListens ==
  ~fault /\ caller = "idle" => \A h \in registered : Alive(h) => h \in Listed
=============================================================================
