----------------------------- MODULE UartPorts -----------------------------
(***************************************************************************)
(* uart/uart_manager.c: threads that open, use and close serial ports by   *)
(* name, over a table of channels.  A call looks its channel up one entry  *)
(* at a time and uses the entry later, so what it found may have become    *)
(* another port's.                                                         *)
(*                                                                         *)
(* A thread asks is_init before init, as the header advises.  flow_control,*)
(* write and read are one operation, "io".  What glibc does with a         *)
(* destroyed mutex is modelled: locking it fails at once and holds         *)
(* nothing; destroying one that is held does nothing.                      *)
(***************************************************************************)
EXTENDS Integers

CONSTANTS UartThread, Port,
          NoPort,          (* an empty name; a NULL sp_port                *)
          MaxChannels      (* UART_MAX_CHANNELS                            *)

ASSUME UartPortsAssumption == MaxChannels \in Nat \ {0} /\ NoPort \notin Port

Channel == 1 .. MaxChannels

VARIABLES
  portDev,     (* port_dev: name, is_init, lock and the port opened        *)
  step,        (* where each thread is                                     *)
  op, devname, (* its call                                                 *)
  i, dev,      (* the locals of the look-up, and what it found             *)
  mine,        (* the ports whose init returned 0 and that nobody has      *)
               (* begun to deinit                                          *)
  changing,    (* has an init or deinit of its port been under way during  *)
               (* its call?                                                *)
  raced,       (* has an init or deinit begun during another of its port,  *)
               (* or two inits taken one channel?                          *)
  died         (* a NULL pointer was dereferenced                          *)

threadVars == <<step, op, devname, i, dev>>
portsVars == <<portDev, threadVars, mine, changing, raced, died>>

Busy(t) == step[t] # "idle"
Changer(t) == Busy(t) /\ op[t] \in {"init", "deinit"}
Goto(t, s) == step' = [step EXCEPT ![t] = s]
(* A look-up begins at the first channel. *)
Search(t, s) == Goto(t, s) /\ i' = [i EXCEPT ![t] = 1]

-----------------------------------------------------------------------------
Call(t, o, p) ==
  /\ ~died
  /\ ~Busy(t)
  /\ Search(t, IF o = "init" THEN "check" ELSE "find")
  /\ op' = [op EXCEPT ![t] = o] /\ devname' = [devname EXCEPT ![t] = p]
  /\ mine' = IF o = "deinit" THEN mine \ {p} ELSE mine
  /\ changing' = [s \in UartThread |->
       IF s = t THEN \E u \in UartThread : Changer(u) /\ devname[u] = p
                ELSE changing[s] \/ (o # "io" /\ devname[s] = p)]
  /\ raced' = (raced \/ (o # "io" /\ \E s \in UartThread : Changer(s) /\ devname[s] = p))
  /\ UNCHANGED <<portDev, dev, died>>

(* Mutant: the name is not compared. *)
MatchesAny(c, p) == portDev[c].isInit
Matches(c, p) == portDev[c].isInit /\ portDev[c].name = p

(* get_is_init_channel, uart_is_init: one turn of the loop.  "check" is    *)
(* is_init of the caller, "find" the look-up a call begins with, "refind"  *)
(* the one in free_channel.  An init that finds its port in use goes to    *)
(* out with dev NULL, and dereferences it.                                 *)
Scan(t) ==
  /\ ~died
  /\ step[t] \in {"check", "find", "refind"}
  /\ IF Matches(i[t], devname[t])
       THEN /\ CASE step[t] = "check" -> Goto(t, "idle") /\ UNCHANGED died
                 [] step[t] = "find" /\ op[t] = "init" -> died' = TRUE /\ UNCHANGED step
                 [] step[t] = "find" /\ op[t] # "init" -> Goto(t, "lock") /\ UNCHANGED died
                 [] step[t] = "refind" -> Goto(t, "free") /\ UNCHANGED died
            /\ dev' = [dev EXCEPT ![t] = i[t]] /\ UNCHANGED i
       ELSE /\ \/ i[t] < MaxChannels /\ i' = [i EXCEPT ![t] = @ + 1] /\ UNCHANGED step
               \/ i[t] = MaxChannels /\ Search(t, CASE step[t] = "check" -> "find"
                                    [] step[t] = "find" /\ op[t] = "init" -> "prepare"
                                    [] OTHER -> "idle")
            /\ UNCHANGED <<dev, died>>
  /\ UNCHANGED <<portDev, op, devname, mine, changing, raced>>

(* get_prepared_channel looks at is_init without the lock.  Without a free *)
(* channel init dereferences NULL too.                                     *)
Prepare(t) ==
  /\ ~died
  /\ step[t] = "prepare"
  /\ \/ /\ ~portDev[i[t]].isInit
        /\ Goto(t, "claim") /\ dev' = [dev EXCEPT ![t] = i[t]]
        /\ UNCHANGED <<i, died>>
     \/ /\ portDev[i[t]].isInit
        /\ IF i[t] < MaxChannels THEN i' = [i EXCEPT ![t] = @ + 1] /\ UNCHANGED died
                                 ELSE died' = TRUE /\ UNCHANGED i
        /\ UNCHANGED <<step, dev>>
  /\ UNCHANGED <<portDev, op, devname, mine, changing, raced>>

(* Mutant: the channel taken is not marked as in use. *)
ClaimUnmarked(t) ==
  /\ ~died
  /\ step[t] = "claim"
  /\ portDev' = [portDev EXCEPT ![dev[t]].name = devname[t], ![dev[t]].lock = "free"]
  /\ Goto(t, "lock")
  /\ raced' = (raced \/ portDev[dev[t]].isInit)
  /\ UNCHANGED <<op, devname, i, dev, mine, changing, died>>

(* It takes the lock and the channel, without looking again: another init  *)
(* may have taken it in between.                                           *)
Claim(t) ==
  /\ ~died
  /\ step[t] = "claim"
  /\ portDev' = [portDev EXCEPT ![dev[t]].name = devname[t], ![dev[t]].isInit = TRUE,
                                ![dev[t]].lock = "free"]
  /\ Goto(t, "lock")
  /\ raced' = (raced \/ portDev[dev[t]].isInit)
  /\ UNCHANGED <<op, devname, i, dev, mine, changing, died>>

Lock(t) ==
  /\ ~died
  /\ step[t] = "lock"
  /\ portDev[dev[t]].lock # "held"
  /\ portDev' = [portDev EXCEPT ![dev[t]].lock = IF @ = "free" THEN "held" ELSE @]
  /\ Goto(t, op[t])
  /\ UNCHANGED <<op, devname, i, dev, mine, changing, raced, died>>

Unlocked(d, p) == [portDev EXCEPT ![d].lock = IF @ = "held" THEN "free" ELSE @, ![d].port = p]

(* sp_open and the settings that follow work, or one of them fails.        *)
Open(t) ==
  /\ ~died
  /\ step[t] = "init"
  /\ \/ /\ portDev' = Unlocked(dev[t], devname[t])
        /\ mine' = mine \cup {devname[t]}
        /\ Goto(t, "idle") /\ UNCHANGED i
     \/ portDev' = Unlocked(dev[t], NoPort) /\ Search(t, "refind") /\ UNCHANGED mine
  /\ UNCHANGED <<op, devname, dev, changing, raced, died>>

(* sp_close works, or the call returns with the lock held.                 *)
Close(t) ==
  /\ ~died
  /\ step[t] = "deinit"
  /\ \/ portDev' = Unlocked(dev[t], NoPort) /\ Search(t, "refind")
     \/ Goto(t, "idle") /\ UNCHANGED <<portDev, i>>
  /\ UNCHANGED <<op, devname, dev, mine, changing, raced, died>>

(* free_channel *)
Free(t) ==
  /\ ~died
  /\ step[t] = "free"
  /\ portDev' = [portDev EXCEPT ![dev[t]].name = NoPort, ![dev[t]].isInit = FALSE,
                                ![dev[t]].lock = IF @ = "held" THEN @ ELSE "gone"]
  /\ Goto(t, "idle")
  /\ UNCHANGED <<op, devname, i, dev, mine, changing, raced, died>>

(* The port the channel has now is used; on NULL the library fails.        *)
Io(t) ==
  /\ ~died
  /\ step[t] = "io"
  /\ portDev' = Unlocked(dev[t], portDev[dev[t]].port)
  /\ Goto(t, "idle")
  /\ UNCHANGED <<op, devname, i, dev, mine, changing, raced, died>>

-----------------------------------------------------------------------------
PortsInit ==
  /\ portDev = [c \in Channel |-> [name |-> NoPort, isInit |-> FALSE, lock |-> "free", port |-> NoPort]]
  /\ step = [t \in UartThread |-> "idle"] /\ op = [t \in UartThread |-> "io"]
  /\ devname = [t \in UartThread |-> NoPort]
  /\ i = [t \in UartThread |-> 1] /\ dev = [t \in UartThread |-> 1]
  /\ mine = {} /\ changing = [t \in UartThread |-> FALSE]
  /\ raced = FALSE /\ died = FALSE

PortsNext ==
  \E t \in UartThread :
    \/ \E o \in {"init", "deinit", "io"}, p \in Port : Call(t, o, p)
    \/ Scan(t) \/ Prepare(t) \/ Claim(t) \/ Lock(t)
    \/ Open(t) \/ Close(t) \/ Free(t) \/ Io(t)

PortsSpec == PortsInit /\ [][PortsNext]_portsVars
-----------------------------------------------------------------------------
(* Properties *)

PortsTypeOK ==
  /\ portDev \in [Channel -> [name : Port \cup {NoPort}, isInit : BOOLEAN,
                              lock : {"free", "held", "gone"}, port : Port \cup {NoPort}]]
  /\ step \in [UartThread -> {"idle", "check", "find", "refind", "prepare", "claim", "lock",
                              "init", "deinit", "io", "free"}]
  /\ op \in [UartThread -> {"init", "deinit", "io"}]
  /\ devname \in [UartThread -> Port \cup {NoPort}]
  /\ i \in [UartThread -> Channel] /\ dev \in [UartThread -> Channel]
  /\ mine \subseteq Port /\ changing \in [UartThread -> BOOLEAN]
  /\ raced \in BOOLEAN /\ died \in BOOLEAN

(* A port whose init returned 0 is open in one channel, and no other has   *)
(* its name, until its deinit begins, though inits and deinits of other    *)
(* ports change the table, and their threads search it, in between.  This  *)
(* ends when two calls of one port overlap, or an init takes the channel   *)
(* that another has taken since it looked: no lock prevents that, and the  *)
(* property delimits it.                                                   *)
PortsStayOpen ==
  ~raced =>
    \A p \in mine : \E c \in Channel :
      /\ portDev[c].isInit /\ portDev[c].name = p /\ portDev[c].port = p
      /\ \A d \in Channel \ {c} : portDev[d].isInit => portDev[d].name # p

(* A thread writes to or reads from another port than the one it named     *)
(* only when that port was being initialised or deinitialised during its   *)
(* call (the channel was given to another port between look-up and lock),  *)
(* or after inits or deinits have raced as above.                          *)
IoReachesItsPort ==
  \A t \in UartThread :
    step[t] = "io" => raced \/ changing[t] \/ portDev[dev[t]].port \in {devname[t], NoPort}

=============================================================================
