--------------------------- MODULE DevicesProofs ----------------------------
(***************************************************************************)
(* Proofs about Netlink, Gpio and UartPorts, parts of Devices, and about   *)
(* Devices itself.  Those about its other parts are in DataProofs and      *)
(* UartProofs.                                                             *)
(***************************************************************************)
EXTENDS Devices, DataProofs, UartProofs, TLAPS

-----------------------------------------------------------------------------
(***************************************************************************)
(* Netlink, for any owners, handlers and descriptors: who unregistered is  *)
(* out of the list.                                                        *)
(***************************************************************************)

(* What makes it inductive: the list never has a second handler (every     *)
(* register walks it to its end with the head itself), so that taking one  *)
(* out leaves nothing behind it.                                           *)
Single == first # Nil => next[first] = Nil

NetInv ==
  /\ first \in Handler \cup {Nil}
  /\ next \in [Handler -> Handler \cup {Nil}]
  /\ registered \subseteq Handler
  /\ live \in [Owner -> 0 .. MaxHandlers]
  /\ made \in [Owner -> 0 .. MaxHandlers]
  /\ caller \in {"drop", "register", "unregister"} => who \in Handler
  /\ Single
  /\ UnregisteredIsOut

LEMMA HandlerParts ==
  /\ \A h \in Handler : h[1] \in Owner /\ h[2] \in 1 .. MaxHandlers
  /\ \A o \in Owner, n \in 1 .. MaxHandlers :
       <<o, n>> \in Handler /\ <<o, n>>[1] = o /\ <<o, n>>[2] = n
  /\ Nil \notin Handler
  /\ MaxHandlers \in Nat
BY NetlinkAssumption DEF Handler

USE DEF Alive

LEMMA OwnerInitStep ==
  ASSUME NetInv, NEW o \in Owner, OwnerInit(o)
  PROVE  NetInv'
<1>1. UNCHANGED <<first, next, registered, caller, who>>
  BY DEF OwnerInit, listVars
<1>2. made[o] \in 0 .. MaxHandlers
  BY DEF NetInv
<1>3. \/ UNCHANGED <<made, live>>
      \/ /\ made[o] < MaxHandlers /\ made' = [made EXCEPT ![o] = made[o] + 1]
         /\ live' = [live EXCEPT ![o] = made[o] + 1]
  BY DEF OwnerInit
<1>4. made[o] < MaxHandlers => made[o] + 1 \in 0 .. MaxHandlers
  BY <1>2, HandlerParts
<1>5. made' \in [Owner -> 0 .. MaxHandlers] /\ live' \in [Owner -> 0 .. MaxHandlers]
  BY <1>3, <1>4 DEF NetInv
<1> QED BY <1>1, <1>5 DEF NetInv, Single, UnregisteredIsOut

(* A handler is freed: by a deinit of a counted owner, or by OwnerDrops. *)
LEMMA FreeStep ==
  ASSUME NetInv, NEW o \in Owner,
         caller' \in {"idle", "drop"}, caller' = "drop" => who' \in Handler,
         live' = [live EXCEPT ![o] = 0] \/ UNCHANGED live,
         UNCHANGED <<first, next, registered, made>>
  PROVE  NetInv'
<1>1. live' \in [Owner -> 0 .. MaxHandlers]
  BY HandlerParts DEF NetInv
<1> QED BY <1>1 DEF NetInv, Single, UnregisteredIsOut

LEMMA OwnerDeinitStep ==
  ASSUME NetInv, NEW o \in Owner, OwnerDeinit(o)
  PROVE  NetInv'
<1>1. /\ caller = "idle" /\ caller' \in {"idle", "drop"}
      /\ who' = <<o, live[o]>> /\ live[o] # 0
      /\ live' = [live EXCEPT ![o] = 0] \/ UNCHANGED live
      /\ UNCHANGED <<first, next, registered, made>>
  BY DEF OwnerDeinit, Idle0, listVars
<1>2. live[o] \in 1 .. MaxHandlers
  BY <1>1, HandlerParts DEF NetInv
<1>3. who' \in Handler
  BY <1>1, <1>2, HandlerParts
<1> QED BY <1>1, <1>3, FreeStep

LEMMA OwnerDropsStep ==
  ASSUME NetInv, OwnerDrops
  PROVE  NetInv'
<1>1. /\ caller = "drop" /\ caller' = "idle"
      /\ live' = [live EXCEPT ![who[1]] = 0]
      /\ UNCHANGED <<first, next, registered, made>>
  BY DEF OwnerDrops, listVars
<1>2. who[1] \in Owner
  BY <1>1, HandlerParts DEF NetInv
<1> QED BY <1>1, <1>2, FreeStep

LEMMA ListCallStep ==
  ASSUME NetInv, NEW o \in Owner, NEW s \in {"register", "unregister"}, ListCall(o, s)
  PROVE  NetInv'
<1>1. /\ live[o] # 0
      /\ UNCHANGED <<first, next, registered, made, live>>
      /\ \/ caller' = s /\ who' = <<o, live[o]>>
         \/ UNCHANGED <<caller, who>>
  BY DEF ListCall, ownerVars
<1>2. live[o] \in 1 .. MaxHandlers
  BY <1>1, HandlerParts DEF NetInv
<1>3. <<o, live[o]>> \in Handler
  BY <1>2, HandlerParts
<1> QED BY <1>1, <1>3 DEF NetInv, Single, UnregisteredIsOut

(* register_handler and unregister_handler. *)
LEMMA PassesStep ==
  ASSUME NetInv, RegisterPasses \/ UnregisterPasses
  PROVE  NetInv'
<1>1. /\ first # Nil /\ UNCHANGED <<next, registered, caller, who, made, live>>
      /\ first' = next[first] \/ first' = first
  BY DEF RegisterPasses, UnregisterPasses, ownerVars
<1>2. first' = Nil \/ first' = first
  BY <1>1 DEF NetInv, Single
<1> QED BY <1>1, <1>2 DEF NetInv, Single, UnregisteredIsOut

LEMMA RegisterPutsStep ==
  ASSUME NetInv, RegisterPuts
  PROVE  NetInv'
<1>1. /\ caller = "register" /\ first' = who
      /\ next' = [next EXCEPT ![who] = Nil] /\ caller' = "idle"
      /\ registered' = registered \cup {who}
      /\ UNCHANGED <<who, made, live>>
  BY DEF RegisterPuts, ownerVars
<1>2. who \in Handler
  BY <1>1 DEF NetInv
<1>3. next' \in [Handler -> Handler \cup {Nil}] /\ next'[who] = Nil
  BY <1>1, <1>2 DEF NetInv
<1> QED BY <1>1, <1>2, <1>3 DEF NetInv, Single, UnregisteredIsOut

LEMMA UnregisterStep ==
  ASSUME NetInv, UnregisterFinds \/ UnregisterEnds
  PROVE  NetInv'
<1>1. /\ \/ first = who /\ first' = next[who]
         \/ first = Nil /\ first' = first
      /\ caller = "unregister" /\ caller' = "idle"
      /\ registered' = registered \ {who}
      /\ UNCHANGED <<next, who, made, live>>
  BY DEF UnregisterFinds, UnregisterEnds, ownerVars
<1>2. who \in Handler
  BY <1>1 DEF NetInv
<1>3. first' = Nil
  BY <1>1, <1>2, HandlerParts DEF NetInv, Single
<1> QED BY <1>1, <1>3 DEF NetInv, Single, UnregisteredIsOut

(* All that leaves the list and the owners as they are. *)
LEMMA OtherStep ==
  ASSUME NetInv,
         \/ NetInit \/ NetDeinit \/ NetStart \/ NetStop \/ NetStopped \/ OtherFile
         \/ Received \/ HandleEvent \/ PassesOver \/ Handled \/ Dispatched \/ NetThreadDies
         \/ UNCHANGED netVars
  PROVE  NetInv'
<1>1. CASE NetStop \/ NetDeinit \/ NetStopped
  <2>1. /\ caller' = caller \/ caller' \in {"idle", "join"}
        /\ UNCHANGED <<first, next, registered, who, made, live>>
    BY <1>1 DEF NetStop, NetDeinit, NetStopped, Stopping, Fault, listVars, ownerVars
  <2> QED BY <2>1 DEF NetInv, Single, UnregisteredIsOut
<1>2. CASE ~(NetStop \/ NetDeinit \/ NetStopped)
  <2>1. UNCHANGED <<first, next, registered, caller, who, made, live>>
    BY <1>2 DEF NetInit, NetStart, OtherFile, Received, HandleEvent, PassesOver, Handled,
                Dispatched, NetThreadDies, netVars, listVars, ownerVars
  <2> QED BY <2>1 DEF NetInv, Single, UnregisteredIsOut
<1> QED BY <1>1, <1>2

LEMMA NetInvStep == NetInv /\ [NetlinkNext]_netVars => NetInv'
BY OwnerInitStep, OwnerDeinitStep, OwnerDropsStep, ListCallStep, PassesStep,
   RegisterPutsStep, UnregisterStep, OtherStep
   DEF NetlinkNext

LEMMA NetInvInit == NetlinkInit => NetInv
BY HandlerParts DEF NetlinkInit, NetInv, Single, UnregisteredIsOut

(* For any owners and any number of handlers the list holds no handler     *)
(* that was unregistered.                                                  *)
THEOREM UnregisteredAlwaysOut == NetlinkSpec => []UnregisteredIsOut
<1>1. NetInv => UnregisteredIsOut BY DEF NetInv
<1> QED BY <1>1, NetInvInit, NetInvStep, PTL DEF NetlinkSpec

-----------------------------------------------------------------------------
(***************************************************************************)
(* Gpio, for any set of pins and every sequence of calls: the manager's    *)
(* table of pins agrees with the kernel.                                   *)
(***************************************************************************)

(* The inductive invariant, pin by pin.  What PinsAgree lacks is that a    *)
(* watched pin is exported: open, which gives up the descriptor without    *)
(* closing it, is called for pins that are not valid, hence not exported,  *)
(* hence not watched.                                                      *)
Sound(r) ==
  /\ r \in PinState
  /\ r.exported => r.valid
  /\ r.watched => r.irq /\ r.fd # "none" /\ r.exported
  /\ r.valid /\ ~r.exported => r.closed

GpioInv ==
  /\ DOMAIN pin = Pin
  /\ pin = [io \in Pin |-> pin[io]]
  /\ \A io \in Pin : Sound(pin[io]) /\ (pin[io].watched => started)
  /\ started \in BOOLEAN
  /\ irqFunc \in BOOLEAN

(* A call keeps a pin sound, and watches no pin that was not watched. *)
PinKept(s, r) == Sound(s) /\ (s.watched => r.watched)

USE DEF Sound, PinKept, PinState, Dir

(* libgpio: each call keeps a sound pin sound. *)
LEMMA EnsureOpenSound ==
  ASSUME NEW r, Sound(r) PROVE PinKept(EnsureOpen(r), r)
BY DEF EnsureOpen, GpioOpen

LEMMA CloseFdSound ==
  ASSUME NEW r, Sound(r)
  PROVE  PinKept(CloseFd(r), r) /\ ~CloseFd(r).watched
         /\ CloseFd(r).exported = r.exported
BY DEF CloseFd

LEMMA GpioCloseSound ==
  ASSUME NEW r, Sound(r) PROVE PinKept(GpioClose(r), r)
<1> DEFINE q == CloseFd(r)
<1>1. Sound(q) /\ ~q.watched /\ q.exported = r.exported
  BY CloseFdSound
<1>2. GpioClose(r) = [q EXCEPT !.valid = r.exported, !.exported = FALSE, !.closed = TRUE]
  BY DEF GpioClose
<1> HIDE DEF q
<1> QED BY <1>1, <1>2

LEMMA DirectionSound ==
  ASSUME NEW r, Sound(r), NEW d \in Dir PROVE PinKept(Direction(r, d), r)
BY DEF Direction

LEMMA OpenValueFdSound ==
  ASSUME NEW r, Sound(r) PROVE PinKept(OpenValueFd(r), r)
BY DEF OpenValueFd

LEMMA GpioSetValueSound ==
  ASSUME NEW r, Sound(r) PROVE PinKept(GpioSetValue(r), r)
<1> DEFINE o == OpenValueFd(r)
<1>1. PinKept(o, r) BY OpenValueFdSound
<1>2. PinKept(CloseFd(o), o) BY <1>1, CloseFdSound
<1>3. GpioSetValue(r) \in {r, o, CloseFd(o)} BY DEF GpioSetValue
<1> HIDE DEF o
<1> QED BY <1>1, <1>2, <1>3

LEMMA GpioGetValueSound ==
  ASSUME NEW r, Sound(r) PROVE PinKept(GpioGetValue(r), r)
BY OpenValueFdSound DEF GpioGetValue

(* The manager: disable_irq clears the mode and then the registration. *)
LEMMA DisableSound ==
  ASSUME NEW r, Sound(r) PROVE PinKept(DisablePin(r), r)
BY DEF DisablePin, GpioEnableIrq

LEMMA CloseSound ==
  ASSUME NEW r, Sound(r) PROVE PinKept(ClosePin(r), r)
<1> DEFINE q == DisablePin(r)
<1>1. PinKept(q, r) BY DisableSound
<1>2. PinKept(GpioClose(q), q) BY <1>1, GpioCloseSound
<1>3. ClosePin(r) \in {q, GpioClose(q)} BY DEF ClosePin
<1> HIDE DEF q
<1> QED BY <1>1, <1>2, <1>3
-----------------------------------------------------------------------------
(* From here on a pin is sound or it is not: its fields do not matter.     *)
HIDE DEF Sound, PinState, Dir

LEMMA BecomesKeeps ==
  ASSUME GpioInv, NEW io \in Pin, NEW r, PinKept(r, pin[io]), Becomes(io, r)
  PROVE  GpioInv'
<1>1. pin' = [pin EXCEPT ![io] = r] /\ UNCHANGED <<started, irqFunc>>
  BY DEF Becomes
<1>2. ASSUME NEW q \in Pin
      PROVE  Sound(pin'[q]) /\ (pin'[q].watched => started)
  <2>1. pin'[q] = IF q = io THEN r ELSE pin[q]
    BY <1>1 DEF GpioInv
  <2> QED BY <2>1 DEF GpioInv
<1> QED BY <1>1, <1>2 DEF GpioInv

LEMMA EnableIrqKeeps ==
  ASSUME GpioInv, NEW io \in Pin, EnableIrq(io) PROVE GpioInv'
<1> DEFINE r == GpioGetValue(pin[io])
           s == [r EXCEPT !.irq = TRUE, !.watched = TRUE]
           armed == r.fd # "none" /\ r.dir = "in" /\ r.valid /\ r.exported
<1>1. PinKept(r, pin[io]) BY GpioGetValueSound DEF GpioInv
<1>2. started' /\ started' \in BOOLEAN /\ irqFunc' = irqFunc
  BY DEF EnableIrq
<1>3. \/ pin' = pin
      \/ pin' = [pin EXCEPT ![io] = r]
      \/ armed /\ pin' = [pin EXCEPT ![io] = s]
  BY DEF EnableIrq
<1> HIDE DEF r
<1>4. armed => Sound(s) BY <1>1 DEF Sound, PinState
<1> HIDE DEF s, armed
<1>5. ASSUME NEW q \in Pin PROVE Sound(pin'[q])
  <2>1. pin'[q] = pin[q] \/ pin'[q] = r \/ (armed /\ pin'[q] = s)
    BY <1>3 DEF GpioInv
  <2> QED BY <2>1, <1>1, <1>4 DEF GpioInv
<1>6. DOMAIN pin' = Pin /\ pin' = [q \in Pin |-> pin'[q]]
  BY <1>3 DEF GpioInv
<1> QED BY <1>2, <1>5, <1>6 DEF GpioInv

LEMMA DeinitGpioKeeps ==
  ASSUME GpioInv, DeinitGpio PROVE GpioInv'
<1> DEFINE c(io) == IF pin[io].valid THEN ClosePin(pin[io]) ELSE pin[io]
           e(io) == IF started THEN [c(io) EXCEPT !.watched = FALSE] ELSE c(io)
<1>1. pin' = [io \in Pin |-> e(io)] /\ started' = FALSE /\ irqFunc' = irqFunc
  BY DEF DeinitGpio
<1>2. ASSUME NEW io \in Pin PROVE Sound(e(io)) /\ ~e(io).watched
  <2>1. PinKept(c(io), pin[io]) BY CloseSound DEF GpioInv
  <2> HIDE DEF c
  <2> QED BY <2>1 DEF GpioInv, Sound, PinState
<1> HIDE DEF e
<1>3. \A io \in Pin : pin'[io] = e(io)
  BY <1>1
<1>4. DOMAIN pin' = Pin /\ pin' = [io \in Pin |-> pin'[io]]
  BY <1>1
<1> QED BY <1>1, <1>2, <1>3, <1>4 DEF GpioInv

LEMMA GpioInvInit == GpioInit => GpioInv
<1> SUFFICES ASSUME GpioInit PROVE GpioInv
  OBVIOUS
<1>1. /\ DOMAIN pin = Pin /\ pin = [io \in Pin |-> pin[io]]
      /\ started = FALSE /\ irqFunc = FALSE
  BY DEF GpioInit
<1>2. ASSUME NEW io \in Pin PROVE Sound(pin[io]) /\ ~pin[io].watched
  <2>1. PICK d \in Dir :
          pin[io] = [valid |-> FALSE, dir |-> "in", irq |-> FALSE,
                    fd |-> "none", exported |-> FALSE, hwDir |-> d,
                    watched |-> FALSE, closed |-> FALSE]
    BY DEF GpioInit
  <2> QED BY <2>1 DEF Sound, PinState, Dir
<1> QED BY <1>1, <1>2 DEF GpioInv

LEMMA GpioInvStep == GpioInv /\ [GpioNext]_gpioVars => GpioInv'
<1> SUFFICES ASSUME GpioInv, [GpioNext]_gpioVars PROVE GpioInv'
  OBVIOUS
<1>0. \A io \in Pin : Sound(pin[io]) BY DEF GpioInv
<1>1. ASSUME NEW io \in Pin, OpenGpio(io) \/ GetDirection(io) PROVE GpioInv'
  BY <1>0, <1>1, EnsureOpenSound, BecomesKeeps DEF OpenGpio, GetDirection
<1>2. ASSUME NEW io \in Pin, CloseGpio(io) PROVE GpioInv'
  BY <1>0, <1>2, CloseSound, BecomesKeeps DEF CloseGpio
<1>3. ASSUME NEW io \in Pin, NEW d \in Dir, SetDirection(io, d) PROVE GpioInv'
  <2> DEFINE o == EnsureOpen(pin[io])
             r == IF o.valid THEN Direction(o, d) ELSE o
  <2>1. PinKept(o, pin[io]) BY <1>0, EnsureOpenSound
  <2>2. PinKept(Direction(o, d), o) BY <2>1, DirectionSound
  <2>3. Becomes(io, r) BY <1>3 DEF SetDirection
  <2> HIDE DEF o
  <2>4. PinKept(r, pin[io]) BY <2>1, <2>2
  <2> QED BY <2>3, <2>4, BecomesKeeps
<1>4. ASSUME NEW io \in Pin, GetValue(io) \/ SetValue(io) PROVE GpioInv'
  <2> DEFINE o == EnsureOpen(pin[io])
  <2>1. PinKept(o, pin[io]) BY <1>0, EnsureOpenSound
  <2>2. PinKept(GpioGetValue(o), o) /\ PinKept(GpioSetValue(o), o)
    BY <2>1, GpioGetValueSound, GpioSetValueSound
  <2>3. Becomes(io, GpioGetValue(o)) \/ Becomes(io, GpioSetValue(o))
    BY <1>4 DEF GetValue, SetValue
  <2> HIDE DEF o
  <2>4. PinKept(GpioGetValue(o), pin[io]) /\ PinKept(GpioSetValue(o), pin[io])
    BY <2>1, <2>2
  <2> QED BY <2>3, <2>4, BecomesKeeps
<1>5. ASSUME NEW io \in Pin, DisableIrq(io) PROVE GpioInv'
  BY <1>0, <1>5, DisableSound, BecomesKeeps DEF DisableIrq
<1>6. ASSUME SetIrqFunc \/ InitGpio \/ UNCHANGED gpioVars PROVE GpioInv'
  BY <1>6 DEF SetIrqFunc, InitGpio, gpioVars, GpioInv
<1> QED BY <1>1, <1>2, <1>3, <1>4, <1>5, <1>6, EnableIrqKeeps, DeinitGpioKeeps DEF GpioNext

(* The invariant implies the type invariant and the agreement. *)
LEMMA GpioInvEnough == GpioInv => GpioTypeOK /\ PinsAgree
BY DEF GpioInv, GpioTypeOK, PinsAgree, Sound

(* For any set of pins and every sequence of calls the manager's table and *)
(* the kernel agree: no pin that was exported is taken for invalid, no     *)
(* interrupt is watched that close would not find, and only a pin that was *)
(* closed is valid without being exported.                                 *)
THEOREM PinsAlwaysAgree == GpioSpec => [](GpioTypeOK /\ PinsAgree)
BY GpioInvInit, GpioInvStep, GpioInvEnough, PTL DEF GpioSpec

-----------------------------------------------------------------------------
(***************************************************************************)
(* UartPorts, for any threads, ports and channels, and any number of       *)
(* calls: what holds until two inits or deinits race.                      *)
(***************************************************************************)

Entry == [name : Port \cup {NoPort}, isInit : BOOLEAN,
          lock : {"free", "held", "gone"}, port : Port \cup {NoPort}]

TableType == portDev \in [Channel -> Entry]

ThreadsType ==
  /\ step \in [UartThread -> {"idle", "check", "find", "refind", "prepare", "claim",
                              "lock", "init", "deinit", "io", "free"}]
  /\ op \in [UartThread -> {"init", "deinit", "io"}]
  /\ devname \in [UartThread -> Port \cup {NoPort}]
  /\ i \in [UartThread -> Channel] /\ dev \in [UartThread -> Channel]
  /\ mine \subseteq Port /\ changing \in [UartThread -> BOOLEAN]
  /\ raced \in BOOLEAN /\ died \in BOOLEAN

-----------------------------------------------------------------------------
(* What a step does to the table.                                          *)
(* Only channel d is written, and then holds name n, is_init b, port pt.  *)
EntryIs(d, n, b, pt) ==
  /\ portDev' \in [Channel -> Entry]
  /\ portDev'[d].name = n /\ portDev'[d].isInit = b /\ portDev'[d].port = pt
  /\ \A c \in Channel \ {d} : portDev'[c] = portDev[c]

(* Nothing but locks is written. *)
OnlyLocks ==
  /\ portDev' \in [Channel -> Entry]
  /\ \A c \in Channel : /\ portDev'[c].name = portDev[c].name
                        /\ portDev'[c].isInit = portDev[c].isInit
                        /\ portDev'[c].port = portDev[c].port

LEMMA ClaimWrites ==
  ASSUME TableType, ThreadsType, NEW t \in UartThread, Claim(t)
  PROVE  EntryIs(dev[t], devname[t], TRUE, portDev[dev[t]].port)
<1> DEFINE d == dev[t]
<1>1. d \in Channel /\ devname[t] \in Port \cup {NoPort} /\ portDev \in [Channel -> Entry]
  BY DEF TableType, ThreadsType
<1>2. portDev' = [portDev EXCEPT ![d].name = devname[t], ![d].isInit = TRUE,
                                 ![d].lock = "free"]
  BY DEF Claim
<1> HIDE DEF d
<1>3. \A c \in Channel \ {d} : portDev'[c] = portDev[c]
  BY <1>1, <1>2
<1>4. portDev'[d] = [portDev[d] EXCEPT !.name = devname[t], !.isInit = TRUE, !.lock = "free"]
  BY <1>1, <1>2
<1>5. portDev[d] \in Entry
  BY <1>1
<1>6. /\ portDev'[d] \in Entry
      /\ portDev'[d].name = devname[t] /\ portDev'[d].isInit = TRUE
      /\ portDev'[d].port = portDev[d].port
  BY <1>1, <1>4, <1>5 DEF Entry
<1>7. portDev' \in [Channel -> Entry]
  BY <1>1, <1>2, <1>3, <1>6
<1>. QED BY <1>3, <1>6, <1>7 DEF EntryIs, d

LEMMA FreeWrites ==
  ASSUME TableType, ThreadsType, NEW t \in UartThread, Free(t)
  PROVE  EntryIs(dev[t], NoPort, FALSE, portDev[dev[t]].port)
<1> DEFINE d == dev[t]
           k == IF portDev[d].lock = "held" THEN portDev[d].lock ELSE "gone"
<1>1. d \in Channel /\ portDev \in [Channel -> Entry]
  BY DEF TableType, ThreadsType
<1>2. portDev' = [portDev EXCEPT ![d].name = NoPort, ![d].isInit = FALSE,
                                 ![d].lock = IF @ = "held" THEN @ ELSE "gone"]
  BY DEF Free
<1>3. k \in {"free", "held", "gone"}
  OBVIOUS
<1> HIDE DEF d
<1>4. \A c \in Channel \ {d} : portDev'[c] = portDev[c]
  BY <1>1, <1>2
<1>5. portDev'[d] = [portDev[d] EXCEPT !.name = NoPort, !.isInit = FALSE, !.lock = k]
  BY <1>1, <1>2
<1>6. portDev[d] \in Entry
  BY <1>1
<1> HIDE DEF k
<1>7. /\ portDev'[d] \in Entry
      /\ portDev'[d].name = NoPort /\ portDev'[d].isInit = FALSE
      /\ portDev'[d].port = portDev[d].port
  BY <1>3, <1>5, <1>6 DEF Entry
<1>8. portDev' \in [Channel -> Entry]
  BY <1>1, <1>2, <1>4, <1>7
<1>. QED BY <1>4, <1>7, <1>8 DEF EntryIs, d

LEMMA UnlockedWrites ==
  ASSUME TableType, ThreadsType, NEW d \in Channel, NEW pt \in Port \cup {NoPort},
         portDev' = Unlocked(d, pt)
  PROVE  EntryIs(d, portDev[d].name, portDev[d].isInit, pt)
<1> DEFINE k == IF portDev[d].lock = "held" THEN "free" ELSE portDev[d].lock
<1>1. portDev \in [Channel -> Entry]
  BY DEF TableType
<1>2. portDev' = [portDev EXCEPT ![d].lock = IF @ = "held" THEN "free" ELSE @, ![d].port = pt]
  BY DEF Unlocked
<1>3. \A c \in Channel \ {d} : portDev'[c] = portDev[c]
  BY <1>1, <1>2
<1>4. portDev'[d] = [portDev[d] EXCEPT !.lock = k, !.port = pt]
  BY <1>1, <1>2
<1>5. portDev[d] \in Entry
  BY <1>1
<1>6. k \in {"free", "held", "gone"}
  BY <1>5 DEF Entry
<1> HIDE DEF k
<1>7. /\ portDev'[d] \in Entry /\ portDev'[d].port = pt
      /\ portDev'[d].name = portDev[d].name /\ portDev'[d].isInit = portDev[d].isInit
  BY <1>4, <1>5, <1>6 DEF Entry
<1>8. portDev' \in [Channel -> Entry]
  BY <1>1, <1>2, <1>3, <1>7
<1>. QED BY <1>3, <1>7, <1>8 DEF EntryIs

LEMMA LockWrites ==
  ASSUME TableType, ThreadsType, NEW t \in UartThread, Lock(t)
  PROVE  OnlyLocks
<1> DEFINE d == dev[t]
           k == IF portDev[d].lock = "free" THEN "held" ELSE portDev[d].lock
<1>1. d \in Channel /\ portDev \in [Channel -> Entry]
  BY DEF TableType, ThreadsType
<1>2. portDev' = [portDev EXCEPT ![d].lock = IF @ = "free" THEN "held" ELSE @]
  BY DEF Lock
<1> HIDE DEF d
<1>3. \A c \in Channel \ {d} : portDev'[c] = portDev[c]
  BY <1>1, <1>2
<1>4. portDev'[d] = [portDev[d] EXCEPT !.lock = k]
  BY <1>1, <1>2
<1>5. portDev[d] \in Entry
  BY <1>1
<1>6. k \in {"free", "held", "gone"}
  BY <1>5 DEF Entry
<1> HIDE DEF k
<1>7. /\ portDev'[d] \in Entry /\ portDev'[d].port = portDev[d].port
      /\ portDev'[d].name = portDev[d].name /\ portDev'[d].isInit = portDev[d].isInit
  BY <1>4, <1>5, <1>6 DEF Entry
<1>8. portDev' \in [Channel -> Entry]
  BY <1>1, <1>2, <1>3, <1>7
<1>. QED BY <1>3, <1>7, <1>8 DEF OnlyLocks

LEMMA IoWrites ==
  ASSUME TableType, ThreadsType, NEW t \in UartThread, Io(t)
  PROVE  OnlyLocks
<1>1. dev[t] \in Channel /\ portDev[dev[t]].port \in Port \cup {NoPort}
  BY DEF TableType, ThreadsType, Entry
<1>2. EntryIs(dev[t], portDev[dev[t]].name, portDev[dev[t]].isInit, portDev[dev[t]].port)
  BY <1>1, UnlockedWrites DEF Io
<1>. QED BY <1>2 DEF EntryIs, OnlyLocks

-----------------------------------------------------------------------------
(* The types, with that a thread in a call has a port. *)
PortsTyped ==
  TableType /\ ThreadsType /\ (\A t \in UartThread : step[t] # "idle" => devname[t] \in Port)

LEMMA ScanTyped ==
  ASSUME PortsTyped, NEW t \in UartThread, Scan(t)
  PROVE  PortsTyped'
<1>1. /\ step[t] # "idle" /\ UNCHANGED <<portDev, op, devname, mine, changing, raced>>
      /\ dev' = dev \/ dev' = [dev EXCEPT ![t] = i[t]]
      /\ died' = died \/ died' = TRUE
  BY DEF Scan
<1>2. UNCHANGED step \/ \E s \in {"idle", "find", "lock", "free", "prepare"} : Goto(t, s)
  BY DEF Scan, Goto, Search
<1>3. i' = i \/ i' = [i EXCEPT ![t] = 1] \/ (i[t] < MaxChannels /\ i' = [i EXCEPT ![t] = i[t] + 1])
  BY DEF Scan, Search
<1>4. i[t] \in Channel /\ 1 \in Channel /\ (i[t] < MaxChannels => i[t] + 1 \in Channel)
  BY UartPortsAssumption DEF PortsTyped, ThreadsType, Channel
<1>5. i' \in [UartThread -> Channel] /\ dev' \in [UartThread -> Channel]
  BY <1>1, <1>3, <1>4 DEF PortsTyped, ThreadsType
<1>6. \A u \in UartThread : step'[u] # "idle" => step[u] # "idle"
  BY <1>1, <1>2 DEF Goto, PortsTyped, ThreadsType
<1>7. TableType' /\ ThreadsType'
  BY <1>1, <1>2, <1>5 DEF Goto, PortsTyped, TableType, ThreadsType
<1>. QED BY <1>1, <1>6, <1>7 DEF PortsTyped

LEMMA PrepareTyped ==
  ASSUME PortsTyped, NEW t \in UartThread, Prepare(t)
  PROVE  PortsTyped'
<1>1. /\ step[t] # "idle" /\ UNCHANGED <<portDev, op, devname, mine, changing, raced>>
      /\ dev' = dev \/ dev' = [dev EXCEPT ![t] = i[t]]
      /\ died' = died \/ died' = TRUE
      /\ UNCHANGED step \/ Goto(t, "claim")
  BY DEF Prepare
<1>2. i' = i \/ (i[t] < MaxChannels /\ i' = [i EXCEPT ![t] = i[t] + 1])
  BY DEF Prepare
<1>3. i[t] \in Channel /\ (i[t] < MaxChannels => i[t] + 1 \in Channel)
  BY UartPortsAssumption DEF PortsTyped, ThreadsType, Channel
<1>4. i' \in [UartThread -> Channel] /\ dev' \in [UartThread -> Channel]
  BY <1>1, <1>2, <1>3 DEF PortsTyped, ThreadsType
<1>5. \A u \in UartThread : step'[u] # "idle" => step[u] # "idle"
  BY <1>1 DEF Goto, PortsTyped, ThreadsType
<1>6. TableType' /\ ThreadsType'
  BY <1>1, <1>4 DEF Goto, PortsTyped, TableType, ThreadsType
<1>. QED BY <1>1, <1>5, <1>6 DEF PortsTyped

(* A step that writes the table, behind the look-up. *)
LEMMA WriteTyped ==
  ASSUME PortsTyped, NEW t \in UartThread, step[t] # "idle",
         portDev' \in [Channel -> Entry],
         NEW s \in {"idle", "lock", "init", "deinit", "io", "refind"}, Goto(t, s),
         mine' \in {mine, mine \cup {devname[t]}},
         i' = i \/ i' = [i EXCEPT ![t] = 1],
         raced' \in BOOLEAN,
         UNCHANGED <<op, devname, dev, changing, died>>
  PROVE  PortsTyped'
<1>1. 1 \in Channel
  BY UartPortsAssumption DEF Channel
<1>2. mine' \subseteq Port
  BY DEF PortsTyped, ThreadsType
<1>3. \A u \in UartThread : step'[u] # "idle" => step[u] # "idle"
  BY DEF Goto, PortsTyped, ThreadsType
<1>4. TableType' /\ ThreadsType'
  BY <1>1, <1>2 DEF Goto, PortsTyped, TableType, ThreadsType
<1>. QED BY <1>3, <1>4 DEF PortsTyped

LEMMA PortsTypedStep == PortsTyped /\ [PortsNext]_portsVars => PortsTyped'
<1> SUFFICES ASSUME PortsTyped, [PortsNext]_portsVars PROVE PortsTyped'
  OBVIOUS
<1>0. raced \in BOOLEAN
  BY DEF PortsTyped, ThreadsType
<1>1. ASSUME NEW t \in UartThread, NEW o \in {"init", "deinit", "io"}, NEW pt \in Port,
             Call(t, o, pt)
      PROVE  PortsTyped'
  <2>1. 1 \in Channel
    BY UartPortsAssumption DEF Channel
  <2>2. \A u \in UartThread : changing'[u] \in BOOLEAN
    BY <1>1 DEF Call, PortsTyped, ThreadsType
  <2>3. changing' = [u \in UartThread |-> changing'[u]]
    BY <1>1 DEF Call
  <2>4. TableType' /\ ThreadsType'
    BY <1>1, <2>1, <2>2, <2>3 DEF Call, Search, Goto, PortsTyped, TableType, ThreadsType
  <2>5. \A u \in UartThread : step'[u] # "idle" => devname'[u] \in Port
    BY <1>1 DEF Call, Search, Goto, PortsTyped, ThreadsType
  <2>. QED BY <2>4, <2>5 DEF PortsTyped
<1>2. ASSUME NEW t \in UartThread, Claim(t)
      PROVE  PortsTyped'
  BY <1>2, ClaimWrites, WriteTyped DEF Claim, PortsTyped, EntryIs
<1>3. ASSUME NEW t \in UartThread, Lock(t)
      PROVE  PortsTyped'
  <2>1. portDev' \in [Channel -> Entry]
    BY <1>3, LockWrites DEF PortsTyped, OnlyLocks
  <2>2. op[t] \in {"init", "deinit", "io"}
    BY DEF PortsTyped, ThreadsType
  <2>. QED BY <1>0, <1>3, <2>1, <2>2, WriteTyped DEF Lock
<1>4. ASSUME NEW t \in UartThread, Open(t)
      PROVE  PortsTyped'
  <2>0. dev[t] \in Channel /\ devname[t] \in Port \cup {NoPort}
    BY DEF PortsTyped, ThreadsType
  <2>1. portDev' \in [Channel -> Entry]
    BY <1>4, <2>0, UnlockedWrites DEF Open, PortsTyped, EntryIs
  <2>. QED BY <1>0, <1>4, <2>1, WriteTyped DEF Open, Search
<1>5. ASSUME NEW t \in UartThread, Close(t)
      PROVE  PortsTyped'
  <2>0. dev[t] \in Channel
    BY DEF PortsTyped, ThreadsType
  <2>1. portDev' \in [Channel -> Entry]
    BY <1>5, <2>0, UnlockedWrites DEF Close, PortsTyped, EntryIs, TableType
  <2>. QED BY <1>0, <1>5, <2>1, WriteTyped DEF Close, Search
<1>6. ASSUME NEW t \in UartThread, Free(t)
      PROVE  PortsTyped'
  BY <1>0, <1>6, FreeWrites, WriteTyped DEF Free, PortsTyped, EntryIs
<1>7. ASSUME NEW t \in UartThread, Io(t)
      PROVE  PortsTyped'
  BY <1>0, <1>7, IoWrites, WriteTyped DEF Io, PortsTyped, OnlyLocks
<1>8. CASE UNCHANGED portsVars
  BY <1>8 DEF portsVars, threadVars, PortsTyped, TableType, ThreadsType
<1>. QED BY <1>1, <1>2, <1>3, <1>4, <1>5, <1>6, <1>7, <1>8, ScanTyped, PrepareTyped DEF PortsNext

LEMMA PortsInitTyped == PortsInit => PortsTyped
<1> SUFFICES ASSUME PortsInit PROVE PortsTyped
  OBVIOUS
<1>1. 1 \in Channel
  BY UartPortsAssumption DEF Channel
<1>2. portDev \in [Channel -> Entry]
  BY DEF PortsInit, Entry
<1>. QED BY <1>1, <1>2 DEF PortsInit, PortsTyped, TableType, ThreadsType

(* For any number of threads, ports and channels.                          *)
THEOREM PortsTypesAlways == PortsSpec => []PortsTypeOK
<1>1. PortsTyped => PortsTypeOK
  BY DEF PortsTyped, TableType, ThreadsType, Entry, PortsTypeOK
<1>. QED BY <1>1, PortsInitTyped, PortsTypedStep, PTL DEF PortsSpec

-----------------------------------------------------------------------------
(***************************************************************************)
(* While nothing has raced: a port has one changer at a time, who knows    *)
(* where its port is, whatever the changers of other ports do meanwhile.   *)
(***************************************************************************)
OneChanger ==
  \A t, u \in UartThread : Changer(t) /\ Changer(u) /\ devname[t] = devname[u] => t = u

(* A channel in use has at most its own port open, a free one none, and a  *)
(* port is in one channel at most.                                         *)
TableInv ==
  /\ \A c \in Channel :
       /\ portDev[c].isInit => portDev[c].port \in {portDev[c].name, NoPort}
       /\ ~portDev[c].isInit => portDev[c].port = NoPort
  /\ \A pt \in Port, c, d \in Channel : Matches(c, pt) /\ Matches(d, pt) => c = d

(* What a changer knows of the table. *)
ChangerKnows(t) ==
  Changer(t) =>
    /\ op[t] = "init" => step[t] \in {"check", "find", "prepare", "claim", "lock",
                                      "init", "refind", "free"}
    /\ op[t] = "deinit" => step[t] \in {"find", "lock", "deinit", "refind", "free"}
    /\ op[t] = "deinit" \/ step[t] \notin {"check", "find"} => devname[t] \notin mine
    /\ op[t] = "init" /\ step[t] = "find" =>
         \A c \in Channel : c < i[t] => ~Matches(c, devname[t])
    /\ step[t] \in {"prepare", "claim"} => \A c \in Channel : ~Matches(c, devname[t])
    /\ step[t] \in {"lock", "init", "deinit", "refind", "free"} =>
         Matches(dev[t], devname[t])
    /\ step[t] \in {"refind", "free"} => portDev[dev[t]].port = NoPort

(* What io knows while no init or deinit of its port is under way. *)
IoKnows(t) ==
  Busy(t) /\ op[t] = "io" =>
    /\ step[t] \in {"find", "lock", "io"}
    /\ ~changing[t] =>
         /\ step[t] \in {"lock", "io"} => Matches(dev[t], devname[t])
         /\ \A u \in UartThread : Changer(u) => devname[u] # devname[t]

Knows(t) == ChangerKnows(t) /\ IoKnows(t)

Stays(pt) ==
  \E c \in Channel : /\ portDev[c].isInit /\ portDev[c].name = pt /\ portDev[c].port = pt
                     /\ \A d \in Channel \ {c} : portDev[d].isInit => portDev[d].name # pt

PortsSound ==
  /\ OneChanger /\ TableInv
  /\ \A t \in UartThread : Knows(t)
  /\ \A pt \in mine : Stays(pt)

PortsInv == PortsTyped /\ (~raced => PortsSound)

LEMMA PortsInitInv == PortsInit => PortsInv
<1> SUFFICES ASSUME PortsInit PROVE PortsSound
  BY PortsInitTyped DEF PortsInv
<1>1. \A t \in UartThread : ~Busy(t)
  BY DEF PortsInit, Busy
<1>2. \A c \in Channel : ~portDev[c].isInit /\ portDev[c].port = NoPort
  BY DEF PortsInit
<1>. QED BY <1>1, <1>2 DEF PortsInit, PortsSound, OneChanger, TableInv, Knows, ChangerKnows,
                            IoKnows, Changer, Matches

-----------------------------------------------------------------------------
(* Only the ports of Q are touched by a step: every other is found where   *)
(* it was, and open if it was.                                             *)
Touches(Q) ==
  \A pt \in Port \ Q, c \in Channel :
    /\ portDev'[c].isInit /\ portDev'[c].name = pt <=> Matches(c, pt)
    /\ Matches(c, pt) => portDev'[c].port = portDev[c].port

(* A step of thread t, not a Call. *)
StepOf(t) ==
  /\ Busy(t)
  /\ UNCHANGED <<op, devname, changing>>
  /\ \A u \in UartThread \ {t} : step'[u] = step[u] /\ i'[u] = i[u] /\ dev'[u] = dev[u]

LEMMA TouchesOne ==
  ASSUME NEW d \in Channel, NEW n, NEW b \in BOOLEAN, NEW v, EntryIs(d, n, b, v),
         NEW q, portDev[d].isInit => portDev[d].name = q, b => n = q
  PROVE  Touches({q})
<1> SUFFICES ASSUME NEW pt \in Port \ {q}, NEW c \in Channel
             PROVE  /\ portDev'[c].isInit /\ portDev'[c].name = pt <=> Matches(c, pt)
                    /\ Matches(c, pt) => portDev'[c].port = portDev[c].port
  BY DEF Touches
<1>1. CASE c = d
  BY <1>1 DEF EntryIs, Matches
<1>2. CASE c # d
  BY <1>2 DEF EntryIs, Matches
<1>. QED BY <1>1, <1>2

LEMMA TouchesNone ==
  ASSUME UNCHANGED portDev \/ OnlyLocks
  PROVE  Touches({}) /\ (TableInv => TableInv')
BY DEF OnlyLocks, Touches, TableInv, Matches

(* The table is kept sound by a write that puts no port where another is.  *)
LEMMA KeepsTable ==
  ASSUME TableInv, NEW d \in Channel, NEW n, NEW b \in BOOLEAN, NEW v, EntryIs(d, n, b, v),
         NEW q, portDev[d].isInit => portDev[d].name = q, b => n = q,
         v \in {n, NoPort}, ~b => v = NoPort,
         b => \A c \in Channel \ {d} : ~Matches(c, q)
  PROVE  TableInv'
<1>1. Touches({q})
  BY TouchesOne
<1>2. /\ portDev'[d].isInit = b /\ portDev'[d].name = n /\ portDev'[d].port = v
      /\ \A c \in Channel \ {d} : portDev'[c] = portDev[c]
  BY DEF EntryIs
<1>3. ASSUME NEW c \in Channel
      PROVE  /\ portDev'[c].isInit => portDev'[c].port \in {portDev'[c].name, NoPort}
             /\ ~portDev'[c].isInit => portDev'[c].port = NoPort
  <2>1. CASE c = d
    BY <1>2, <2>1
  <2>2. CASE c # d
    BY <1>2, <2>2 DEF TableInv
  <2>. QED BY <2>1, <2>2
<1>4. ASSUME NEW pt \in Port, NEW c \in Channel, NEW e \in Channel,
             Matches(c, pt)', Matches(e, pt)'
      PROVE  c = e
  <2>1. CASE pt # q
    BY <1>1, <1>4, <2>1 DEF Touches, TableInv, Matches
  <2>2. CASE pt = q /\ b
    BY <1>2, <1>4, <2>2 DEF Matches
  <2>3. CASE pt = q /\ ~b
    <3>1. c # d /\ e # d
      BY <1>2, <1>4, <2>3 DEF Matches
    <3>. QED BY <1>2, <1>4, <3>1 DEF Matches, TableInv
  <2>. QED BY <2>1, <2>2, <2>3
<1>. QED BY <1>3, <1>4 DEF TableInv

(* The other threads know what they knew. *)
LEMMA OthersKnow ==
  ASSUME PortsTyped, PortsSound, NEW t \in UartThread, StepOf(t),
         NEW Q, Q = {} \/ (Q = {devname[t]} /\ Changer(t)), Touches(Q),
         mine' \subseteq mine \cup Q,
         NEW u \in UartThread \ {t}
  PROVE  Knows(u)'
<1>1. \A s \in UartThread : Changer(s)' => Changer(s)
  BY DEF StepOf, Changer, Busy
<1>2. /\ step'[u] = step[u] /\ op'[u] = op[u] /\ devname'[u] = devname[u] /\ i'[u] = i[u]
      /\ dev'[u] = dev[u] /\ changing'[u] = changing[u] /\ dev[u] \in Channel
  BY DEF StepOf, PortsTyped, ThreadsType
<1>3. ASSUME Busy(u), devname[u] \notin Q
      PROVE  /\ \A c \in Channel : Matches(c, devname[u])' <=> Matches(c, devname[u])
             /\ Matches(dev[u], devname[u]) => portDev'[dev[u]].port = portDev[dev[u]].port
  <2>1. devname[u] \in Port
    BY <1>3 DEF PortsTyped, Busy
  <2>. QED BY <1>2, <1>3, <2>1 DEF Touches, Matches
<1>4. ASSUME Changer(u)' PROVE devname[u] \notin Q
  BY <1>1, <1>4 DEF PortsSound, OneChanger
<1>5. ChangerKnows(u)'
  <2> SUFFICES ASSUME Changer(u)' PROVE ChangerKnows(u)'
    BY DEF ChangerKnows
  <2>1. Changer(u) /\ Busy(u) /\ devname[u] \notin Q
    BY <1>1, <1>4 DEF Changer
  <2>2. ChangerKnows(u)
    BY DEF PortsSound, Knows
  <2>3. devname[u] \in mine' => devname[u] \in mine
    BY <2>1
  <2> HIDE DEF Matches, Busy
  <2>. QED BY <1>2, <1>3, <2>1, <2>2, <2>3 DEF ChangerKnows
<1>6. IoKnows(u)'
  <2>1. IoKnows(u) /\ devname' = devname
    BY DEF PortsSound, Knows, StepOf
  <2>2. Busy(u)' <=> Busy(u)
    BY <1>2 DEF Busy
  <2>3. Busy(u) /\ op[u] = "io" /\ ~changing[u] => devname[u] \notin Q
    BY <2>1 DEF IoKnows
  <2>. QED BY <1>1, <1>2, <1>3, <2>1, <2>2, <2>3 DEF IoKnows
<1>. QED BY <1>5, <1>6 DEF Knows

(* What a step of t must keep, when it touches Q. *)
LEMMA StepKeeps ==
  ASSUME PortsTyped, PortsSound, NEW t \in UartThread, StepOf(t),
         NEW Q, Q = {} \/ (Q = {devname[t]} /\ Changer(t)), Touches(Q),
         mine' \subseteq mine \cup Q,
         TableInv', Knows(t)', \A pt \in Q : pt \in mine' => Stays(pt)'
  PROVE  PortsSound'
<1>1. \A u \in UartThread : Knows(u)'
  BY OthersKnow
<1>2. OneChanger'
  BY DEF StepOf, Changer, Busy, PortsSound, OneChanger
<1>3. ASSUME NEW pt \in mine' PROVE Stays(pt)'
  <2>1. CASE pt \in Q
    BY <1>3, <2>1
  <2>2. CASE pt \notin Q
    <3>1. pt \in mine /\ pt \in Port \ Q /\ Stays(pt)
      BY <1>3, <2>2 DEF PortsTyped, ThreadsType, PortsSound
    <3>2. PICK c \in Channel :
            /\ Matches(c, pt) /\ portDev[c].port = pt
            /\ \A d \in Channel \ {c} : ~Matches(d, pt)
      BY <3>1 DEF Stays, Matches
    <3>3. /\ portDev'[c].isInit /\ portDev'[c].name = pt /\ portDev'[c].port = pt
          /\ \A d \in Channel \ {c} : portDev'[d].isInit => portDev'[d].name # pt
      BY <3>1, <3>2 DEF Touches
    <3>. QED BY <3>3 DEF Stays
  <2>. QED BY <2>1, <2>2
<1>. QED BY <1>1, <1>2, <1>3 DEF PortsSound

-----------------------------------------------------------------------------
(* One lemma for each kind of step. *)

LEMMA PortsCallSound ==
  ASSUME PortsTyped, PortsSound, NEW t \in UartThread, NEW o \in {"init", "deinit", "io"},
         NEW pt \in Port, Call(t, o, pt), ~raced'
  PROVE  PortsSound'
<1>1. /\ ~Busy(t) /\ portDev' = portDev /\ dev' = dev
      /\ step' = [step EXCEPT ![t] = IF o = "init" THEN "check" ELSE "find"]
      /\ i' = [i EXCEPT ![t] = 1]
      /\ op' = [op EXCEPT ![t] = o] /\ devname' = [devname EXCEPT ![t] = pt]
      /\ mine' = IF o = "deinit" THEN mine \ {pt} ELSE mine
  BY DEF Call, Search, Goto
<1>2. /\ step'[t] = IF o = "init" THEN "check" ELSE "find"
      /\ i'[t] = 1 /\ op'[t] = o /\ devname'[t] = pt
  BY <1>1 DEF PortsTyped, ThreadsType
<1>3. \A u \in UartThread \ {t} :
        step'[u] = step[u] /\ i'[u] = i[u] /\ op'[u] = op[u] /\ devname'[u] = devname[u]
  BY <1>1 DEF PortsTyped, ThreadsType
<1>4. /\ \A u \in UartThread \ {t} : Changer(u)' <=> Changer(u)
      /\ Changer(t)' <=> o # "io"
  BY <1>2, <1>3 DEF Changer, Busy
<1>5. ~Changer(t) /\ (o # "io" => \A u \in UartThread : Changer(u) => devname[u] # pt)
  BY <1>1 DEF Call, Changer
<1>6. OneChanger'
  <2> SUFFICES ASSUME NEW u \in UartThread, NEW v \in UartThread, Changer(u)', Changer(v)',
                      devname'[u] = devname'[v], u # v
               PROVE  FALSE
    BY DEF OneChanger
  <2>1. CASE u # t /\ v # t
    BY <1>3, <1>4, <2>1 DEF PortsSound, OneChanger
  <2>2. CASE u = t
    BY <1>2, <1>3, <1>4, <1>5, <2>2
  <2>3. CASE v = t
    BY <1>2, <1>3, <1>4, <1>5, <2>3
  <2>. QED BY <2>1, <2>2, <2>3
<1>7. TableInv'
  BY <1>1, TouchesNone DEF PortsSound
<1>8. \A q, c : Matches(c, q)' <=> Matches(c, q)
  BY <1>1 DEF Matches
<1>9. mine' \subseteq mine
  BY <1>1
<1>10. ASSUME NEW u \in UartThread \ {t} PROVE Knows(u)'
  <2>1. ChangerKnows(u)'
    <3>1. ChangerKnows(u)
      BY DEF PortsSound, Knows
    <3>. QED BY <1>1, <1>3, <1>4, <1>8, <1>9, <3>1 DEF ChangerKnows
  <2>2. changing'[u] <=> changing[u] \/ (o # "io" /\ devname[u] = pt)
    BY DEF Call
  <2>3. IoKnows(u)
    BY DEF PortsSound, Knows
  <2>4. IoKnows(u)'
    <3> SUFFICES ASSUME Busy(u)', op'[u] = "io" PROVE IoKnows(u)'
      BY DEF IoKnows
    <3>1. Busy(u) /\ op[u] = "io"
      BY <1>3 DEF Busy
    <3>2. step'[u] \in {"find", "lock", "io"}
      BY <1>3, <2>3, <3>1 DEF IoKnows
    <3>3. ASSUME ~changing'[u]
          PROVE  /\ step'[u] \in {"lock", "io"} => Matches(dev[u], devname[u])
                 /\ \A v \in UartThread : Changer(v)' => devname'[v] # devname[u]
      <4>1. ~changing[u] /\ ~(o # "io" /\ devname[u] = pt)
        BY <2>2, <3>3
      <4>2. ASSUME NEW v \in UartThread, Changer(v)' PROVE devname'[v] # devname[u]
        <5>1. CASE v = t
          BY <1>2, <1>4, <4>1, <4>2, <5>1
        <5>2. CASE v # t
          BY <1>3, <1>4, <2>3, <3>1, <4>1, <4>2, <5>2 DEF IoKnows
        <5>. QED BY <5>1, <5>2
      <4>. QED BY <1>3, <2>3, <3>1, <4>1, <4>2 DEF IoKnows
    <3>. QED BY <1>1, <1>3, <1>8, <3>2, <3>3 DEF IoKnows
  <2>. QED BY <2>1, <2>4 DEF Knows
<1>11. Knows(t)'
  <2>1. ~(\E c \in Channel : c < 1)
    BY DEF Channel
  <2>2. ChangerKnows(t)'
    BY <1>1, <1>2, <1>4, <2>1 DEF ChangerKnows
  <2>3. changing'[t] <=> \E u \in UartThread : Changer(u) /\ devname[u] = pt
    BY DEF Call
  <2>4. IoKnows(t)'
    <3> SUFFICES ASSUME op'[t] = "io" PROVE IoKnows(t)'
      BY DEF IoKnows
    <3>1. ASSUME ~changing'[t], NEW u \in UartThread, Changer(u)' PROVE devname'[u] # devname'[t]
      BY <1>2, <1>3, <1>4, <2>3, <3>1
    <3>. QED BY <1>2, <3>1 DEF IoKnows
  <2>. QED BY <2>2, <2>4 DEF Knows
<1>12. \A q \in mine' : Stays(q)'
  BY <1>1, <1>9 DEF PortsSound, Stays
<1>. QED BY <1>6, <1>7, <1>10, <1>11, <1>12 DEF PortsSound

(* The outcomes of one turn of the look-up. *)
LEMMA ScanOutcome ==
  ASSUME PortsTyped, NEW t \in UartThread, Scan(t)
  PROVE  \/ /\ Matches(i[t], devname[t]) /\ dev'[t] = i[t] /\ i'[t] = i[t]
            /\ \/ step[t] = "check" /\ step'[t] = "idle"
               \/ step[t] = "find" /\ op[t] = "init" /\ step'[t] = "find"
               \/ step[t] = "find" /\ op[t] # "init" /\ step'[t] = "lock"
               \/ step[t] = "refind" /\ step'[t] = "free"
         \/ /\ ~Matches(i[t], devname[t]) /\ dev'[t] = dev[t]
            /\ \/ i[t] < MaxChannels /\ i'[t] = i[t] + 1 /\ step'[t] = step[t]
               \/ /\ i[t] = MaxChannels /\ i'[t] = 1
                  /\ \/ step[t] = "check" /\ step'[t] = "find"
                     \/ step[t] = "find" /\ op[t] = "init" /\ step'[t] = "prepare"
                     \/ step[t] = "find" /\ op[t] # "init" /\ step'[t] = "idle"
                     \/ step[t] = "refind" /\ step'[t] = "idle"
<1>1. /\ \A x : dev' = [dev EXCEPT ![t] = x] => dev'[t] = x
      /\ \A x : i' = [i EXCEPT ![t] = x] => i'[t] = x
      /\ \A x : step' = [step EXCEPT ![t] = x] => step'[t] = x
  BY DEF PortsTyped, ThreadsType
<1>2. CASE step[t] = "check"
  BY <1>1, <1>2 DEF Scan, Goto, Search
<1>3. CASE step[t] = "find" /\ op[t] = "init"
  BY <1>1, <1>3 DEF Scan, Goto, Search
<1>4. CASE step[t] = "find" /\ op[t] # "init"
  BY <1>1, <1>4 DEF Scan, Goto, Search
<1>5. CASE step[t] = "refind"
  BY <1>1, <1>5 DEF Scan, Goto, Search
<1>. QED BY <1>2, <1>3, <1>4, <1>5 DEF Scan

LEMMA PortsScanSound ==
  ASSUME PortsTyped, PortsSound, NEW t \in UartThread, Scan(t)
  PROVE  PortsSound'
<1>1. /\ UNCHANGED <<portDev, op, devname, mine, changing>>
      /\ step[t] \in {"check", "find", "refind"} /\ Busy(t)
  BY DEF Scan, Busy
<1>2. StepOf(t)
  <2>1. /\ dev' = dev \/ \E x : dev' = [dev EXCEPT ![t] = x]
        /\ i' = i \/ \E x : i' = [i EXCEPT ![t] = x]
        /\ step' = step \/ \E x : step' = [step EXCEPT ![t] = x]
    BY DEF Scan, Goto, Search
  <2>. QED BY <1>1, <2>1 DEF StepOf, PortsTyped, ThreadsType
<1>3. Touches({}) /\ TableInv'
  BY <1>1, TouchesNone DEF PortsSound
<1>4. \A q, c : Matches(c, q)' <=> Matches(c, q)
  BY <1>1 DEF Matches
<1>5. /\ i[t] \in Channel /\ MaxChannels \in Nat
      /\ \A c \in Channel : c \in Nat /\ 1 <= c /\ c <= MaxChannels
  BY UartPortsAssumption DEF PortsTyped, ThreadsType, Channel
<1>6. ChangerKnows(t) /\ IoKnows(t)
  BY DEF PortsSound, Knows
<1>7. op[t] = op'[t] /\ devname[t] = devname'[t]
  BY <1>1
<1>8. ChangerKnows(t)'
  <2> SUFFICES ASSUME Changer(t)' PROVE ChangerKnows(t)'
    BY DEF ChangerKnows
  <2>1. Changer(t) /\ op[t] \in {"init", "deinit"}
    BY <1>1 DEF Changer
  <2>2. CASE step[t] = "check"
    <3>1. op[t] = "init" /\ step'[t] \in {"idle", "check", "find"}
          /\ (step'[t] = "find" => i'[t] = 1)
      BY <1>6, <2>1, <2>2, ScanOutcome DEF ChangerKnows
    <3>. QED BY <1>1, <1>5, <2>1, <3>1 DEF ChangerKnows, Changer, Busy
  <2>3. CASE step[t] = "find" /\ op[t] = "init"
    <3>1. \A c \in Channel : c < i[t] => ~Matches(c, devname[t])
      BY <1>6, <2>1, <2>3 DEF ChangerKnows
    <3>2. CASE Matches(i[t], devname[t])
      <4>1. step'[t] = "find" /\ i'[t] = i[t]
        BY <2>3, <3>2, ScanOutcome
      <4>. QED BY <1>1, <1>4, <1>7, <2>3, <3>1, <4>1 DEF ChangerKnows
    <3>3. CASE ~Matches(i[t], devname[t])
      <4>1. \A c \in Channel : c < i[t] + 1 => ~Matches(c, devname[t])
        BY <1>5, <3>1, <3>3
      <4>2. CASE i'[t] = i[t] + 1 /\ step'[t] = "find"
        BY <1>1, <1>4, <1>7, <2>3, <4>1, <4>2 DEF ChangerKnows
      <4>3. CASE i[t] = MaxChannels /\ step'[t] = "prepare"
        <5>1. \A c \in Channel : ~Matches(c, devname[t])
          BY <1>5, <4>1, <4>3
        <5>2. devname[t] \notin mine
          BY <5>1 DEF PortsSound, Stays, Matches
        <5>. QED BY <1>1, <1>4, <1>7, <2>3, <4>3, <5>1, <5>2 DEF ChangerKnows
      <4>. QED BY <2>3, <3>3, <4>2, <4>3, ScanOutcome
    <3>. QED BY <3>2, <3>3
  <2>4. CASE step[t] = "find" /\ op[t] # "init"
    <3>1. op[t] = "deinit" /\ devname[t] \notin mine
      BY <1>6, <2>1, <2>4 DEF ChangerKnows
    <3>2. \/ step'[t] \in {"find", "idle"}
          \/ step'[t] = "lock" /\ Matches(dev'[t], devname[t])
      BY <2>4, ScanOutcome
    <3>. QED BY <1>1, <1>4, <1>7, <3>1, <3>2 DEF ChangerKnows, Changer, Busy
  <2>5. CASE step[t] = "refind"
    <3>1. /\ devname[t] \notin mine /\ Matches(dev[t], devname[t])
          /\ portDev[dev[t]].port = NoPort
      BY <1>6, <2>1, <2>5 DEF ChangerKnows
    <3>2. \/ step'[t] = "refind" /\ dev'[t] = dev[t]
          \/ step'[t] = "idle"
          \/ step'[t] = "free" /\ dev'[t] = i[t] /\ Matches(i[t], devname[t])
      BY <2>5, ScanOutcome
    <3>3. Matches(i[t], devname[t]) => i[t] = dev[t]
      BY <1>5, <2>1, <3>1 DEF PortsSound, TableInv, PortsTyped, ThreadsType, Changer, Busy
    <3>. QED BY <1>1, <1>4, <1>7, <2>1, <3>1, <3>2, <3>3 DEF ChangerKnows, Changer, Busy
  <2>. QED BY <1>1, <2>2, <2>3, <2>4, <2>5
<1>9. IoKnows(t)'
  <2> SUFFICES ASSUME Busy(t)', op[t] = "io" PROVE IoKnows(t)'
    BY <1>7 DEF IoKnows
  <2>1. step[t] = "find"
    BY <1>1, <1>6 DEF IoKnows
  <2>2. \/ step'[t] = "find"
        \/ step'[t] = "lock" /\ Matches(dev'[t], devname[t])
    BY <2>1, ScanOutcome DEF Busy
  <2>3. \A u \in UartThread : Changer(u)' => Changer(u)
    BY <1>1, <1>2 DEF StepOf, Changer, Busy
  <2>. QED BY <1>1, <1>4, <1>6, <1>7, <2>1, <2>2, <2>3 DEF IoKnows
<1>. QED BY <1>1, <1>2, <1>3, <1>8, <1>9, StepKeeps DEF Knows

LEMMA PrepareSound ==
  ASSUME PortsTyped, PortsSound, NEW t \in UartThread, Prepare(t)
  PROVE  PortsSound'
<1>1. /\ UNCHANGED <<portDev, op, devname, mine, changing>>
      /\ step[t] = "prepare" /\ Busy(t)
  BY DEF Prepare, Busy
<1>2. /\ step' = step \/ step' = [step EXCEPT ![t] = "claim"]
      /\ dev' = dev \/ dev' = [dev EXCEPT ![t] = i[t]]
      /\ i' = i \/ i' = [i EXCEPT ![t] = i[t] + 1]
  BY DEF Prepare, Goto
<1>3. StepOf(t) /\ step'[t] \in {"prepare", "claim"}
  BY <1>1, <1>2 DEF StepOf, PortsTyped, ThreadsType
<1>4. Touches({}) /\ TableInv'
  BY <1>1, TouchesNone DEF PortsSound
<1>5. ChangerKnows(t) /\ IoKnows(t)
  BY DEF PortsSound, Knows
<1>6. op[t] = "init"
  BY <1>1, <1>5 DEF IoKnows, ChangerKnows, Changer, Busy, PortsTyped, ThreadsType
<1>7. devname[t] \notin mine /\ \A c \in Channel : ~Matches(c, devname[t])
  BY <1>1, <1>5, <1>6 DEF ChangerKnows, Changer
<1>8. Knows(t)'
  BY <1>1, <1>3, <1>6, <1>7 DEF Knows, ChangerKnows, IoKnows, Matches
<1>. QED BY <1>1, <1>3, <1>4, <1>8, StepKeeps

LEMMA ClaimSound ==
  ASSUME PortsTyped, PortsSound, NEW t \in UartThread, Claim(t), ~raced'
  PROVE  PortsSound'
<1>1. /\ UNCHANGED <<op, devname, i, dev, mine, changing>>
      /\ step[t] = "claim" /\ Busy(t) /\ step' = [step EXCEPT ![t] = "lock"]
      /\ ~portDev[dev[t]].isInit
  BY DEF Claim, Goto, Busy
<1>2. StepOf(t) /\ step'[t] = "lock"
  BY <1>1 DEF StepOf, PortsTyped, ThreadsType
<1>3. ChangerKnows(t) /\ IoKnows(t) /\ dev[t] \in Channel
  BY DEF PortsSound, Knows, PortsTyped, ThreadsType
<1>4. op[t] = "init" /\ Changer(t)
  BY <1>1, <1>3 DEF IoKnows, ChangerKnows, Changer, Busy, PortsTyped, ThreadsType
<1>5. devname[t] \notin mine /\ \A c \in Channel : ~Matches(c, devname[t])
  BY <1>1, <1>3, <1>4 DEF ChangerKnows
<1>6. portDev[dev[t]].port = NoPort
  BY <1>1, <1>3 DEF PortsSound, TableInv
<1>7. EntryIs(dev[t], devname[t], TRUE, NoPort)
  BY <1>6, ClaimWrites DEF PortsTyped
<1>8. Touches({devname[t]})
  BY <1>1, <1>3, <1>7, TouchesOne
<1>9. TableInv'
  BY <1>1, <1>3, <1>5, <1>7, KeepsTable DEF PortsSound
<1>10. Matches(dev[t], devname[t])'
  BY <1>1, <1>7 DEF EntryIs, Matches
<1>11. Knows(t)'
  BY <1>1, <1>2, <1>4, <1>5, <1>10 DEF Knows, ChangerKnows, IoKnows
<1>. QED BY <1>1, <1>2, <1>4, <1>5, <1>8, <1>9, <1>11, StepKeeps

(* The lock is taken, or io done: only locks are written. *)
LEMMA LocksSound ==
  ASSUME PortsTyped, PortsSound, NEW t \in UartThread, Lock(t) \/ Io(t)
  PROVE  PortsSound'
<1>1. /\ UNCHANGED <<op, devname, i, dev, mine, changing>> /\ OnlyLocks
      /\ \/ step[t] = "lock" /\ step' = [step EXCEPT ![t] = op[t]]
         \/ step[t] = "io" /\ step' = [step EXCEPT ![t] = "idle"]
  BY LockWrites, IoWrites DEF Lock, Io, Goto, PortsTyped
<1>2. StepOf(t)
  BY <1>1 DEF StepOf, Busy, PortsTyped, ThreadsType
<1>3. /\ \/ step[t] = "lock" /\ step'[t] = op[t]
         \/ step'[t] = "idle"
      /\ op[t] \in {"init", "deinit", "io"} /\ dev[t] \in Channel
  BY <1>1 DEF PortsTyped, ThreadsType
<1>4. Touches({}) /\ TableInv'
  BY <1>1, TouchesNone DEF PortsSound
<1>5. ChangerKnows(t) /\ IoKnows(t)
  BY DEF PortsSound, Knows
<1>6. Matches(dev[t], devname[t])' <=> Matches(dev[t], devname[t])
  BY <1>1, <1>3 DEF OnlyLocks, Matches
<1>7. \A u \in UartThread : Changer(u)' => Changer(u)
  BY <1>2 DEF StepOf, Changer, Busy
<1>8. CASE step'[t] = "idle"
  <2>1. Knows(t)'
    BY <1>8 DEF Knows, ChangerKnows, IoKnows, Changer, Busy
  <2>. QED BY <1>1, <1>2, <1>4, <2>1, StepKeeps
<1>9. CASE step[t] = "lock" /\ step'[t] = op[t]
  <2>1. ChangerKnows(t)'
    BY <1>1, <1>3, <1>5, <1>6, <1>7, <1>9 DEF ChangerKnows, Changer, Busy
  <2>2. IoKnows(t)'
    BY <1>1, <1>3, <1>5, <1>6, <1>7, <1>9 DEF IoKnows, Busy
  <2>. QED BY <1>1, <1>2, <1>4, <2>1, <2>2, StepKeeps DEF Knows
<1>. QED BY <1>3, <1>8, <1>9

(* A changer that has its channel writes it: it stays that of its port, or *)
(* is freed.                                                               *)
LEMMA WriteSound ==
  ASSUME PortsTyped, PortsSound, NEW t \in UartThread, StepOf(t), Changer(t),
         Matches(dev[t], devname[t]),
         NEW n, NEW b \in BOOLEAN, NEW v \in {n, NoPort},
         EntryIs(dev[t], n, b, v), b => n = devname[t], ~b => v = NoPort,
         \/ mine' = mine /\ devname[t] \notin mine
         \/ mine' = mine \cup {devname[t]} /\ b /\ v = devname[t],
         Knows(t)'
  PROVE  PortsSound'
<1>1. dev[t] \in Channel /\ devname[t] \in Port
  BY DEF PortsTyped, ThreadsType, Changer, Busy
<1>2. portDev[dev[t]].isInit /\ portDev[dev[t]].name = devname[t]
  BY DEF Matches
<1>3. Touches({devname[t]})
  BY <1>1, <1>2, TouchesOne
<1>4. \A c \in Channel \ {dev[t]} : ~Matches(c, devname[t])
  BY <1>1 DEF PortsSound, TableInv
<1>5. TableInv'
  BY <1>1, <1>2, <1>4, KeepsTable DEF PortsSound
<1>6. ASSUME NEW pt, pt = devname[t], pt \in mine' PROVE Stays(pt)'
  <2>1. b /\ v = pt /\ n = pt
    BY <1>6
  <2>2. /\ portDev'[dev[t]].isInit /\ portDev'[dev[t]].name = pt /\ portDev'[dev[t]].port = pt
        /\ \A c \in Channel \ {dev[t]} : portDev'[c] = portDev[c]
    BY <2>1 DEF EntryIs
  <2>. QED BY <1>1, <1>4, <1>6, <2>2 DEF Stays, Matches
<1>7. mine' \subseteq mine \cup {devname[t]} /\ \A pt \in {devname[t]} : pt \in mine' => Stays(pt)'
  BY <1>6
<1>. QED BY <1>3, <1>5, <1>7, StepKeeps

LEMMA OpenCloseSound ==
  ASSUME PortsTyped, PortsSound, NEW t \in UartThread, Open(t) \/ Close(t)
  PROVE  PortsSound'
<1>1. /\ UNCHANGED <<op, devname, dev, changing>> /\ step[t] \in {"init", "deinit"} /\ Busy(t)
      /\ dev[t] \in Channel /\ devname[t] \in Port
  BY DEF Open, Close, Busy, PortsTyped, ThreadsType
<1>2. ChangerKnows(t) /\ IoKnows(t)
  BY DEF PortsSound, Knows
<1>3. Changer(t) /\ devname[t] \notin mine /\ Matches(dev[t], devname[t])
  BY <1>1, <1>2 DEF IoKnows, ChangerKnows, Changer, PortsTyped, ThreadsType
<1>4. portDev[dev[t]].isInit = TRUE /\ portDev[dev[t]].name = devname[t]
  BY <1>1, <1>3 DEF Matches, PortsTyped, TableType, Entry
<1>5. CASE portDev' = Unlocked(dev[t], devname[t]) /\ mine' = mine \cup {devname[t]}
           /\ Goto(t, "idle") /\ UNCHANGED i
  <2>1. StepOf(t) /\ step'[t] = "idle"
    BY <1>1, <1>5 DEF StepOf, Goto, PortsTyped, ThreadsType
  <2>2. Knows(t)'
    BY <2>1 DEF Knows, ChangerKnows, IoKnows, Changer, Busy
  <2>3. EntryIs(dev[t], devname[t], TRUE, devname[t])
    BY <1>1, <1>4, <1>5, UnlockedWrites DEF PortsTyped
  <2>. QED BY <1>3, <1>5, <2>1, <2>2, <2>3, WriteSound
<1>6. CASE portDev' = Unlocked(dev[t], NoPort) /\ Search(t, "refind") /\ UNCHANGED mine
  <2>1. StepOf(t) /\ step'[t] = "refind"
    BY <1>1, <1>6 DEF StepOf, Search, Goto, PortsTyped, ThreadsType
  <2>2. EntryIs(dev[t], devname[t], TRUE, NoPort)
    BY <1>1, <1>4, <1>6, UnlockedWrites DEF PortsTyped
  <2>3. Matches(dev[t], devname[t])' /\ portDev'[dev[t]].port = NoPort
    BY <1>1, <2>2 DEF EntryIs, Matches
  <2>4. Knows(t)'
    BY <1>1, <1>3, <1>6, <2>1, <2>3 DEF Knows, ChangerKnows, IoKnows, Changer
  <2>. QED BY <1>3, <1>6, <2>1, <2>2, <2>4, WriteSound
<1>7. CASE Goto(t, "idle") /\ UNCHANGED <<portDev, i, mine>>
  <2>1. StepOf(t) /\ step'[t] = "idle"
    BY <1>1, <1>7 DEF StepOf, Goto, PortsTyped, ThreadsType
  <2>2. Knows(t)'
    BY <2>1 DEF Knows, ChangerKnows, IoKnows, Changer, Busy
  <2>3. Touches({}) /\ TableInv'
    BY <1>7, TouchesNone DEF PortsSound
  <2>. QED BY <1>7, <2>1, <2>2, <2>3, StepKeeps
<1>. QED BY <1>5, <1>6, <1>7 DEF Open, Close

LEMMA PortsFreeSound ==
  ASSUME PortsTyped, PortsSound, NEW t \in UartThread, Free(t)
  PROVE  PortsSound'
<1>1. /\ UNCHANGED <<op, devname, i, dev, mine, changing>> /\ step[t] = "free" /\ Busy(t)
      /\ step' = [step EXCEPT ![t] = "idle"]
  BY DEF Free, Goto, Busy
<1>2. StepOf(t) /\ step'[t] = "idle"
  BY <1>1 DEF StepOf, PortsTyped, ThreadsType
<1>3. ChangerKnows(t) /\ IoKnows(t)
  BY DEF PortsSound, Knows
<1>4. /\ Changer(t) /\ devname[t] \notin mine /\ Matches(dev[t], devname[t])
      /\ portDev[dev[t]].port = NoPort
  BY <1>1, <1>3 DEF IoKnows, ChangerKnows, Changer, PortsTyped, ThreadsType
<1>5. EntryIs(dev[t], NoPort, FALSE, NoPort)
  BY <1>4, FreeWrites DEF PortsTyped
<1>6. Knows(t)'
  BY <1>2 DEF Knows, ChangerKnows, IoKnows, Changer, Busy
<1>. QED BY <1>1, <1>2, <1>4, <1>5, <1>6, WriteSound

LEMMA PortsStep == PortsInv /\ [PortsNext]_portsVars => PortsInv'
<1> SUFFICES ASSUME PortsInv, [PortsNext]_portsVars, ~raced' PROVE PortsSound'
  BY PortsTypedStep DEF PortsInv
<1>1. CASE UNCHANGED portsVars
  <2>1. PortsSound
    BY <1>1 DEF PortsInv, portsVars
  <2>. QED BY <1>1, <2>1 DEF portsVars, threadVars, PortsSound, OneChanger, TableInv, Knows,
                             ChangerKnows, IoKnows, Stays, Changer, Busy, Matches
<1>2. CASE PortsNext
  <2>1. PortsTyped /\ PortsSound
    <3>1. ~raced
      BY <1>2 DEF PortsNext, Call, Scan, Prepare, Claim, Lock, Open, Close, Free, Io
    <3>. QED BY <3>1 DEF PortsInv
  <2>. QED BY <1>2, <2>1, PortsCallSound, PortsScanSound, PrepareSound, ClaimSound, LocksSound,
              OpenCloseSound, PortsFreeSound DEF PortsNext
<1>. QED BY <1>1, <1>2

(* For every number of threads, ports and channels: until two inits or     *)
(* deinits of one port overlap, or two inits take one channel, a port      *)
(* whose init returned 0 stays open in its channel, and no other has its   *)
(* name, until its deinit begins.                                          *)
THEOREM PortsAlwaysStayOpen == PortsSpec => []PortsStayOpen
<1>1. PortsInv => PortsStayOpen
  BY DEF PortsInv, PortsSound, Stays, PortsStayOpen
<1>. QED BY <1>1, PortsInitInv, PortsStep, PTL DEF PortsSpec

(* Until then io touches another port than the one it named only when an   *)
(* init or deinit of that port was under way during the call.              *)
THEOREM IoAlwaysReachesItsPort == PortsSpec => []IoReachesItsPort
<1>1. PortsInv => IoReachesItsPort
  <2> SUFFICES ASSUME PortsInv, NEW t \in UartThread, step[t] = "io", ~raced, ~changing[t]
               PROVE  portDev[dev[t]].port \in {devname[t], NoPort}
    BY DEF IoReachesItsPort
  <2>1. /\ Busy(t) /\ dev[t] \in Channel /\ op[t] \in {"init", "deinit", "io"}
        /\ PortsSound
    BY DEF PortsInv, PortsTyped, ThreadsType, Busy
  <2>2. Knows(t)
    BY <2>1 DEF PortsSound
  <2>3. op[t] = "io"
    BY <2>1, <2>2 DEF Knows, ChangerKnows, Changer
  <2>4. Matches(dev[t], devname[t])
    BY <2>1, <2>2, <2>3 DEF Knows, IoKnows
  <2>. QED BY <2>1, <2>4 DEF PortsSound, TableInv, Matches
<1>. QED BY <1>1, PortsInitInv, PortsStep, PTL DEF PortsSpec

-----------------------------------------------------------------------------
(* The types that NetInv lacks, in four parts.  A counted owner that has a *)
(* handler has been initialised: its count does not go below zero, and a   *)
(* thread that runs was started, or a stop waits for it.                   *)
SocketTypes ==
  /\ nl \in BOOLEAN /\ initN \in Nat \cup {-1} /\ startN \in Nat
  /\ managerFd \in Fd \cup {0} /\ listenerFd \in Fd \cup {0}
  /\ fds \in [Fd -> {"free", "socket", "file"}]

CallerTypes ==
  /\ handlerLock \in {"free", "held", "lost"}
  /\ caller \in {"idle", "drop", "register", "unregister", "join"}
  /\ who \in Handler \cup {Nil} /\ (caller \notin {"idle", "join"} => who \in Handler)
  /\ fault \in BOOLEAN

NetThreadTypes ==
  /\ netThread \in {"none", "poll", "dispatch", "callback"}
  /\ nh \in Handler \cup {Nil} /\ nextNh \in Handler \cup {Nil}
  /\ netThread = "callback" => nh \in Handler
  /\ ownerLock \in [Owner -> {"free", "thread", "dead"}]

OwnerTypes ==
  /\ ownerN \in [Owner -> Nat]
  /\ \A o \in Counted : live[o] # 0 => ownerN[o] > 0

ThreadStarted == netThread # "none" => startN > 0 \/ caller = "join"

NetTyped == SocketTypes /\ CallerTypes /\ NetThreadTypes /\ OwnerTypes

LEMMA FreeFd ==
  ASSUME NEW free \in SUBSET Fd, free # {}
  PROVE  Min(free) \in Fd
<1>1. free \in SUBSET Nat
  BY NetlinkAssumption DEF Fd
<1>2. PICK x \in free : \A y \in free : x <= y
  BY <1>1, LeastNat
<1>3. Min(free) \in free
  BY <1>2 DEF Min
<1>. QED BY <1>3

LEMMA OwnersTyped ==
  ASSUME NetInv, NetTyped, NEW o \in Owner,
         OwnerInit(o) \/ OwnerDeinit(o) \/ \E s \in {"register", "unregister"} : ListCall(o, s)
  PROVE  NetTyped'
<1>0. ownerN[o] \in Nat /\ live[o] \in 0 .. MaxHandlers /\ made[o] \in 0 .. MaxHandlers
  BY DEF NetInv, NetTyped, OwnerTypes
<1>1. CASE OwnerInit(o)
  <2>1. SocketTypes' /\ CallerTypes' /\ NetThreadTypes'
    BY <1>1 DEF OwnerInit, NetTyped, SocketTypes, CallerTypes, NetThreadTypes, managerVars,
                listVars, netThreadVars
  <2>2. ownerN' = IF o \in Counted THEN [ownerN EXCEPT ![o] = ownerN[o] + 1] ELSE ownerN
    BY <1>1 DEF OwnerInit
  <2>3. ownerN' \in [Owner -> Nat]
    BY <1>0, <2>2 DEF NetTyped, OwnerTypes
  <2>4. live' = live \/ \E n \in Nat : live' = [live EXCEPT ![o] = n]
    BY <1>0, <1>1, HandlerParts DEF OwnerInit
  <2>5. ASSUME NEW q \in Counted, live'[q] # 0 PROVE ownerN'[q] > 0
    <3>1. q \in Owner
      BY NetlinkAssumption
    <3>2. CASE q = o
      BY <1>0, <2>2, <3>2 DEF NetTyped, OwnerTypes
    <3>3. CASE q # o
      BY <2>2, <2>4, <2>5, <3>1, <3>3 DEF NetInv, NetTyped, OwnerTypes
    <3>. QED BY <3>2, <3>3
  <2>. QED BY <2>1, <2>3, <2>5 DEF NetTyped, OwnerTypes
<1>2. CASE OwnerDeinit(o)
  <2>1. live[o] # 0 /\ <<o, live[o]>> \in Handler
    BY <1>0, <1>2, HandlerParts DEF OwnerDeinit
  <2>2. SocketTypes' /\ CallerTypes' /\ NetThreadTypes'
    BY <1>2, <2>1 DEF OwnerDeinit, NetTyped, SocketTypes, CallerTypes, NetThreadTypes, Idle0,
                managerVars, listVars, netThreadVars
  <2>3. CASE o \notin Counted
    <3>1. UNCHANGED <<ownerN, live>>
      BY <1>2, <2>3 DEF OwnerDeinit
    <3>. QED BY <2>2, <3>1 DEF NetTyped, OwnerTypes
  <2>4. CASE o \in Counted
    <3>1. /\ ownerN' = [ownerN EXCEPT ![o] = ownerN[o] - 1]
          /\ \/ ownerN[o] = 1 /\ live' = [live EXCEPT ![o] = 0]
             \/ ownerN[o] # 1 /\ live' = live
      BY <1>2, <2>4 DEF OwnerDeinit
    <3>2. ownerN[o] > 0
      BY <2>1, <2>4 DEF NetTyped, OwnerTypes
    <3>3. ownerN' \in [Owner -> Nat]
      BY <1>0, <3>1, <3>2 DEF NetTyped, OwnerTypes
    <3>4. ASSUME NEW q \in Counted, live'[q] # 0 PROVE ownerN'[q] > 0
      <4>1. q \in Owner
        BY NetlinkAssumption
      <4>2. CASE q = o
        BY <1>0, <3>1, <3>2, <3>4, <4>1, <4>2 DEF NetInv, NetTyped, OwnerTypes
      <4>3. CASE q # o
        BY <3>1, <3>4, <4>1, <4>3 DEF NetInv, NetTyped, OwnerTypes
      <4>. QED BY <4>2, <4>3
    <3>. QED BY <2>2, <3>3, <3>4 DEF NetTyped, OwnerTypes
  <2>. QED BY <2>3, <2>4
<1>3. ASSUME NEW s \in {"register", "unregister"}, ListCall(o, s) PROVE NetTyped'
  <2>1. live[o] # 0 /\ <<o, live[o]>> \in Handler
    BY <1>0, <1>3, HandlerParts DEF ListCall
  <2>2. CallerTypes'
    BY <1>3, <2>1 DEF ListCall, Fault, NetTyped, CallerTypes, Idle0
  <2>. QED BY <1>3, <2>2 DEF ListCall, NetTyped, SocketTypes, NetThreadTypes, OwnerTypes,
                managerVars, netThreadVars, ownerVars
<1>. QED BY <1>1, <1>2, <1>3

LEMMA DropsTyped ==
  ASSUME NetInv, NetTyped, OwnerDrops
  PROVE  NetTyped'
<1>1. SocketTypes' /\ CallerTypes' /\ NetThreadTypes'
  BY DEF OwnerDrops, NetTyped, SocketTypes, CallerTypes, NetThreadTypes, managerVars, listVars,
         netThreadVars
<1>2. live' = [live EXCEPT ![who[1]] = 0] /\ ownerN' = ownerN
  BY DEF OwnerDrops
<1>3. \A q \in Counted : live'[q] = live[q] \/ live'[q] = 0
  BY <1>2, NetlinkAssumption DEF NetInv
<1>. QED BY <1>1, <1>2, <1>3 DEF NetTyped, OwnerTypes

LEMMA ListTyped ==
  ASSUME NetInv, NetTyped,
         \/ RegisterPasses \/ RegisterPuts
         \/ UnregisterFinds \/ UnregisterPasses \/ UnregisterEnds
  PROVE  NetTyped'
<1>1. UNCHANGED <<managerVars, who, netThreadVars, ownerVars>>
  BY DEF RegisterPasses, RegisterPuts, UnregisterFinds, UnregisterPasses, UnregisterEnds
<1>2. /\ caller' \in {caller, "idle"} /\ handlerLock' \in {handlerLock, "free", "lost"}
      /\ fault' \in {fault, TRUE}
  BY DEF RegisterPasses, RegisterPuts, UnregisterFinds, UnregisterPasses, UnregisterEnds, Fault
<1>3. CallerTypes'
  BY <1>1, <1>2 DEF NetTyped, CallerTypes
<1>4. SocketTypes'
  BY <1>1 DEF NetTyped, SocketTypes, managerVars
<1>5. NetThreadTypes' /\ OwnerTypes'
  BY <1>1 DEF NetTyped, NetThreadTypes, OwnerTypes, netThreadVars, ownerVars
<1>. QED BY <1>3, <1>4, <1>5 DEF NetTyped

LEMMA ManagerTyped ==
  ASSUME NetInv, NetTyped, ThreadStarted,
         NetInit \/ NetDeinit \/ NetStart \/ NetStop \/ NetStopped \/ OtherFile
  PROVE  NetTyped'
<1>1. UNCHANGED <<handlerLock, who, nh, nextNh, ownerVars>>
  BY DEF NetInit, NetDeinit, NetStart, NetStop, NetStopped, OtherFile, listVars, netThreadVars
<1>2. /\ caller' = caller \/ caller' \in {"idle", "join"}
      /\ netThread' = netThread \/ netThread' = "poll"
      /\ fault' \in {fault, TRUE}
  BY DEF NetInit, NetDeinit, Stopping, NetStart, NetStop, NetStopped, OtherFile, Fault,
         netThreadVars
<1>3. CallerTypes' /\ NetThreadTypes' /\ OwnerTypes'
  BY <1>1, <1>2 DEF NetTyped, CallerTypes, NetThreadTypes, OwnerTypes, ownerVars
<1>4. CASE NetInit
  <2>1. initN' = initN + 1 /\ startN' = startN
    BY <1>4 DEF NetInit
  <2>2. initN \in Nat \cup {-1} /\ startN \in Nat
    BY DEF NetTyped, SocketTypes
  <2>3. initN' \in Nat \cup {-1} /\ startN' \in Nat
    BY <2>1, <2>2
  <2>4. ASSUME initN # 0 PROVE SocketTypes'
    <3>1. UNCHANGED <<nl, managerFd, listenerFd, fds>>
      BY <1>4, <2>4 DEF NetInit
    <3>. QED BY <2>3, <3>1 DEF NetTyped, SocketTypes
  <2>5. ASSUME initN = 0 PROVE SocketTypes'
    <3> DEFINE free == {d \in Fd : fds[d] = "free"}
    <3>1. /\ free # {}
          /\ managerFd' = Min(free) /\ fds' = [fds EXCEPT ![Min(free)] = "socket"]
          /\ nl' = TRUE
          /\ listenerFd' = IF listenerFd = 0 THEN Min(free) ELSE listenerFd
      BY <1>4, <2>5 DEF NetInit
    <3>2. free \in SUBSET Fd
      OBVIOUS
    <3> HIDE DEF free
    <3>3. Min(free) \in Fd
      BY <3>1, <3>2, FreeFd
    <3>4. fds' \in [Fd -> {"free", "socket", "file"}]
      BY <3>1, <3>3 DEF NetTyped, SocketTypes
    <3>5. managerFd' \in Fd \cup {0} /\ listenerFd' \in Fd \cup {0} /\ nl' \in BOOLEAN
      BY <3>1, <3>3 DEF NetTyped, SocketTypes
    <3>. QED BY <2>3, <3>4, <3>5 DEF SocketTypes
  <2>6. SocketTypes'
    BY <2>4, <2>5
  <2>. QED BY <1>3, <2>6 DEF NetTyped
<1>5. CASE NetDeinit \/ NetStart \/ NetStop
  <2>1. UNCHANGED <<nl, managerFd, listenerFd, fds>>
    BY <1>5 DEF NetDeinit, NetStart, NetStop
  <2>2. initN' = initN \/ (initN >= 0 /\ initN' = initN - 1)
    BY <1>5 DEF NetDeinit, NetStart, NetStop
  <2>3. startN' = startN \/ startN' = startN + 1 \/ (startN > 0 /\ startN' = startN - 1)
    BY <1>5 DEF NetDeinit, NetStart, NetStop, Stopping, Idle0, ThreadStarted
  <2>4. SocketTypes'
    BY <2>1, <2>2, <2>3 DEF NetTyped, SocketTypes
  <2>. QED BY <1>3, <2>4 DEF NetTyped
<1>6. CASE NetStopped
  <2>1. SocketTypes'
    BY <1>6 DEF NetStopped, NetTyped, SocketTypes
  <2>. QED BY <1>3, <2>1 DEF NetTyped
<1>7. CASE OtherFile
  <2>1. \E d \in Fd : \E v \in {"free", "file"} : fds' = [fds EXCEPT ![d] = v]
    BY <1>7 DEF OtherFile
  <2>2. fds' \in [Fd -> {"free", "socket", "file"}]
    BY <2>1 DEF NetTyped, SocketTypes
  <2>3. SocketTypes'
    BY <1>7, <2>2 DEF OtherFile, NetTyped, SocketTypes
  <2>. QED BY <1>3, <2>3 DEF NetTyped
<1>. QED BY <1>4, <1>5, <1>6, <1>7

LEMMA NetThreadTyped ==
  ASSUME NetInv, NetTyped,
         Received \/ HandleEvent \/ PassesOver \/ Handled \/ Dispatched \/ NetThreadDies
  PROVE  NetTyped'
<1>1. UNCHANGED <<managerVars, handlerLock, caller, who, ownerN, live>> /\ fault' \in {fault, TRUE}
  BY DEF Received, HandleEvent, PassesOver, Handled, Dispatched, NetThreadDies, listVars,
         ownerVars, Fault
<1>2. SocketTypes' /\ CallerTypes' /\ OwnerTypes'
  BY <1>1 DEF NetTyped, SocketTypes, CallerTypes, OwnerTypes, managerVars
<1>3. first \in Handler \cup {Nil} /\ next \in [Handler -> Handler \cup {Nil}]
  BY DEF NetInv
<1>4. CASE Received \/ Dispatched
  <2>1. NetThreadTypes'
    BY <1>3, <1>4 DEF Received, Dispatched, NetTyped, NetThreadTypes, ownerVars
  <2>. QED BY <1>2, <2>1 DEF NetTyped
<1>5. CASE HandleEvent
  <2>1. nh \in Handler /\ nh' = nh
    BY <1>5 DEF HandleEvent, NetTyped, NetThreadTypes
  <2>2. next[nh] \in Handler \cup {Nil} /\ nh[1] \in Owner
    BY <1>3, <2>1, HandlerParts
  <2>3. /\ ownerLock' = ownerLock \/ ownerLock' = [ownerLock EXCEPT ![nh[1]] = "thread"]
        /\ netThread' \in {netThread, "callback"}
        /\ nextNh' = nextNh \/ nextNh' = next[nh]
    BY <1>5 DEF HandleEvent
  <2>4. NetThreadTypes'
    BY <2>1, <2>2, <2>3 DEF NetTyped, NetThreadTypes
  <2>. QED BY <1>2, <2>4 DEF NetTyped
<1>6. CASE Handled
  <2>1. NetThreadTypes'
    BY <1>6 DEF Handled, NetTyped, NetThreadTypes
  <2>. QED BY <1>2, <2>1 DEF NetTyped
<1>7. CASE NetThreadDies
  <2>1. /\ ownerLock' = ownerLock \/ ownerLock' = [ownerLock EXCEPT ![nh[1]] = "dead"]
        /\ netThread' = "none" /\ UNCHANGED <<nh, nextNh>>
    BY <1>7 DEF NetThreadDies
  <2>2. NetThreadTypes'
    BY <2>1 DEF NetTyped, NetThreadTypes
  <2>. QED BY <1>2, <2>2 DEF NetTyped
<1>8. CASE PassesOver
  <2>1. nh \in Handler /\ next[nh] \in Handler \cup {Nil}
    BY <1>3, <1>8, HandlerParts DEF PassesOver, NetTyped, NetThreadTypes
  <2>2. NetThreadTypes'
    BY <1>8, <2>1 DEF PassesOver, NetTyped, NetThreadTypes, ownerVars
  <2>. QED BY <1>2, <2>2 DEF NetTyped
<1>. QED BY <1>4, <1>5, <1>6, <1>7, <1>8

LEMMA NetTypedStep == NetInv /\ NetTyped /\ ThreadStarted /\ [NetlinkNext]_netVars => NetTyped'
<1>1. ASSUME NetTyped, UNCHANGED netVars PROVE NetTyped'
  BY <1>1 DEF netVars, managerVars, listVars, netThreadVars, ownerVars, NetTyped, SocketTypes,
              CallerTypes, NetThreadTypes, OwnerTypes
<1>. QED BY <1>1, OwnersTyped, DropsTyped, ListTyped, ManagerTyped, NetThreadTyped DEF NetlinkNext

LEMMA ThreadStartedStep == NetTyped /\ ThreadStarted /\ [NetlinkNext]_netVars => ThreadStarted'
<1> SUFFICES ASSUME NetTyped, ThreadStarted, [NetlinkNext]_netVars PROVE ThreadStarted'
  OBVIOUS
<1>0. startN \in Nat
  BY DEF NetTyped, SocketTypes
<1>1. ASSUME NEW o \in Owner,
             OwnerInit(o) \/ OwnerDeinit(o) \/ \E s \in {"register", "unregister"} : ListCall(o, s)
      PROVE ThreadStarted'
  BY <1>1 DEF OwnerInit, OwnerDeinit, ListCall, Idle0, ThreadStarted, managerVars, netThreadVars
<1>2. CASE \/ OwnerDrops \/ RegisterPasses \/ RegisterPuts
           \/ UnregisterFinds \/ UnregisterPasses \/ UnregisterEnds
  BY <1>2 DEF OwnerDrops, RegisterPasses, RegisterPuts, UnregisterFinds, UnregisterPasses,
              UnregisterEnds, ThreadStarted, managerVars, netThreadVars
<1>3. CASE NetInit \/ OtherFile \/ NetStopped
  BY <1>3 DEF NetInit, OtherFile, NetStopped, ThreadStarted, netThreadVars
<1>4. CASE NetStart
  BY <1>0, <1>4 DEF NetStart, ThreadStarted, Idle0, Fault
<1>5. CASE NetStop \/ NetDeinit
  <2>1. /\ netThread' = netThread
        /\ \/ startN' = startN - 1 /\ caller' = IF startN = 1 THEN "join" ELSE "idle"
           \/ UNCHANGED <<startN, caller>>
    BY <1>5 DEF NetStop, NetDeinit, Stopping, netThreadVars
  <2>2. caller # "join"
    BY <1>5 DEF NetStop, NetDeinit, Idle0
  <2> QED BY <1>0, <2>1, <2>2 DEF ThreadStarted
<1>6. CASE Received \/ HandleEvent \/ PassesOver \/ Handled \/ Dispatched \/ NetThreadDies
  BY <1>6 DEF Received, HandleEvent, PassesOver, Handled, Dispatched, NetThreadDies, ThreadStarted,
              managerVars
<1>7. CASE UNCHANGED netVars
  BY <1>7 DEF netVars, managerVars, netThreadVars, ThreadStarted
<1> QED BY <1>1, <1>2, <1>3, <1>4, <1>5, <1>6, <1>7 DEF NetlinkNext

(* For any owners, handlers and descriptors.                               *)
THEOREM NetlinkTypesAlways == NetlinkSpec => []NetlinkTypeOK
<1>1. NetlinkInit => NetTyped /\ ThreadStarted
  <2> SUFFICES ASSUME NetlinkInit PROVE NetTyped /\ ThreadStarted
    OBVIOUS
  <2>1. SocketTypes
    BY DEF NetlinkInit, SocketTypes
  <2>2. CallerTypes
    BY DEF NetlinkInit, CallerTypes
  <2>3. NetThreadTypes
    BY DEF NetlinkInit, NetThreadTypes
  <2>4. OwnerTypes
    BY NetlinkAssumption DEF NetlinkInit, OwnerTypes
  <2>5. ThreadStarted
    BY DEF NetlinkInit, ThreadStarted
  <2>. QED BY <2>1, <2>2, <2>3, <2>4, <2>5 DEF NetTyped
<1>2. NetInv /\ NetTyped => NetlinkTypeOK
  BY DEF NetInv, NetTyped, SocketTypes, CallerTypes, NetThreadTypes, OwnerTypes, NetlinkTypeOK
<1>. QED BY <1>1, <1>2, NetInvInit, NetInvStep, NetTypedStep, ThreadStartedStep, PTL DEF NetlinkSpec

-----------------------------------------------------------------------------
(***************************************************************************)
(* Devices: side by side each part behaves as it does alone.               *)
(***************************************************************************)

LEMMA DevicesInitParts ==
  DevicesInit => /\ RingInit /\ UartInit /\ FlashInit /\ PortsInit /\ NetlinkInit /\ GpioInit
                 /\ subject \in Subject
BY DEF DevicesInit

LEMMA DevicesStepParts ==
  [DevicesNext]_devicesVars =>
    /\ [RingNext]_ringVars /\ [UartNext]_uartVars /\ [FlashNext]_flashVars
    /\ [PortsNext]_portsVars /\ [NetlinkNext]_netVars /\ [GpioNext]_gpioVars
    /\ UNCHANGED subject
BY DEF DevicesNext, devicesVars, RingOnly, UartOnly, FlashOnly, PortsOnly, NetlinkOnly, GpioOnly

(* A behaviour of Devices is one of each of its parts, so that what is     *)
(* proved of a part holds in Devices.                                      *)
THEOREM DevicesImplementsParts ==
  DevicesSpec =>
    RingSpec /\ UartSpec /\ FlashSpec /\ PortsSpec /\ NetlinkSpec /\ GpioSpec
BY DevicesInitParts, DevicesStepParts, PTL
   DEF DevicesSpec, RingSpec, UartSpec, FlashSpec, PortsSpec, NetlinkSpec, GpioSpec

(* Types and ranges of all six parts, whichever is used.                   *)
THEOREM DevicesTypesAlways == DevicesSpec => []DevicesTypeOK
<1>1. DevicesSpec => [](subject \in Subject)
  <2>1. DevicesInit => subject \in Subject
    BY DevicesInitParts
  <2>2. subject \in Subject /\ [DevicesNext]_devicesVars => (subject \in Subject)'
    BY DevicesStepParts
  <2>. QED BY <2>1, <2>2, PTL DEF DevicesSpec
<1>2. /\ subject \in Subject
      /\ RingTypeOK /\ UartTypeOK /\ FlashTypeOK /\ PortsTypeOK /\ NetlinkTypeOK
      /\ GpioTypeOK
      => DevicesTypeOK
  BY DEF DevicesTypeOK
<1>. QED BY <1>1, <1>2, DevicesImplementsParts, CursorsAlwaysAgree, UartTypesAlways,
            FlashTypesAlways, PortsTypesAlways, NetlinkTypesAlways, PinsAlwaysAgree, PTL
=============================================================================
