-------------------------------- MODULE Gpio --------------------------------
(***************************************************************************)
(* gpio/gpio_manager.c over lib/gpio/libgpio.c: a table of pins, each with *)
(* what the manager believes of it (valid, dir, irq, fd) beside what the   *)
(* kernel keeps (exported, hwDir, watched by the epoll set of the          *)
(* interrupt thread).  close and open write the sysfs files, calls find    *)
(* out by a failing open or write that the two disagree.                   *)
(*                                                                         *)
(* Calls are atomic: the client and the callback take turns.  The sysfs    *)
(* files fail as the kernel makes them fail: export of an exported pin,    *)
(* unexport of one that is not, any file of a pin that is not exported, a  *)
(* write through a descriptor opened for reading.  The edges of an         *)
(* interrupt and the level of a pin are left out; a descriptor that was    *)
(* never opened (0 in the static table) is "none": every call that would   *)
(* tell the two apart fails on valid first.                                *)
(***************************************************************************)
EXTENDS Integers

CONSTANT Pin

VARIABLES pin,      \* pin[p]: struct gpio_pin and the kernel's side of it
          started,  \* init_flag: epoll set and interrupt thread exist
          irqFunc   \* irq_func is set

gpioVars == <<pin, started, irqFunc>>

Dir == {"in", "out"}
PinState ==
  [valid: BOOLEAN, dir: Dir, irq: BOOLEAN, fd: {"none", "ro", "rw"},
   exported: BOOLEAN, hwDir: Dir, watched: BOOLEAN,
   closed: BOOLEAN]   \* closed since it was last exported, for PinsAgree

GpioTypeOK ==
  /\ pin \in [Pin -> PinState]
  /\ started \in BOOLEAN
  /\ irqFunc \in BOOLEAN

GpioInit ==
  /\ pin \in [Pin -> {[valid |-> FALSE, dir |-> "in", irq |-> FALSE,
                       fd |-> "none", exported |-> FALSE, hwDir |-> d,
                       watched |-> FALSE, closed |-> FALSE] : d \in Dir}]
  /\ started = FALSE
  /\ irqFunc = FALSE
-----------------------------------------------------------------------------
(* libgpio: what a call makes of a pin. *)

(* fd is overwritten, not closed. *)
GpioOpen(r) ==
  IF r.exported
  THEN [r EXCEPT !.fd = "none", !.valid = FALSE]
  ELSE [r EXCEPT !.fd = "none", !.valid = TRUE, !.dir = r.hwDir,
                 !.exported = TRUE, !.closed = FALSE]

(* A closed descriptor leaves the epoll set. *)
CloseFd(r) ==
  IF r.fd = "none" THEN r ELSE [r EXCEPT !.fd = "none", !.watched = FALSE]

(* An unexport that succeeds sets valid to GPIO_VALID, as an export does. *)
GpioClose(r) ==
  [CloseFd(r) EXCEPT !.valid = r.exported, !.exported = FALSE, !.closed = TRUE]

Direction(r, d) ==
  IF r.exported THEN [r EXCEPT !.hwDir = d, !.dir = d]
                ELSE [r EXCEPT !.valid = FALSE]

OpenValueFd(r) ==
  IF r.fd = "none" /\ r.exported
  THEN [r EXCEPT !.fd = IF r.dir = "out" THEN "rw" ELSE "ro"]
  ELSE r

GpioSetValue(r) ==
  IF ~r.valid \/ r.dir = "in" THEN r
  ELSE LET o == OpenValueFd(r) IN IF o.fd = "rw" THEN o ELSE CloseFd(o)

GpioGetValue(r) == IF r.valid THEN OpenValueFd(r) ELSE r

GpioEnableIrq(r, on) ==
  IF r.dir = "in" /\ r.valid /\ r.exported THEN [r EXCEPT !.irq = on] ELSE r
-----------------------------------------------------------------------------
(* The manager: each call but open and close opens a pin that is invalid. *)
EnsureOpen(r) == IF r.valid THEN r ELSE GpioOpen(r)

DisablePin(r) ==
  IF ~r.irq THEN r
  ELSE LET off == GpioEnableIrq(r, FALSE)
       IN  IF off.fd = "none" THEN off ELSE [off EXCEPT !.watched = FALSE]

ClosePin(r) ==
  LET quiet == DisablePin(r) IN IF quiet.valid THEN GpioClose(quiet) ELSE quiet

Becomes(p, r) ==
  /\ pin' = [pin EXCEPT ![p] = r]
  /\ UNCHANGED <<started, irqFunc>>

(* Mutant: open does not look at valid. *)
OpenGpioAlways(p) == Becomes(p, GpioOpen(pin[p]))

OpenGpio(p) == Becomes(p, EnsureOpen(pin[p]))

CloseGpio(p) == Becomes(p, ClosePin(pin[p]))

SetDirection(p, d) ==
  LET o == EnsureOpen(pin[p])
  IN  Becomes(p, IF o.valid THEN Direction(o, d) ELSE o)

GetDirection(p) == Becomes(p, EnsureOpen(pin[p]))

GetValue(p) == Becomes(p, GpioGetValue(EnsureOpen(pin[p])))

SetValue(p) == Becomes(p, GpioSetValue(EnsureOpen(pin[p])))

SetIrqFunc ==
  /\ irqFunc' = TRUE
  /\ UNCHANGED <<pin, started>>

InitGpio ==
  /\ ~started
  /\ started' = TRUE
  /\ UNCHANGED <<pin, irqFunc>>

(* The pin is registered whatever its descriptor is by then. *)
EnableIrq(p) ==
  LET r == GpioGetValue(pin[p])
      armed == r.fd # "none" /\ r.dir = "in" /\ r.valid /\ r.exported
  IN  /\ started' = TRUE
      /\ UNCHANGED irqFunc
      /\ pin' = IF ~irqFunc THEN pin
                ELSE [pin EXCEPT ![p] =
                        IF armed THEN [r EXCEPT !.irq = TRUE, !.watched = TRUE]
                                 ELSE r]

DisableIrq(p) == Becomes(p, DisablePin(pin[p]))

(* Every valid pin is closed, and the epoll set with all it watches. *)
DeinitGpio ==
  /\ pin' = [p \in Pin |->
               LET r == IF pin[p].valid THEN ClosePin(pin[p]) ELSE pin[p]
               IN  IF started THEN [r EXCEPT !.watched = FALSE] ELSE r]
  /\ started' = FALSE
  /\ UNCHANGED irqFunc

GpioNext ==
  \/ \E p \in Pin :
       \/ OpenGpio(p) \/ CloseGpio(p) \/ GetDirection(p)
       \/ \E d \in Dir : SetDirection(p, d)
       \/ GetValue(p) \/ SetValue(p) \/ EnableIrq(p) \/ DisableIrq(p)
  \/ SetIrqFunc \/ InitGpio \/ DeinitGpio

GpioSpec == GpioInit /\ [][GpioNext]_gpioVars
-----------------------------------------------------------------------------
(* The manager's view of a pin and the kernel's agree so far that nothing  *)
(* is lost for good: a pin it exported is valid (export of an invalid one  *)
(* would fail on every later call, and close would not release it); a pin  *)
(* the interrupt thread is woken for is one that disable_irq and close     *)
(* will find, with its mode set and its descriptor in the table; and a pin *)
(* that is valid without being exported has been closed.  (Once closed a   *)
(* pin may stay so: the open after a close returns 0 and exports nothing,  *)
(* and the property delimits that.)                                        *)
PinsAgree ==
  \A p \in Pin :
    LET r == pin[p] IN
    /\ r.exported => r.valid
    /\ r.watched => started /\ r.irq /\ r.fd # "none"
    /\ r.valid /\ ~r.exported => r.closed
=============================================================================
