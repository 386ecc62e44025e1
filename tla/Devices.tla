------------------------------ MODULE Devices ------------------------------
(***************************************************************************)
(* The managers and protocols of the SDK that share no state, side by      *)
(* side: a behaviour uses one of them, its subject, and leaves the others  *)
(* as they are at first.  A step of one neither reads nor writes what      *)
(* another keeps, so that each behaviour of one is a behaviour of this     *)
(* module, and the properties of all are checked in one run.               *)
(***************************************************************************)
EXTENDS RingBuffer, UartProtocol, Flash, UartPorts, Netlink, Gpio

VARIABLE subject

Subject == {"ring buffer", "uart protocol", "flash", "uart manager", "netlink",
            "gpio"}

devicesVars == <<ringVars, uartVars, flashVars, portsVars, netVars, gpioVars, subject>>

(* The parts that are not the subject start in one state. *)
DevicesInit ==
  /\ subject \in Subject
  /\ RingInit /\ UartInit /\ FlashInit /\ PortsInit /\ NetlinkInit /\ GpioInit
  /\ subject # "uart protocol" =>
       /\ sn = Min(FirstSn) /\ read = Min(StartAt)
       /\ ring[0] = Min(Garbage)
  /\ subject # "flash" => nand = FALSE
  /\ subject # "gpio" => \A io \in Pin : pin[io].hwDir = "in"

RingOnly ==
  /\ subject = "ring buffer"
  /\ RingNext
  /\ UNCHANGED <<uartVars, flashVars, portsVars, netVars, gpioVars, subject>>
UartOnly ==
  /\ subject = "uart protocol"
  /\ UartNext
  /\ UNCHANGED <<ringVars, flashVars, portsVars, netVars, gpioVars, subject>>
FlashOnly ==
  /\ subject = "flash"
  /\ FlashNext
  /\ UNCHANGED <<ringVars, uartVars, portsVars, netVars, gpioVars, subject>>
PortsOnly ==
  /\ subject = "uart manager"
  /\ PortsNext
  /\ UNCHANGED <<ringVars, uartVars, flashVars, netVars, gpioVars, subject>>
NetlinkOnly ==
  /\ subject = "netlink"
  /\ NetlinkNext
  /\ UNCHANGED <<ringVars, uartVars, flashVars, portsVars, gpioVars, subject>>
GpioOnly ==
  /\ subject = "gpio"
  /\ GpioNext
  /\ UNCHANGED <<ringVars, uartVars, flashVars, portsVars, netVars, subject>>
DevicesNext ==
  RingOnly \/ UartOnly \/ FlashOnly \/ PortsOnly \/ NetlinkOnly \/ GpioOnly

DevicesSpec == DevicesInit /\ [][DevicesNext]_devicesVars
-----------------------------------------------------------------------------
(* Every variable of the six parts holds a value of its type: lengths,     *)
(* cursors and counters stay in range.                                     *)
DevicesTypeOK ==
  /\ subject \in Subject
  /\ RingTypeOK /\ UartTypeOK /\ FlashTypeOK /\ PortsTypeOK /\ NetlinkTypeOK
  /\ GpioTypeOK
=============================================================================
