------------------------------- MODULE Zigbee -------------------------------
(***************************************************************************)
(* zigbee/zigbee/zigbee_manager.c: a client's blocking send (ctrl,         *)
(* get_info and the set calls all end in zb_trigger_send), the poll thread *)
(* that answers the CC2530 module, the alarm thread that times a send out, *)
(* and the SIGIO handler.                                                  *)
(*                                                                         *)
(* Host to device: the client leaves its payload in send_buf and pulls the *)
(* wake line; the device asks for the data, gets it and confirms.  Device  *)
(* to host: the device raises SIGIO, the handler asks for the data, the    *)
(* poll thread hands it to recv_cb and confirms.  No message carries a     *)
(* request number: the one in a message here is for the properties.        *)
(*                                                                         *)
(* One client, as the manual (documents/.docx, 1.2) demands, and one       *)
(* session from init to deinit.  The frames of the uart protocol arrive    *)
(* whole and in order, the device may be as slow as it likes.  set and     *)
(* cancel of the alarm manager are modelled by what Alarm.tla shows of     *)
(* them: one alarm per listener, and a cancel that comes too late for an   *)
(* alarm already triggered.                                                *)
(***************************************************************************)
EXTENDS Naturals, Sequences

CONSTANTS
  MaxSends,        (* bound: sends                                         *)
  MaxDisturbances  (* bound: reports of the device and spurious wake-ups,  *)
                   (* together                                             *)

ASSUME ZigbeeAssumption ==
  MaxSends \in Nat /\ MaxDisturbances \in Nat

Success == 0
SendTimeout == 1          (* SEND_TIMEOUT, -1 in the code *)

VARIABLES
  clientPc,  (* where the client is                                        *)
  req,       (* number of the client's last send                           *)
  mutex,     (* who holds send_mutex                                       *)
  buf, hold, (* whose payload is in send_buf; whose length in send_len (0: *)
             (* CLEAN_SEND_BUF)                                            *)
  result,    (* send_result                                                *)
  alarm,     (* send_timeout_cb is in alarm_list                           *)
  alarmPc,   (* where the alarm thread is in send_timeout_cb               *)
  pollPc, pollMsg,  (* where zb_poll is; the frame it sends                *)
  sigPc,     (* where sig_handler is                                       *)
  sbuf,      (* the frame in src.sbuf                                      *)
  pollCancelled,  (* pthread_cancel was called on the poll thread          *)
  lost,      (* the locks the poll thread held when it was cancelled       *)
  wake, toHost, toDev,      (* the wake line and the two directions        *)
  reports,   (* SIGIOs raised                                              *)
  got,       (* the payloads the device received                           *)
  oks, confirms, spurious,  (* sends that returned 0, confirmations        *)
                            (* handled, spurious wake-ups                  *)
  upset      (* a send failed, the client woke spuriously, poll thread and *)
             (* signal handler were both in uart_pro->send, or a timeout   *)
             (* emptied the payload that was about to be sent              *)

clientVars == <<clientPc, req, buf, oks, spurious>>
pollVars   == <<pollPc, pollMsg, confirms, pollCancelled, lost>>
wireVars   == <<wake, toHost, toDev, reports, got>>
zigbeeVars == <<clientVars, mutex, hold, result, alarm, alarmPc, pollVars, sigPc, sbuf,
          wireVars, upset>>

None      == [type |-> "none"]
Data(b, l) == [type |-> "data", buf |-> b, len |-> l]
Request   == [type |-> "request"]                 (* UART_CMD_DATA_REQUEST *)
Confirm   == [type |-> "confirm"]                 (* UART_CMD_DATA_CONFIRM *)
Report    == [type |-> "report"]                  (* any other command     *)

ZigbeeInit ==
  /\ clientPc = "off" /\ req = 0 /\ buf = 0 /\ oks = 0 /\ spurious = 0
  /\ mutex = "free" /\ hold = 0 /\ result = Success
  /\ alarm = FALSE /\ alarmPc = "idle"
  /\ pollPc = "off" /\ pollMsg = None /\ confirms = 0
  /\ pollCancelled = FALSE /\ lost = {}
  /\ sigPc = "none" /\ sbuf = None
  /\ wake = FALSE /\ toHost = <<>> /\ toDev = <<>> /\ reports = 0 /\ got = <<>>
  /\ upset = FALSE

-----------------------------------------------------------------------------
(* The client.                                                             *)

(* zb_init *)
ZbInit ==
  /\ clientPc = "off"
  /\ clientPc' = "idle"
  /\ pollPc' = "read"
  /\ UNCHANGED <<req, buf, oks, spurious, mutex, hold, result, alarm, alarmPc, pollMsg,
                 confirms, pollCancelled, lost, sigPc, sbuf, wireVars, upset>>

(* MKSEND_BUF, the payload: without any lock *)
FillBuffer ==
  /\ clientPc = "idle"
  /\ req < MaxSends
  /\ req' = req + 1
  /\ buf' = req + 1
  /\ clientPc' = "filled"
  /\ UNCHANGED <<oks, spurious, mutex, hold, result, alarm, alarmPc, pollVars, sigPc, sbuf,
                 wireVars, upset>>

(* MKSEND_BUF, command and length *)
FillLength ==
  /\ clientPc = "filled"
  /\ hold' = req
  /\ clientPc' = "lock"
  /\ UNCHANGED <<req, buf, oks, spurious, mutex, result, alarm, alarmPc, pollVars, sigPc,
                 sbuf, wireVars, upset>>

(* zb_trigger_send: the wake ioctl, with send_mutex held. *)
TriggerSend ==
  /\ clientPc = "lock"
  /\ mutex = "free"
  /\ \/ /\ mutex' = "client"
        /\ clientPc' = "waking"
        /\ wake' = TRUE
        /\ UNCHANGED upset
     \/ /\ clientPc' = "idle"                              (* the ioctl fails *)
        /\ upset' = TRUE
        /\ UNCHANGED <<mutex, wake>>
  /\ UNCHANGED <<req, buf, oks, spurious, hold, result, alarm, alarmPc, pollVars, sigPc,
                 sbuf, toHost, toDev, reports, got>>

(* Mutant: no alarm is set for the send. *)
WaitForAnswerForever ==
  /\ clientPc = "waking"
  /\ mutex' = "free"
  /\ clientPc' = "wait"
  /\ UNCHANGED <<req, buf, oks, spurious, hold, result, alarm, alarmPc, pollVars, sigPc, sbuf,
                 wireVars, upset>>

(* zb_trigger_send: the alarm (set replaces the listener's older alarm),   *)
(* and pthread_cond_wait, which releases send_mutex.                       *)
WaitForAnswer ==
  /\ clientPc = "waking"
  /\ "alarms" \notin lost
  /\ alarm' = TRUE
  /\ mutex' = "free"
  /\ clientPc' = "wait"
  /\ UNCHANGED <<req, buf, oks, spurious, hold, result, alarmPc, pollVars, sigPc, sbuf,
                 wireVars, upset>>

(* pthread_cond_wait may return without a signal. *)
WokenSpuriously ==
  /\ clientPc = "wait"
  /\ spurious + reports < MaxDisturbances
  /\ spurious' = spurious + 1
  /\ clientPc' = "woken"
  /\ upset' = TRUE
  /\ UNCHANGED <<req, buf, oks, mutex, hold, result, alarm, alarmPc, pollVars, sigPc, sbuf,
                 wireVars>>

(* pthread_cond_wait takes the mutex again, it is released, ... *)
Woken ==
  /\ clientPc = "woken"
  /\ mutex = "free"
  /\ clientPc' = "answer"
  /\ UNCHANGED <<req, buf, oks, spurious, mutex, hold, result, alarm, alarmPc, pollVars,
                 sigPc, sbuf, wireVars, upset>>

(* ... and send_result is read without it. *)
SendReturns ==
  /\ clientPc = "answer"
  /\ clientPc' = "idle"
  /\ oks' = oks + (IF result = Success THEN 1 ELSE 0)
  /\ upset' = (upset \/ result # Success)
  /\ UNCHANGED <<req, buf, spurious, mutex, hold, result, alarm, alarmPc, pollVars, sigPc,
                 sbuf, wireVars>>

(* zb_deinit, zb_logic_deinit: the poll thread is cancelled and joined. *)
DeinitCancels ==
  /\ clientPc = "idle"
  /\ pollCancelled' = TRUE
  /\ clientPc' = "deinit"
  /\ UNCHANGED <<req, buf, oks, spurious, mutex, hold, result, alarm, alarmPc, pollPc, pollMsg,
                 confirms, lost, sigPc, sbuf, wireVars, upset>>

(* zb_dev_deinit: stop of the alarm manager takes alarms_lock, uart->deinit*)
(* the lock of the uart; the alarm thread is joined.                       *)
ZbDeinit ==
  /\ clientPc = "deinit"
  /\ pollPc = "off" /\ alarmPc = "idle" /\ sigPc = "none"
  /\ lost \cap {"alarms", "uart"} = {}
  /\ alarm' = FALSE
  /\ clientPc' = "done"
  /\ UNCHANGED <<req, buf, oks, spurious, mutex, hold, result, alarmPc, pollVars, sigPc, sbuf,
                 wireVars, upset>>

Client ==
  FillLength \/ TriggerSend \/ WaitForAnswer \/ Woken \/ SendReturns \/ ZbDeinit

-----------------------------------------------------------------------------
(* pthread_cond_signal *)
SignalSender == clientPc' = IF clientPc = "wait" THEN "woken" ELSE clientPc

(* The alarm thread takes the alarm out of alarm_list; no cancel reaches it*)
(* any more.                                                               *)
TimeoutTriggers ==
  /\ alarm
  /\ alarmPc = "idle"
  /\ alarm' = FALSE
  /\ alarmPc' = "due"
  /\ UNCHANGED <<clientVars, mutex, hold, result, pollVars, sigPc, sbuf, wireVars, upset>>

(* send_timeout_cb: CLEAN_SEND_BUF, without any lock *)
TimeoutCleans ==
  /\ alarmPc = "due"
  /\ hold' = 0
  /\ alarmPc' = "signal"
  /\ UNCHANGED <<clientVars, mutex, result, alarm, pollVars, sigPc, sbuf, wireVars, upset>>

(* Mutant: a timeout leaves the result of the last send. *)
TimeoutKeepsResult ==
  /\ alarmPc = "signal"
  /\ mutex = "free"
  /\ SignalSender
  /\ alarmPc' = "idle"
  /\ UNCHANGED <<req, buf, oks, spurious, mutex, hold, result, alarm, pollVars, sigPc, sbuf,
                 wireVars, upset>>

(* send_timeout_cb, with send_mutex *)
TimeoutSignals ==
  /\ alarmPc = "signal"
  /\ mutex = "free"
  /\ result' = SendTimeout
  /\ SignalSender
  /\ alarmPc' = "idle"
  /\ UNCHANGED <<req, buf, oks, spurious, mutex, hold, alarm, pollVars, sigPc, sbuf, wireVars,
                 upset>>

SendAlarm == TimeoutTriggers \/ TimeoutCleans \/ TimeoutSignals

-----------------------------------------------------------------------------
(* zb_poll and zb_uart_recv_cb.                                            *)

(* A frame has arrived: what uart_pro->handle calls zb_uart_recv_cb with. *)
Receive(type) ==
  /\ pollPc = "read"
  /\ ~pollCancelled
  /\ toHost # <<>> /\ Head(toHost).type = type
  /\ toHost' = Tail(toHost)

(* DATA_REQUEST: if a payload is held, ... *)
RecvRequest ==
  /\ Receive("request")
  /\ pollPc' = IF hold > 0 THEN "payload" ELSE "read"
  /\ UNCHANGED <<clientVars, mutex, hold, result, alarm, alarmPc, pollMsg, confirms, pollCancelled,
                 lost, sigPc, sbuf, wake, toDev, reports, got, upset>>

(* ... it is sent, with the length read a second time: a timeout may have  *)
(* made it 0.                                                              *)
SendPayload ==
  /\ pollPc = "payload"
  /\ pollMsg' = Data(0, hold)
  /\ pollPc' = "build"
  /\ upset' = (upset \/ hold = 0)
  /\ UNCHANGED <<clientVars, mutex, hold, result, alarm, alarmPc, confirms, pollCancelled, lost,
                 sigPc, sbuf, wireVars>>

(* DATA_CONFIRM: CLEAN_SEND_BUF, *)
RecvConfirm ==
  /\ Receive("confirm")
  /\ hold' = 0
  /\ pollPc' = "cancel"
  /\ UNCHANGED <<clientVars, mutex, result, alarm, alarmPc, pollMsg, confirms, pollCancelled, lost,
                 sigPc, sbuf, wake, toDev, reports, got, upset>>

(* the alarm is cancelled, *)
CancelAlarm ==
  /\ pollPc = "cancel"
  /\ alarm' = FALSE
  /\ pollPc' = "signal"
  /\ UNCHANGED <<clientVars, mutex, hold, result, alarmPc, pollMsg, confirms, pollCancelled, lost,
                 sigPc, sbuf, wireVars, upset>>

(* Mutant: the sender is not woken. *)
ConfirmNoSignal ==
  /\ pollPc = "signal"
  /\ mutex = "free"
  /\ result' = Success
  /\ confirms' = confirms + 1
  /\ pollPc' = "read"
  /\ UNCHANGED <<clientVars, mutex, hold, alarm, alarmPc, pollMsg, pollCancelled, lost, sigPc, sbuf,
                 wireVars, upset>>

(* and the sender is woken with send_mutex held. *)
ConfirmSignals ==
  /\ pollPc = "signal"
  /\ mutex = "free"
  /\ result' = Success
  /\ SignalSender
  /\ confirms' = confirms + 1
  /\ pollPc' = "read"
  /\ UNCHANGED <<req, buf, oks, spurious, mutex, hold, alarm, alarmPc, pollMsg, pollCancelled, lost,
                 sigPc, sbuf, wireVars, upset>>

(* Mutant: any command but DATA_REQUEST is taken for a confirmation. *)
RecvReportAsConfirm ==
  /\ Receive("report")
  /\ hold' = 0
  /\ pollPc' = "cancel"
  /\ UNCHANGED <<clientVars, mutex, result, alarm, alarmPc, pollMsg, confirms, pollCancelled, lost,
                 sigPc, sbuf, wake, toDev, reports, got, upset>>

(* Any other command: it is confirmed, and handed to recv_cb. *)
RecvReport ==
  /\ Receive("report")
  /\ pollMsg' = Confirm
  /\ pollPc' = "build"
  /\ UNCHANGED <<clientVars, mutex, hold, result, alarm, alarmPc, confirms, pollCancelled, lost,
                 sigPc, sbuf, wake, toDev, reports, got, upset>>

(* uart_pro->send: pack_build copies the payload into src.sbuf ... *)
PollBuilds ==
  /\ pollPc = "build"
  /\ LET m == IF pollMsg.type = "data" THEN Data(buf, pollMsg.len) ELSE pollMsg
     IN  pollMsg' = m /\ sbuf' = m
  /\ pollPc' = "write"
  /\ upset' = (upset \/ sigPc = "write")
  /\ UNCHANGED <<clientVars, mutex, hold, result, alarm, alarmPc, confirms, pollCancelled, lost,
                 sigPc, wireVars>>

(* ... and zb_uart_send writes it.  A frame overwritten by another sender  *)
(* leaves as that frame or as one that the receiver drops.                 *)
Write(m) ==
  \/ toDev' = Append(toDev, sbuf)
  \/ sbuf # m /\ UNCHANGED toDev

PollWrites ==
  /\ pollPc = "write"
  /\ Write(pollMsg)
  /\ pollPc' = "read"
  /\ pollMsg' = None
  /\ UNCHANGED <<clientVars, mutex, hold, result, alarm, alarmPc, confirms, pollCancelled, lost,
                 sigPc, sbuf, wake, toHost, reports, got, upset>>

(* Cancellation is asynchronous except during the read: the thread dies    *)
(* anywhere, with the lock it may hold there.                              *)
HeldAt(place) ==
  CASE place = "signal" -> {"send"}
    [] place = "cancel" -> {"alarms"}
    [] place = "write"  -> {"uart"}
    [] OTHER -> {}

PollDies ==
  /\ pollCancelled
  /\ pollPc # "off"
  /\ pollPc' = "off"
  /\ \/ UNCHANGED <<lost, mutex>>
     \/ /\ HeldAt(pollPc) # {}
        /\ pollPc = "signal" => mutex = "free"
        /\ lost' = HeldAt(pollPc)
        /\ mutex' = IF pollPc = "signal" THEN "poll" ELSE mutex
  /\ UNCHANGED <<clientVars, hold, result, alarm, alarmPc, pollMsg, confirms, pollCancelled, sigPc,
                 sbuf, wireVars, upset>>

PollThread ==
  \/ RecvRequest \/ SendPayload \/ RecvConfirm \/ RecvReport
  \/ CancelAlarm \/ ConfirmSignals \/ PollBuilds \/ PollWrites \/ PollDies

-----------------------------------------------------------------------------
(* sig_handler: zb_data_request builds its frame in the same src.sbuf. *)
HandlerBuilds ==
  /\ sigPc = "build"
  /\ sbuf' = Request
  /\ sigPc' = "write"
  /\ upset' = (upset \/ pollPc = "write")
  /\ UNCHANGED <<clientVars, mutex, hold, result, alarm, alarmPc, pollVars, wireVars>>

HandlerWrites ==
  /\ sigPc = "write"
  /\ "uart" \notin lost
  /\ Write(Request)
  /\ sigPc' = "none"
  /\ UNCHANGED <<clientVars, mutex, hold, result, alarm, alarmPc, pollVars, sbuf, wake, toHost,
                 reports, got, upset>>

SigHandler == HandlerBuilds \/ HandlerWrites

-----------------------------------------------------------------------------
(* The CC2530 module (external).                                           *)

DeviceVars == <<clientVars, mutex, hold, result, alarm, alarmPc, pollVars, sbuf, upset>>

(* It is woken and asks for the data. *)
DeviceAsks ==
  /\ wake
  /\ wake' = FALSE
  /\ toHost' = Append(toHost, Request)
  /\ UNCHANGED <<DeviceVars, sigPc, toDev, reports, got>>

(* It has something to report: SIGIO. *)
DeviceInterrupts ==
  /\ clientPc \notin {"off", "done"}
  /\ sigPc = "none"
  /\ spurious + reports < MaxDisturbances
  /\ reports' = reports + 1
  /\ sigPc' = "build"
  /\ UNCHANGED <<DeviceVars, wake, toHost, toDev, got>>

(* It receives a frame: a payload is confirmed, a request answered. *)
DeviceReceives ==
  /\ toDev # <<>>
  /\ LET m == Head(toDev)
     IN  /\ toHost' = CASE m.type = "data"    -> Append(toHost, Confirm)
                        [] m.type = "request" -> Append(toHost, Report)
                        [] OTHER              -> toHost
         /\ got' = IF m.type = "data" THEN Append(got, <<m.buf, m.len>>) ELSE got
  /\ toDev' = Tail(toDev)
  /\ UNCHANGED <<DeviceVars, sigPc, wake, reports>>

Cc2530 == DeviceAsks \/ DeviceInterrupts \/ DeviceReceives

ZigbeeNext ==
  \/ ZbInit \/ FillBuffer \/ DeinitCancels \/ WokenSpuriously
  \/ Client \/ SendAlarm \/ PollThread \/ SigHandler \/ Cc2530

ZigbeeSpec == ZigbeeInit /\ [][ZigbeeNext]_zigbeeVars

(* The host's threads are scheduled and the alarm goes off; nothing is     *)
(* expected of the device.                                                 *)
ZigbeeFairness ==
  /\ WF_zigbeeVars(Client) /\ WF_zigbeeVars(SendAlarm)
  /\ WF_zigbeeVars(PollThread) /\ WF_zigbeeVars(SigHandler)

ZigbeeFairSpec == ZigbeeSpec /\ ZigbeeFairness
-----------------------------------------------------------------------------
(* Properties *)

Frame ==
  {None, Request, Confirm, Report}
    \cup {Data(b, l) : b \in 0 .. MaxSends, l \in 0 .. MaxSends}

ZigbeeTypeOK ==
  /\ clientPc \in {"off", "idle", "filled", "lock", "waking", "wait", "woken", "answer",
             "deinit", "done"}
  /\ req \in 0 .. MaxSends /\ buf \in 0 .. MaxSends /\ hold \in 0 .. MaxSends
  /\ mutex \in {"free", "client", "poll"}
  /\ result \in {Success, SendTimeout} /\ alarm \in BOOLEAN
  /\ alarmPc \in {"idle", "due", "signal"}
  /\ pollPc \in {"off", "read", "payload", "build", "write", "cancel", "signal"}
  /\ sigPc \in {"none", "build", "write"}
  /\ pollMsg \in Frame /\ sbuf \in Frame
  /\ toHost \in Seq(Frame) /\ toDev \in Seq(Frame)
  /\ lost \subseteq {"send", "alarms", "uart"} /\ pollCancelled \in BOOLEAN /\ wake \in BOOLEAN

(* As long as no send has failed, the client did not wake spuriously, the  *)
(* two senders kept off each other's frame and no timeout emptied a        *)
(* payload between the two reads of its length, the device receives the    *)
(* payloads exactly once, in order and untorn, and a send that has         *)
(* returned has been received.                                             *)
ExactlyOnce ==
  ~upset =>
    /\ \A i \in 1 .. Len(got) : got[i] = <<i, i>>
    /\ Len(got) <= req
    /\ clientPc \in {"idle", "deinit"} => Len(got) = req

(* Every success is paid for by a confirmation of its own or by a spurious *)
(* wake-up: a timeout is never reported as a success, and no confirmation  *)
(* answers two sends.                                                      *)
SuccessIsPaid == oks <= confirms + spurious

(* A send waits only while something will still wake it: its alarm is set  *)
(* or has gone off, or a confirmation is being handled.                    *)
WaiterIsWoken ==
  clientPc = "wait" => alarm \/ alarmPc # "idle" \/ pollPc = "signal"

(* Every call returns, unless the poll thread was cancelled with a lock    *)
(* held.                                                                   *)
SendsReturn ==
  clientPc \notin {"off", "idle", "done"} ~> (clientPc \in {"idle", "done"} \/ lost # {})

(* A send that returns 0 was successful (zigbee_manager.h): the device has *)
(* received its frame before it returns, if only with the payload that a   *)
(* timeout emptied.                                                        *)
AnswerIsOwn ==
  [][SendReturns /\ result = Success /\ spurious = 0 =>
       \E i \in 1 .. Len(got) : got[i][1] = req]_zigbeeVars
=============================================================================
