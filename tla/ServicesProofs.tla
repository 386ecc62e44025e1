--------------------------- MODULE ServicesProofs ---------------------------
(***************************************************************************)
(* Proofs about Zigbee, Input, Camera and Fingerprint, the parts of        *)
(* Services, and about Services itself.                                    *)
(***************************************************************************)
EXTENDS Services, FiniteSetTheorems, WellFoundedInduction, TLAPS

-----------------------------------------------------------------------------
(***************************************************************************)
(* Zigbee, for any number of sends, reports and spurious wake-ups.         *)
(***************************************************************************)

(* The success that the sender is about to report, if any. *)
Owed == IF clientPc \in {"woken", "answer"} /\ result = Success THEN 1 ELSE 0

Counted == oks \in Nat /\ confirms \in Nat /\ spurious \in Nat

(* A success, reported or about to be, has its confirmation or spurious    *)
(* wake-up already.                                                        *)
Paid == oks + Owed <= confirms + spurious

(* The poll thread is only cancelled when the client will not wait again.  *)
NoWaitAfterCancel == pollCancelled => clientPc \in {"deinit", "done"}

WakeIInv == NoWaitAfterCancel /\ WaiterIsWoken

-----------------------------------------------------------------------------
(* SuccessIsPaid.  Only the steps that move pc into or out of "woken" and  *)
(* "answer", or change result, disturb it.                                 *)

PaidIInv == Counted /\ Paid

(* The arithmetic of Paid: a step that lowers what is owed, or pays one for *)
(* it, keeps the sum.                                                      *)
LEMMA Payment ==
  ASSUME NEW a \in Nat, NEW b \in Nat, NEW c \in Nat, NEW o \in {0, 1}, NEW p \in {0, 1},
         a + o <= b + c
  PROVE  /\ a + 0 <= b + c
         /\ a + p <= (b + 1) + c
         /\ o = 0 => a + p <= b + (c + 1)
         /\ (a + o) + 0 <= b + c
         /\ a + o \in Nat
         /\ a <= b + c
  OBVIOUS

(* A step that changes none of what Paid looks at, nor the counters. *)
LEMMA PaidUnchanged ==
  ASSUME PaidIInv, UNCHANGED <<oks, confirms, spurious, result>>,
         clientPc' \in {"woken", "answer"} => clientPc \in {"woken", "answer"}
  PROVE  PaidIInv'
  <1>1. oks \in Nat /\ confirms \in Nat /\ spurious \in Nat
    BY DEF PaidIInv, Counted
  <1>2. oks' = oks /\ confirms' = confirms /\ spurious' = spurious /\ result' = result
    OBVIOUS
  <1>3. Owed \in {0, 1} /\ Owed' \in {0, 1} /\ (Owed' = 0 \/ Owed' = Owed)
    BY <1>2 DEF Owed
  <1>4. oks + Owed <= confirms + spurious
    BY DEF PaidIInv, Paid
  <1> HIDE DEF Owed
  <1>5. oks + 0 <= confirms + spurious
    BY <1>1, <1>3, <1>4, Payment
  <1>6. oks + Owed' <= confirms + spurious
    BY <1>3, <1>4, <1>5
  <1> QED
    BY <1>1, <1>2, <1>6 DEF PaidIInv, Counted, Paid

(* The client's own steps. *)
LEMMA ClientPaid ==
  ASSUME PaidIInv, ZbInit \/ FillBuffer \/ DeinitCancels \/ WokenSpuriously \/ Client
  PROVE  PaidIInv'
  <1>1. CASE WokenSpuriously
    <2>1. oks \in Nat /\ confirms \in Nat /\ spurious \in Nat
      BY DEF PaidIInv, Counted
    <2>2. oks' = oks /\ confirms' = confirms /\ spurious' = spurious + 1
      BY <1>1 DEF WokenSpuriously, pollVars
    <2>3. Owed = 0 /\ Owed' \in {0, 1}
      BY <1>1 DEF WokenSpuriously, Owed
    <2>4. oks + Owed <= confirms + spurious
      BY DEF PaidIInv, Paid
    <2> HIDE DEF Owed
    <2>5. oks + Owed' <= confirms + (spurious + 1)
      BY <2>1, <2>3, <2>4, Payment
    <2> QED
      BY <2>1, <2>2, <2>5 DEF PaidIInv, Counted, Paid
  <1>2. CASE SendReturns
    <2>1. oks \in Nat /\ confirms \in Nat /\ spurious \in Nat
      BY DEF PaidIInv, Counted
    <2>2. confirms' = confirms /\ spurious' = spurious
      BY <1>2 DEF SendReturns, pollVars
    <2>3. oks' = oks + Owed /\ Owed \in {0, 1} /\ Owed' = 0
      BY <1>2 DEF SendReturns, Owed
    <2>4. oks + Owed <= confirms + spurious
      BY DEF PaidIInv, Paid
    <2> HIDE DEF Owed
    <2>5. oks' + Owed' <= confirms + spurious /\ oks' \in Nat
      BY <2>1, <2>3, <2>4, Payment
    <2> QED
      BY <2>1, <2>2, <2>5 DEF PaidIInv, Counted, Paid
  <1>3. CASE ZbInit
    BY <1>3, PaidUnchanged DEF ZbInit
  <1>4. CASE FillBuffer
    BY <1>4, PaidUnchanged DEF FillBuffer, pollVars
  <1>5. CASE DeinitCancels
    BY <1>5, PaidUnchanged DEF DeinitCancels
  <1>6. CASE FillLength
    BY <1>6, PaidUnchanged DEF FillLength, pollVars
  <1>7. CASE TriggerSend
    BY <1>7, PaidUnchanged DEF TriggerSend, pollVars
  <1>8. CASE WaitForAnswer
    BY <1>8, PaidUnchanged DEF WaitForAnswer, pollVars
  <1>9. CASE Woken
    BY <1>9, PaidUnchanged DEF Woken, pollVars
  <1>10. CASE ZbDeinit
    BY <1>10, PaidUnchanged DEF ZbDeinit, pollVars
  <1> QED
    BY <1>1, <1>2, <1>3, <1>4, <1>5, <1>6, <1>7, <1>8, <1>9, <1>10 DEF Client

(* The alarm thread and the signal handler. *)
LEMMA AlarmPaid ==
  ASSUME PaidIInv, SendAlarm \/ SigHandler
  PROVE  PaidIInv'
  <1>1. CASE TimeoutSignals
    <2>1. oks \in Nat /\ confirms \in Nat /\ spurious \in Nat
      BY DEF PaidIInv, Counted
    <2>2. oks' = oks /\ confirms' = confirms /\ spurious' = spurious
      BY <1>1 DEF TimeoutSignals, pollVars
    <2>3. Owed' = 0 /\ Owed \in {0, 1}
      BY <1>1 DEF TimeoutSignals, Owed, Success, SendTimeout
    <2>4. oks + Owed <= confirms + spurious
      BY DEF PaidIInv, Paid
    <2> HIDE DEF Owed
    <2>5. oks + Owed' <= confirms + spurious
      BY <2>1, <2>3, <2>4, Payment
    <2> QED
      BY <2>1, <2>2, <2>5 DEF PaidIInv, Counted, Paid
  <1>2. CASE TimeoutTriggers
    BY <1>2, PaidUnchanged DEF TimeoutTriggers, clientVars, pollVars
  <1>3. CASE TimeoutCleans
    BY <1>3, PaidUnchanged DEF TimeoutCleans, clientVars, pollVars
  <1>4. CASE HandlerBuilds
    BY <1>4, PaidUnchanged DEF HandlerBuilds, clientVars, pollVars
  <1>5. CASE HandlerWrites
    BY <1>5, PaidUnchanged DEF HandlerWrites, clientVars, pollVars
  <1> QED
    BY <1>1, <1>2, <1>3, <1>4, <1>5 DEF SendAlarm, SigHandler

(* The poll thread and the device. *)
LEMMA PollPaid ==
  ASSUME PaidIInv, PollThread \/ Cc2530
  PROVE  PaidIInv'
  <1>1. CASE ConfirmSignals
    <2>1. oks \in Nat /\ confirms \in Nat /\ spurious \in Nat
      BY DEF PaidIInv, Counted
    <2>2. oks' = oks /\ confirms' = confirms + 1 /\ spurious' = spurious
      BY <1>1 DEF ConfirmSignals
    <2>3. Owed \in {0, 1} /\ Owed' \in {0, 1}
      BY DEF Owed
    <2>4. oks + Owed <= confirms + spurious
      BY DEF PaidIInv, Paid
    <2> HIDE DEF Owed
    <2>5. oks + Owed' <= (confirms + 1) + spurious
      BY <2>1, <2>3, <2>4, Payment
    <2> QED
      BY <2>1, <2>2, <2>5 DEF PaidIInv, Counted, Paid
  <1>2. CASE RecvRequest
    BY <1>2, PaidUnchanged DEF RecvRequest, clientVars
  <1>11. CASE SendPayload
    BY <1>11, PaidUnchanged DEF SendPayload, clientVars
  <1>3. CASE RecvConfirm
    BY <1>3, PaidUnchanged DEF RecvConfirm, clientVars
  <1>4. CASE RecvReport
    BY <1>4, PaidUnchanged DEF RecvReport, clientVars
  <1>5. CASE CancelAlarm
    BY <1>5, PaidUnchanged DEF CancelAlarm, clientVars
  <1>6. CASE PollBuilds
    BY <1>6, PaidUnchanged DEF PollBuilds, clientVars
  <1>7. CASE PollWrites
    BY <1>7, PaidUnchanged DEF PollWrites, clientVars
  <1>8. CASE PollDies
    BY <1>8, PaidUnchanged DEF PollDies, clientVars
  <1>9. CASE Cc2530
    BY <1>9, PaidUnchanged
       DEF Cc2530, DeviceAsks, DeviceInterrupts, DeviceReceives, DeviceVars, clientVars, pollVars
  <1> QED
    BY <1>1, <1>2, <1>3, <1>4, <1>5, <1>6, <1>7, <1>8, <1>9, <1>11 DEF PollThread

LEMMA StepPaid == PaidIInv /\ [ZigbeeNext]_zigbeeVars => PaidIInv'
  <1> SUFFICES ASSUME PaidIInv, [ZigbeeNext]_zigbeeVars PROVE PaidIInv'
    OBVIOUS
  <1>1. CASE UNCHANGED zigbeeVars
    BY <1>1, PaidUnchanged DEF zigbeeVars, clientVars, pollVars
  <1>2. CASE ZigbeeNext
    BY <1>2, ClientPaid, AlarmPaid, PollPaid DEF ZigbeeNext
  <1> QED
    BY <1>1, <1>2

(* Every success is paid for by a confirmation of its own or by a spurious *)
(* wake-up, whatever the interleaving: zb_trigger_send never reports a     *)
(* timeout as a success.                                                   *)
THEOREM SuccessIsPaidAlways == ZigbeeSpec => []SuccessIsPaid
  <1>1. ZigbeeInit => PaidIInv
    BY DEF ZigbeeInit, PaidIInv, Counted, Paid, Owed
  <1>2. PaidIInv => SuccessIsPaid
    <2> SUFFICES ASSUME PaidIInv PROVE SuccessIsPaid
      OBVIOUS
    <2>1. oks \in Nat /\ confirms \in Nat /\ spurious \in Nat
      BY DEF PaidIInv, Counted
    <2>2. Owed \in {0, 1}
      BY DEF Owed
    <2>3. oks + Owed <= confirms + spurious
      BY DEF PaidIInv, Paid
    <2> HIDE DEF Owed
    <2> QED
      BY <2>1, <2>2, <2>3, Payment DEF SuccessIsPaid
  <1> QED
    BY <1>1, <1>2, StepPaid, PTL DEF ZigbeeSpec
-----------------------------------------------------------------------------
(* WaiterIsWoken.  It is not inductive alone: the poll thread dies while it*)
(* handles a confirmation, which is harmless only because the client that  *)
(* cancelled it no longer waits.                                           *)

LEMMA ClientWakes ==
  ASSUME WakeIInv, ZbInit \/ FillBuffer \/ DeinitCancels \/ WokenSpuriously \/ Client
  PROVE  WakeIInv'
  <1> USE DEF WakeIInv, NoWaitAfterCancel, WaiterIsWoken
  <1>1. CASE ZbInit
    BY <1>1 DEF ZbInit
  <1>2. CASE FillBuffer
    BY <1>2 DEF FillBuffer, pollVars
  <1>3. CASE DeinitCancels
    BY <1>3 DEF DeinitCancels
  <1>4. CASE WokenSpuriously
    BY <1>4 DEF WokenSpuriously, pollVars
  <1>5. CASE FillLength
    BY <1>5 DEF FillLength, pollVars
  <1>6. CASE TriggerSend
    BY <1>6 DEF TriggerSend, pollVars
  <1>7. CASE WaitForAnswer
    BY <1>7 DEF WaitForAnswer, pollVars
  <1>8. CASE Woken
    BY <1>8 DEF Woken, pollVars
  <1>9. CASE SendReturns
    BY <1>9 DEF SendReturns, pollVars
  <1>10. CASE ZbDeinit
    BY <1>10 DEF ZbDeinit, pollVars
  <1> QED
    BY <1>1, <1>2, <1>3, <1>4, <1>5, <1>6, <1>7, <1>8, <1>9, <1>10 DEF Client

LEMMA AlarmWakes ==
  ASSUME WakeIInv, SendAlarm \/ SigHandler
  PROVE  WakeIInv'
  <1> USE DEF WakeIInv, NoWaitAfterCancel, WaiterIsWoken
  <1>1. CASE TimeoutTriggers
    BY <1>1 DEF TimeoutTriggers, clientVars, pollVars
  <1>2. CASE TimeoutCleans
    BY <1>2 DEF TimeoutCleans, clientVars, pollVars
  <1>3. CASE TimeoutSignals
    BY <1>3 DEF TimeoutSignals, SignalSender, pollVars
  <1>4. CASE HandlerBuilds
    BY <1>4 DEF HandlerBuilds, clientVars, pollVars
  <1>5. CASE HandlerWrites
    BY <1>5 DEF HandlerWrites, clientVars, pollVars
  <1> QED
    BY <1>1, <1>2, <1>3, <1>4, <1>5 DEF SendAlarm, SigHandler

LEMMA PollWakes ==
  ASSUME WakeIInv, PollThread \/ Cc2530
  PROVE  WakeIInv'
  <1> USE DEF WakeIInv, NoWaitAfterCancel, WaiterIsWoken
  <1>1. CASE RecvRequest
    BY <1>1 DEF RecvRequest, Receive, clientVars
  <1>11. CASE SendPayload
    BY <1>11 DEF SendPayload, clientVars
  <1>2. CASE RecvConfirm
    BY <1>2 DEF RecvConfirm, Receive, clientVars
  <1>3. CASE RecvReport
    BY <1>3 DEF RecvReport, Receive, clientVars
  <1>4. CASE CancelAlarm
    BY <1>4 DEF CancelAlarm, clientVars
  <1>5. CASE ConfirmSignals
    BY <1>5 DEF ConfirmSignals, SignalSender
  <1>6. CASE PollBuilds
    BY <1>6 DEF PollBuilds, clientVars
  <1>7. CASE PollWrites
    BY <1>7 DEF PollWrites, clientVars
  <1>8. CASE PollDies
    <2>1. clientPc' = clientPc /\ pollCancelled' = pollCancelled /\ pollCancelled
      BY <1>8 DEF PollDies, clientVars
    <2> QED
      BY <2>1
  <1>9. CASE Cc2530
    BY <1>9
       DEF Cc2530, DeviceAsks, DeviceInterrupts, DeviceReceives, DeviceVars, clientVars, pollVars
  <1> QED
    BY <1>1, <1>2, <1>3, <1>4, <1>5, <1>6, <1>7, <1>8, <1>9, <1>11 DEF PollThread

LEMMA StepWakes == WakeIInv /\ [ZigbeeNext]_zigbeeVars => WakeIInv'
  <1> SUFFICES ASSUME WakeIInv, [ZigbeeNext]_zigbeeVars PROVE WakeIInv'
    OBVIOUS
  <1>1. CASE UNCHANGED zigbeeVars
    BY <1>1 DEF zigbeeVars, clientVars, pollVars, WakeIInv, NoWaitAfterCancel, WaiterIsWoken
  <1>2. CASE ZigbeeNext
    BY <1>2, ClientWakes, AlarmWakes, PollWakes DEF ZigbeeNext
  <1> QED
    BY <1>1, <1>2

(* A send waits in pthread_cond_wait only while something will still wake  *)
(* it: its alarm is set or has gone off, or a confirmation is being        *)
(* handled, also when the poll thread is cancelled in the middle of one.   *)
THEOREM WaiterWokenAlways == ZigbeeSpec => []WaiterIsWoken
  <1>1. ZigbeeInit => WakeIInv
    BY DEF ZigbeeInit, WakeIInv, NoWaitAfterCancel, WaiterIsWoken
  <1>2. WakeIInv => WaiterIsWoken
    BY DEF WakeIInv
  <1> QED
    BY <1>1, <1>2, StepWakes, PTL DEF ZigbeeSpec

-----------------------------------------------------------------------------
(* ExactlyOnce.  A send is one token that goes from place to place: the    *)
(* wake line, the request on its way to the host, the poll thread that     *)
(* answers it, the payload on its way to the device, the confirmation on   *)
(* its way back, the poll thread that signals.                             *)

(* The client is in zb_trigger_send with the wake line pulled. *)
Sending == clientPc \in {"waking", "wait", "woken", "answer"}

Before == {"wake", "request", "poll", "data"}     (* the device has no payload yet *)
After  == {"confirm", "signal"}                   (* it has                        *)
Place  == Before \cup After \cup {"none"}

AnyFrame == {None, Request, Confirm, Report} \cup {Data(b, l) : b \in Nat, l \in Nat}

FlowTypes ==
  /\ clientPc \in {"off", "idle", "filled", "lock", "waking", "wait", "woken", "answer", "deinit", "done"}
  /\ req \in Nat /\ hold \in Nat /\ buf = req
  /\ got \in Seq(Nat \X Nat)
  /\ toHost \in Seq({Request, Confirm, Report}) /\ toDev \in Seq(AnyFrame)
  /\ sbuf \in AnyFrame /\ pollMsg \in AnyFrame
  /\ clientPc = "waking" => mutex = "client"

(* What the two senders of the host are about to write is still in sbuf. *)
SenderInv ==
  /\ pollPc \in {"build", "write"} => pollMsg.type \in {"data", "confirm"}
  /\ pollPc = "write" => sbuf = pollMsg
  /\ sigPc = "write" => sbuf = Request

(* Of the frames under way at most one belongs to a send. *)
HostAt(w) ==
  /\ \A i \in 1 .. Len(toHost) : toHost[i].type # "report" => w = toHost[i].type
  /\ \A i, j \in 1 .. Len(toHost) : toHost[i].type # "report" /\ toHost[j].type # "report" => i = j

DevAt(w) ==
  /\ \A i \in 1 .. Len(toDev) : toDev[i].type = "data" => w = "data"
  /\ \A i, j \in 1 .. Len(toDev) : toDev[i].type = "data" /\ toDev[j].type = "data" => i = j

(* The token is at w, or nowhere. *)
TokenAt(w) ==
  /\ wake => w = "wake"
  /\ HostAt(w) /\ DevAt(w)
  /\ pollPc \in {"build", "write"} /\ pollMsg.type = "data" => w = "poll"
  /\ pollPc = "payload" => w = "poll"
  /\ pollPc \in {"cancel", "signal"} => w = "signal"

(* The payload it carries is the client's. *)
DevPayload == \A i \in 1 .. Len(toDev) : toDev[i].type = "data" => toDev[i] = Data(req, req)

PayloadInv ==
  /\ clientPc = "lock" \/ Sending => hold \in {0, req}
  /\ pollPc = "build" /\ pollMsg.type = "data" => pollMsg = Data(0, req)
  /\ pollPc = "write" /\ pollMsg.type = "data" => pollMsg = Data(req, req)
  /\ DevPayload

(* What the device has received by then. *)
InOrder == \A i \in 1 .. Len(got) : got[i] = <<i, i>>

ReceivedInv(w) ==
  /\ InOrder
  /\ w # "none" => Sending
  /\ w \in Before => Len(got) + 1 = req
  /\ w \in After => Len(got) = req
  /\ clientPc \in {"off", "idle", "deinit", "done"} => Len(got) = req
  /\ clientPc \in {"filled", "lock"} => Len(got) + 1 = req
  /\ Sending => Len(got) + 1 = req \/ Len(got) = req
  /\ clientPc \in {"waking", "wait"} /\ w = "none" => Len(got) + 1 = req
  /\ clientPc \in {"woken", "answer"} /\ result = Success => w = "none" /\ Len(got) = req

FlowAt(w) == FlowTypes /\ SenderInv /\ TokenAt(w) /\ PayloadInv /\ ReceivedInv(w)

FlowInv == upset \/ \E w \in Place : FlowAt(w)

(* The kinds of frames. *)
LEMMA Kinds ==
  /\ None.type = "none" /\ Request.type = "request" /\ Confirm.type = "confirm" /\ Report.type = "report"
  /\ \A b, l : Data(b, l).type = "data" /\ Data(b, l).buf = b /\ Data(b, l).len = l
BY DEF None, Request, Confirm, Report, Data

(* The first frame of a queue, and the frames behind it. *)
LEMMA TailOf ==
  ASSUME NEW S, NEW s \in Seq(S), s # <<>>
  PROVE  /\ Tail(s) \in Seq(S) /\ Len(Tail(s)) \in Nat /\ Len(s) = Len(Tail(s)) + 1
         /\ Head(s) = s[1] /\ 1 \in 1 .. Len(s)
         /\ \A i \in 1 .. Len(Tail(s)) : i + 1 \in 1 .. Len(s) /\ Tail(s)[i] = s[i + 1] /\ i + 1 # 1
OBVIOUS

(* A queue with one frame more. *)
LEMMA AppendTo ==
  ASSUME NEW S, NEW s \in Seq(S), NEW x \in S
  PROVE  /\ Append(s, x) \in Seq(S) /\ Len(s) \in Nat /\ Len(Append(s, x)) = Len(s) + 1
         /\ \A i \in 1 .. Len(Append(s, x)) :
              (i = Len(s) + 1 /\ Append(s, x)[i] = x) \/ (i \in 1 .. Len(s) /\ Append(s, x)[i] = s[i])
<1>1. Append(s, x) \in Seq(S) /\ Len(s) \in Nat /\ Len(Append(s, x)) = Len(s) + 1
  OBVIOUS
<1>2. Append(s, x)[Len(s) + 1] = x /\ \A i \in 1 .. Len(s) : Append(s, x)[i] = s[i]
  OBVIOUS
<1>3. \A i \in 1 .. Len(s) + 1 : i = Len(s) + 1 \/ i \in 1 .. Len(s)
  BY <1>1
<1>. QED BY <1>1, <1>2, <1>3

(* The queues, when a frame is taken or sent: where the token then may be.  *)
LEMMA HostTaken ==
  ASSUME toHost \in Seq({Request, Confirm, Report}), toHost # <<>>, toHost' = Tail(toHost), NEW w, HostAt(w)
  PROVE  /\ toHost' \in Seq({Request, Confirm, Report})
         /\ HostAt(w)'
         /\ Head(toHost).type # "report" => w = Head(toHost).type /\ \A v : HostAt(v)'
<1>1. toHost' \in Seq({Request, Confirm, Report}) /\ Head(toHost) = toHost[1] /\ 1 \in 1 .. Len(toHost)
  BY TailOf
<1>2. \A i \in 1 .. Len(toHost') : i + 1 \in 1 .. Len(toHost) /\ toHost'[i] = toHost[i + 1] /\ i + 1 # 1
  BY TailOf
<1>3. \A i, j \in 1 .. Len(toHost') : i + 1 = j + 1 => i = j
  OBVIOUS
<1>4. HostAt(w)'
  BY <1>2, <1>3 DEF HostAt
<1>5. ASSUME Head(toHost).type # "report", NEW v PROVE HostAt(v)'
  BY <1>1, <1>2, <1>5 DEF HostAt
<1>. QED BY <1>1, <1>4, <1>5 DEF HostAt

LEMMA HostSent ==
  ASSUME toHost \in Seq({Request, Confirm, Report}), NEW f \in {Request, Confirm, Report},
         toHost' = Append(toHost, f), NEW w, HostAt(w)
  PROVE  /\ toHost' \in Seq({Request, Confirm, Report})
         /\ f = Report => HostAt(w)'
         /\ w \notin {"request", "confirm"} => HostAt(f.type)'
<1>1. toHost' \in Seq({Request, Confirm, Report}) /\ Len(toHost) \in Nat
  BY AppendTo
<1>2. \A i \in 1 .. Len(toHost') :
        (i = Len(toHost) + 1 /\ toHost'[i] = f) \/ (i \in 1 .. Len(toHost) /\ toHost'[i] = toHost[i])
  BY AppendTo
<1>3. f = Report => HostAt(w)'
  BY <1>2, Kinds DEF HostAt
<1>4. ASSUME w \notin {"request", "confirm"} PROVE HostAt(f.type)'
  <2>1. \A i \in 1 .. Len(toHost) : toHost[i] \in {Request, Confirm, Report}
    OBVIOUS
  <2>2. \A i \in 1 .. Len(toHost) : toHost[i].type \in {"request", "confirm", "report"}
    BY <2>1, Kinds
  <2>3. \A i \in 1 .. Len(toHost) : toHost[i].type = "report"
    BY <1>4, <2>2 DEF HostAt
  <2>. QED BY <1>2, <2>3 DEF HostAt
<1>. QED BY <1>1, <1>3, <1>4

LEMMA DevTaken ==
  ASSUME toDev \in Seq(AnyFrame), toDev # <<>>, toDev' = Tail(toDev), NEW w, DevAt(w), DevPayload, UNCHANGED req
  PROVE  /\ toDev' \in Seq(AnyFrame)
         /\ DevAt(w)' /\ DevPayload'
         /\ Head(toDev).type = "data" => /\ w = "data" /\ Head(toDev) = Data(req, req)
                                        /\ \A v : DevAt(v)'
<1>1. toDev' \in Seq(AnyFrame) /\ Head(toDev) = toDev[1] /\ 1 \in 1 .. Len(toDev)
  BY TailOf
<1>2. \A i \in 1 .. Len(toDev') : i + 1 \in 1 .. Len(toDev) /\ toDev'[i] = toDev[i + 1] /\ i + 1 # 1
  BY TailOf
<1>3. \A i, j \in 1 .. Len(toDev') : i + 1 = j + 1 => i = j
  OBVIOUS
<1>4. DevAt(w)'
  BY <1>2, <1>3 DEF DevAt
<1>5. ASSUME Head(toDev).type = "data", NEW v PROVE DevAt(v)'
  BY <1>1, <1>2, <1>5 DEF DevAt
<1>6. DevPayload'
  BY <1>2 DEF DevPayload
<1>. QED BY <1>1, <1>4, <1>5, <1>6 DEF DevAt, DevPayload

LEMMA DevSent ==
  ASSUME toDev \in Seq(AnyFrame), NEW f \in AnyFrame, toDev' = Append(toDev, f), NEW w, DevAt(w),
         DevPayload, UNCHANGED req
  PROVE  /\ toDev' \in Seq(AnyFrame)
         /\ f.type # "data" => DevAt(w)' /\ DevPayload'
         /\ w # "data" /\ f = Data(req, req) => DevAt("data")' /\ DevPayload'
<1>1. toDev' \in Seq(AnyFrame) /\ Len(toDev) \in Nat
  BY AppendTo
<1>2. \A i \in 1 .. Len(toDev') :
        (i = Len(toDev) + 1 /\ toDev'[i] = f) \/ (i \in 1 .. Len(toDev) /\ toDev'[i] = toDev[i])
  BY AppendTo
<1>3. f.type # "data" => DevAt(w)' /\ DevPayload'
  BY <1>2 DEF DevAt, DevPayload
<1>4. w # "data" /\ f = Data(req, req) => DevAt("data")' /\ DevPayload'
  BY <1>2, Kinds DEF DevAt, DevPayload
<1>. QED BY <1>1, <1>3, <1>4


LEMMA FramesAre ==
  /\ None \in AnyFrame /\ Request \in AnyFrame /\ Confirm \in AnyFrame
  /\ \A b, l \in Nat : Data(b, l) \in AnyFrame
  /\ Request # Data(0, 0) /\ Request # Confirm
BY Kinds DEF AnyFrame

(* A token that is nowhere else may be anywhere. *)
LEMMA HostFree ==
  ASSUME toHost \in Seq({Request, Confirm, Report}), NEW w, HostAt(w), w \notin {"request", "confirm"}
  PROVE  \A v : HostAt(v)
<1>1. \A i \in 1 .. Len(toHost) : toHost[i] \in {Request, Confirm, Report}
  OBVIOUS
<1>2. \A i \in 1 .. Len(toHost) : toHost[i].type \in {"request", "confirm", "report"}
  BY <1>1, Kinds
<1>. QED BY <1>2 DEF HostAt

USE DEF FlowAt, FlowTypes, SenderInv, TokenAt, PayloadInv, ReceivedInv, Place, Before, After, Sending,
        clientVars, pollVars, wireVars, DeviceVars, HostAt, DevAt, DevPayload, InOrder

(* One lemma for each action: where the token is afterwards. *)
LEMMA InitManagerFlows ==
  ASSUME NEW w \in Place, FlowAt(w), ~upset', ZbInit
  PROVE  \E v \in Place : FlowAt(v)'
<1>1. FlowTypes'
  BY DEF ZbInit
<1>2. SenderInv'
  BY DEF ZbInit
<1>3. TokenAt(w)'
  BY DEF ZbInit
<1>4. PayloadInv'
  BY DEF ZbInit
<1>5. ReceivedInv(w)'
  BY DEF ZbInit
<1>. QED BY <1>1, <1>2, <1>3, <1>4, <1>5 DEF FlowAt

LEMMA FillBufferFlows ==
  ASSUME NEW w \in Place, FlowAt(w), ~upset', FillBuffer
  PROVE  \E v \in Place : FlowAt(v)'
<1>1. FlowTypes'
  BY DEF FillBuffer
<1>2. SenderInv'
  BY DEF FillBuffer
<1>3. TokenAt(w)'
  BY DEF FillBuffer
<1>4. PayloadInv'
  BY DEF FillBuffer
<1>5. ReceivedInv(w)'
  BY DEF FillBuffer
<1>. QED BY <1>1, <1>2, <1>3, <1>4, <1>5 DEF FlowAt

LEMMA DeinitCancelsFlows ==
  ASSUME NEW w \in Place, FlowAt(w), ~upset', DeinitCancels
  PROVE  \E v \in Place : FlowAt(v)'
<1>1. FlowTypes'
  BY DEF DeinitCancels
<1>2. SenderInv'
  BY DEF DeinitCancels
<1>3. TokenAt(w)'
  BY DEF DeinitCancels
<1>4. PayloadInv'
  BY DEF DeinitCancels
<1>5. ReceivedInv(w)'
  BY DEF DeinitCancels
<1>. QED BY <1>1, <1>2, <1>3, <1>4, <1>5 DEF FlowAt

LEMMA FillLengthFlows ==
  ASSUME NEW w \in Place, FlowAt(w), ~upset', FillLength
  PROVE  \E v \in Place : FlowAt(v)'
<1>1. FlowTypes'
  BY DEF FillLength
<1>2. SenderInv'
  BY DEF FillLength
<1>3. TokenAt(w)'
  BY DEF FillLength
<1>4. PayloadInv'
  BY DEF FillLength
<1>5. ReceivedInv(w)'
  BY DEF FillLength
<1>. QED BY <1>1, <1>2, <1>3, <1>4, <1>5 DEF FlowAt

LEMMA TriggerSendFlows ==
  ASSUME NEW w \in Place, FlowAt(w), ~upset', TriggerSend
  PROVE  \E v \in Place : FlowAt(v)'
<1> DEFINE v == "wake"
<1>1. FlowTypes'
  BY DEF TriggerSend
<1>2. SenderInv'
  BY DEF TriggerSend
<1>3. TokenAt(v)'
  <2>1. w = "none" /\ UNCHANGED <<toHost, toDev, pollPc, pollMsg>>
    BY DEF TriggerSend
  <2>2. HostAt("wake") /\ DevAt("wake")
    BY <2>1, HostFree DEF DevAt
  <2>. QED BY <2>1, <2>2 DEF TriggerSend, HostAt, DevAt
<1>4. PayloadInv'
  BY DEF TriggerSend
<1>5. ReceivedInv(v)'
  BY DEF TriggerSend
<1>6. v \in Place
  OBVIOUS
<1>. QED BY <1>1, <1>2, <1>3, <1>4, <1>5, <1>6 DEF FlowAt

LEMMA WaitForAnswerFlows ==
  ASSUME NEW w \in Place, FlowAt(w), ~upset', WaitForAnswer
  PROVE  \E v \in Place : FlowAt(v)'
<1>1. FlowTypes'
  BY DEF WaitForAnswer
<1>2. SenderInv'
  BY DEF WaitForAnswer
<1>3. TokenAt(w)'
  BY DEF WaitForAnswer
<1>4. PayloadInv'
  BY DEF WaitForAnswer
<1>5. ReceivedInv(w)'
  BY DEF WaitForAnswer
<1>. QED BY <1>1, <1>2, <1>3, <1>4, <1>5 DEF FlowAt

LEMMA WokenFlows ==
  ASSUME NEW w \in Place, FlowAt(w), ~upset', Woken
  PROVE  \E v \in Place : FlowAt(v)'
<1>1. FlowTypes'
  BY DEF Woken
<1>2. SenderInv'
  BY DEF Woken
<1>3. TokenAt(w)'
  BY DEF Woken
<1>4. PayloadInv'
  BY DEF Woken
<1>5. ReceivedInv(w)'
  BY DEF Woken
<1>. QED BY <1>1, <1>2, <1>3, <1>4, <1>5 DEF FlowAt

LEMMA SendReturnsFlows ==
  ASSUME NEW w \in Place, FlowAt(w), ~upset', SendReturns
  PROVE  \E v \in Place : FlowAt(v)'
<1>1. FlowTypes'
  BY DEF SendReturns
<1>2. SenderInv'
  BY DEF SendReturns
<1>3. TokenAt(w)'
  BY DEF SendReturns
<1>4. PayloadInv'
  BY DEF SendReturns
<1>5. ReceivedInv(w)'
  BY DEF SendReturns
<1>. QED BY <1>1, <1>2, <1>3, <1>4, <1>5 DEF FlowAt

LEMMA DeinitManagerFlows ==
  ASSUME NEW w \in Place, FlowAt(w), ~upset', ZbDeinit
  PROVE  \E v \in Place : FlowAt(v)'
<1>1. FlowTypes'
  BY DEF ZbDeinit
<1>2. SenderInv'
  BY DEF ZbDeinit
<1>3. TokenAt(w)'
  BY DEF ZbDeinit
<1>4. PayloadInv'
  BY DEF ZbDeinit
<1>5. ReceivedInv(w)'
  BY DEF ZbDeinit
<1>. QED BY <1>1, <1>2, <1>3, <1>4, <1>5 DEF FlowAt

LEMMA TimeoutTriggersFlows ==
  ASSUME NEW w \in Place, FlowAt(w), ~upset', TimeoutTriggers
  PROVE  \E v \in Place : FlowAt(v)'
<1>1. FlowTypes'
  BY DEF TimeoutTriggers
<1>2. SenderInv'
  BY DEF TimeoutTriggers
<1>3. TokenAt(w)'
  BY DEF TimeoutTriggers
<1>4. PayloadInv'
  BY DEF TimeoutTriggers
<1>5. ReceivedInv(w)'
  BY DEF TimeoutTriggers
<1>. QED BY <1>1, <1>2, <1>3, <1>4, <1>5 DEF FlowAt

LEMMA TimeoutCleansFlows ==
  ASSUME NEW w \in Place, FlowAt(w), ~upset', TimeoutCleans
  PROVE  \E v \in Place : FlowAt(v)'
<1>1. FlowTypes'
  BY DEF TimeoutCleans
<1>2. SenderInv'
  BY DEF TimeoutCleans
<1>3. TokenAt(w)'
  BY DEF TimeoutCleans
<1>4. PayloadInv'
  BY DEF TimeoutCleans
<1>5. ReceivedInv(w)'
  BY DEF TimeoutCleans
<1>. QED BY <1>1, <1>2, <1>3, <1>4, <1>5 DEF FlowAt

LEMMA TimeoutSignalsFlows ==
  ASSUME NEW w \in Place, FlowAt(w), ~upset', TimeoutSignals
  PROVE  \E v \in Place : FlowAt(v)'
<1>1. FlowTypes'
  BY DEF TimeoutSignals, SignalSender, Success, SendTimeout
<1>2. SenderInv'
  BY DEF TimeoutSignals, SignalSender, Success, SendTimeout
<1>3. TokenAt(w)'
  BY DEF TimeoutSignals, SignalSender, Success, SendTimeout
<1>4. PayloadInv'
  BY DEF TimeoutSignals, SignalSender, Success, SendTimeout
<1>5. ReceivedInv(w)'
  BY DEF TimeoutSignals, SignalSender, Success, SendTimeout
<1>. QED BY <1>1, <1>2, <1>3, <1>4, <1>5 DEF FlowAt

LEMMA RecvRequestFlows ==
  ASSUME NEW w \in Place, FlowAt(w), ~upset', RecvRequest
  PROVE  \E v \in Place : FlowAt(v)'
<1>0. /\ toHost # <<>> /\ Head(toHost).type = "request" /\ toHost' = Tail(toHost)
      /\ UNCHANGED <<mutex, req, hold, buf, got, toDev, sbuf, clientPc, sigPc, wake, result, pollMsg>>
      /\ pollPc' = IF hold > 0 THEN "payload" ELSE "read"
      /\ pollPc = "read"
  BY DEF RecvRequest, Receive
<1>8. PICK v \in Place : v = IF hold > 0 THEN "poll" ELSE "none"
  OBVIOUS
<1>6. /\ toHost' \in Seq({Request, Confirm, Report}) /\ HostAt(v)'
      /\ w = "request"
  BY <1>0, HostTaken
<1>7. Sending /\ hold \in {0, req} /\ req \in Nat
  BY <1>6
<1>1. FlowTypes'
  BY <1>0, <1>6, <1>7
<1>2. SenderInv'
  BY <1>0, Kinds
<1>3. TokenAt(v)'
  <2>1. DevAt(v)'
    BY <1>0, <1>6
  <2>. QED BY <1>0, <1>6, <1>8, <2>1
<1>4. PayloadInv'
  BY <1>0, <1>7
<1>5. ReceivedInv(v)'
  BY <1>0, <1>6, <1>7, <1>8
<1>. QED BY <1>1, <1>2, <1>3, <1>4, <1>5, <1>8

LEMMA SendPayloadFlows ==
  ASSUME NEW w \in Place, FlowAt(w), ~upset', SendPayload
  PROVE  FlowAt(w)'
<1>0. /\ UNCHANGED <<mutex, req, hold, buf, got, toDev, toHost, sbuf, clientPc, sigPc, wake, result>>
      /\ pollMsg' = Data(0, hold) /\ pollPc = "payload" /\ pollPc' = "build" /\ hold # 0
  BY DEF SendPayload, wireVars
<1>7. w = "poll" /\ Sending /\ hold = req /\ req \in Nat
  BY <1>0
<1>1. FlowTypes'
  <2>1. Data(0, hold) \in AnyFrame
    BY <1>7, FramesAre
  <2>. QED BY <1>0, <1>7, <2>1
<1>2. SenderInv'
  BY <1>0, Kinds
<1>3. TokenAt(w)'
  BY <1>0, <1>7
<1>4. PayloadInv'
  BY <1>0, <1>7
<1>5. ReceivedInv(w)'
  BY <1>0, <1>7
<1>. QED BY <1>1, <1>2, <1>3, <1>4, <1>5

LEMMA RecvConfirmFlows ==
  ASSUME NEW w \in Place, FlowAt(w), ~upset', RecvConfirm
  PROVE  \E v \in Place : FlowAt(v)'
<1>0. /\ toHost # <<>> /\ Head(toHost).type = "confirm" /\ toHost' = Tail(toHost)
      /\ UNCHANGED <<mutex, req, buf, got, toDev, sbuf, clientPc, sigPc, wake, result, pollMsg>>
      /\ hold' = 0 /\ pollPc = "read" /\ pollPc' = "cancel"
  BY DEF RecvConfirm, Receive
<1>6. /\ toHost' \in Seq({Request, Confirm, Report}) /\ HostAt("signal")'
      /\ w = "confirm"
  BY <1>0, HostTaken
<1>1. FlowTypes'
  BY <1>0, <1>6
<1>2. SenderInv'
  BY <1>0
<1>3. TokenAt("signal")'
  <2>1. DevAt("signal")'
    BY <1>0, <1>6
  <2>. QED BY <1>0, <1>6, <2>1
<1>4. PayloadInv'
  BY <1>0
<1>5. ReceivedInv("signal")'
  BY <1>0, <1>6
<1>7. FlowAt("signal")' /\ "signal" \in Place
  BY <1>1, <1>2, <1>3, <1>4, <1>5
<1>. QED BY <1>7

LEMMA CancelAlarmFlows ==
  ASSUME NEW w \in Place, FlowAt(w), ~upset', CancelAlarm
  PROVE  \E v \in Place : FlowAt(v)'
<1>1. FlowTypes'
  BY DEF CancelAlarm
<1>2. SenderInv'
  BY DEF CancelAlarm
<1>3. TokenAt(w)'
  BY DEF CancelAlarm
<1>4. PayloadInv'
  BY DEF CancelAlarm
<1>5. ReceivedInv(w)'
  BY DEF CancelAlarm
<1>. QED BY <1>1, <1>2, <1>3, <1>4, <1>5 DEF FlowAt

LEMMA ConfirmSignalsFlows ==
  ASSUME NEW w \in Place, FlowAt(w), ~upset', ConfirmSignals
  PROVE  \E v \in Place : FlowAt(v)'
<1> DEFINE v == "none"
<1>1. FlowTypes'
  BY DEF ConfirmSignals, SignalSender, Success, SendTimeout
<1>2. SenderInv'
  BY DEF ConfirmSignals, SignalSender, Success, SendTimeout
<1>3. TokenAt(v)'
  <2>1. w = "signal" /\ UNCHANGED <<toHost, toDev, wake>> /\ pollPc' = "read"
    BY DEF ConfirmSignals
  <2>2. HostAt("none") /\ DevAt("none")
    BY <2>1, HostFree DEF DevAt
  <2>. QED BY <2>1, <2>2 DEF HostAt, DevAt
<1>4. PayloadInv'
  BY DEF ConfirmSignals, SignalSender, Success, SendTimeout
<1>5. ReceivedInv("none")'
  <2>1. w = "signal" /\ mutex = "free" /\ UNCHANGED <<req, got>>
    BY DEF ConfirmSignals
  <2>2. clientPc \in {"wait", "woken", "answer"} /\ Len(got) = req
    <3>1. Sending /\ Len(got) = req
      BY <2>1
    <3>2. clientPc # "waking"
      BY <2>1
    <3>. QED BY <3>1, <3>2
  <2>3. clientPc' \in {"woken", "answer"} /\ InOrder'
    BY <2>1, <2>2 DEF ConfirmSignals, SignalSender, InOrder
  <2>. QED BY <2>1, <2>2, <2>3
<1>6. v \in Place
  OBVIOUS
<1>. QED BY <1>1, <1>2, <1>3, <1>4, <1>5, <1>6 DEF FlowAt

LEMMA RecvReportFlows ==
  ASSUME NEW w \in Place, FlowAt(w), ~upset', RecvReport
  PROVE  \E v \in Place : FlowAt(v)'
<1>0. /\ toHost # <<>> /\ toHost' = Tail(toHost)
      /\ UNCHANGED <<mutex, req, hold, buf, got, toDev, sbuf, clientPc, sigPc, wake, result>>
      /\ pollMsg' = Confirm /\ pollPc = "read" /\ pollPc' = "build"
  BY DEF RecvReport, Receive
<1>6. toHost' \in Seq({Request, Confirm, Report}) /\ HostAt(w)'
  BY <1>0, HostTaken
<1>1. FlowTypes'
  BY <1>0, <1>6, FramesAre
<1>2. SenderInv'
  BY <1>0, Kinds
<1>3. TokenAt(w)'
  <2>1. DevAt(w)'
    BY <1>0
  <2>. QED BY <1>0, <1>6, <2>1, Kinds
<1>4. PayloadInv'
  BY <1>0, Kinds
<1>5. ReceivedInv(w)'
  BY <1>0
<1>. QED BY <1>1, <1>2, <1>3, <1>4, <1>5

LEMMA PollBuildsFlows ==
  ASSUME NEW w \in Place, FlowAt(w), ~upset', PollBuilds
  PROVE  \E v \in Place : FlowAt(v)'
<1>0. /\ UNCHANGED <<mutex, req, hold, buf, got, toDev, toHost, clientPc, sigPc, wake, result>>
      /\ pollMsg' = IF pollMsg.type = "data" THEN Data(buf, pollMsg.len) ELSE pollMsg
      /\ sbuf' = pollMsg' /\ pollPc = "build" /\ pollPc' = "write" /\ sigPc # "write"
  BY DEF PollBuilds
<1>6. req \in Nat /\ (pollMsg.type = "data" => pollMsg' = Data(req, req))
  BY <1>0, Kinds
<1>7. pollMsg' \in AnyFrame /\ (pollMsg'.type = "data" => pollMsg.type = "data")
  BY <1>0, <1>6, FramesAre
<1>1. FlowTypes'
  BY <1>0, <1>7
<1>2. SenderInv'
  BY <1>0, <1>6, Kinds
<1>3. TokenAt(w)'
  BY <1>0, <1>7
<1>4. PayloadInv'
  BY <1>0, <1>6, <1>7
<1>5. ReceivedInv(w)'
  BY <1>0
<1>. QED BY <1>1, <1>2, <1>3, <1>4, <1>5

LEMMA PollWritesFlows ==
  ASSUME NEW w \in Place, FlowAt(w), ~upset', PollWrites
  PROVE  \E v \in Place : FlowAt(v)'
<1>9. PICK v \in Place : v = IF pollMsg.type = "data" THEN "data" ELSE w
  OBVIOUS
<1>0. /\ UNCHANGED <<mutex, req, hold, buf, got, toHost, clientPc, sigPc, wake, result, sbuf>>
      /\ toDev' = Append(toDev, pollMsg) /\ pollMsg' = None
      /\ pollPc = "write" /\ pollPc' = "read"
  BY DEF PollWrites, Write
<1>6. /\ pollMsg.type = "data" => pollMsg = Data(req, req) /\ w = "poll" /\ v = "data"
      /\ pollMsg.type # "data" => v = w
  BY <1>0, <1>9
<1>7. toDev' \in Seq(AnyFrame) /\ DevAt(v)' /\ DevPayload'
  BY <1>0, <1>6, DevSent
<1>8. HostAt(v)'
  BY <1>0, <1>6, HostFree
<1>1. FlowTypes'
  BY <1>0, <1>7, FramesAre
<1>2. SenderInv'
  BY <1>0
<1>3. TokenAt(v)'
  BY <1>0, <1>6, <1>7, <1>8
<1>4. PayloadInv'
  BY <1>0, <1>7
<1>5. ReceivedInv(v)'
  BY <1>0, <1>6
<1>. QED BY <1>1, <1>2, <1>3, <1>4, <1>5

LEMMA PollDiesFlows ==
  ASSUME NEW w \in Place, FlowAt(w), ~upset', PollDies
  PROVE  \E v \in Place : FlowAt(v)'
<1>1. FlowTypes'
  BY DEF PollDies
<1>2. SenderInv'
  BY DEF PollDies
<1>3. TokenAt(w)'
  BY DEF PollDies
<1>4. PayloadInv'
  BY DEF PollDies
<1>5. ReceivedInv(w)'
  BY DEF PollDies
<1>. QED BY <1>1, <1>2, <1>3, <1>4, <1>5 DEF FlowAt

LEMMA HandlerBuildsFlows ==
  ASSUME NEW w \in Place, FlowAt(w), ~upset', HandlerBuilds
  PROVE  \E v \in Place : FlowAt(v)'
<1>1. FlowTypes'
  BY FramesAre DEF HandlerBuilds
<1>2. SenderInv'
  BY DEF HandlerBuilds
<1>3. TokenAt(w)'
  BY DEF HandlerBuilds
<1>4. PayloadInv'
  BY DEF HandlerBuilds
<1>5. ReceivedInv(w)'
  BY DEF HandlerBuilds
<1>. QED BY <1>1, <1>2, <1>3, <1>4, <1>5 DEF FlowAt

LEMMA HandlerWritesFlows ==
  ASSUME NEW w \in Place, FlowAt(w), ~upset', HandlerWrites
  PROVE  \E v \in Place : FlowAt(v)'
<1>0. /\ UNCHANGED <<mutex, req, hold, buf, got, toHost, clientPc, wake, result, sbuf, pollMsg, pollPc>>
      /\ toDev' = Append(toDev, Request) /\ sigPc' = "none"
  BY DEF HandlerWrites, Write
<1>6. toDev' \in Seq(AnyFrame) /\ DevAt(w)' /\ DevPayload'
  BY <1>0, DevSent, FramesAre, Kinds
<1>1. FlowTypes'
  BY <1>0, <1>6
<1>2. SenderInv'
  BY <1>0
<1>3. TokenAt(w)'
  <2>1. HostAt(w)'
    BY <1>0
  <2>. QED BY <1>0, <1>6, <2>1
<1>4. PayloadInv'
  BY <1>0, <1>6
<1>5. ReceivedInv(w)'
  BY <1>0
<1>. QED BY <1>1, <1>2, <1>3, <1>4, <1>5

LEMMA DeviceAsksFlows ==
  ASSUME NEW w \in Place, FlowAt(w), ~upset', DeviceAsks
  PROVE  \E v \in Place : FlowAt(v)'
<1> DEFINE v == "request"
<1>1. FlowTypes'
  BY DEF DeviceAsks
<1>2. SenderInv'
  BY DEF DeviceAsks
<1>3. TokenAt(v)'
  <2>1. /\ w = "wake" /\ wake' = FALSE /\ toHost' = Append(toHost, Request)
        /\ UNCHANGED <<toDev, pollPc, pollMsg>>
    BY DEF DeviceAsks
  <2>2. HostAt("request")' /\ DevAt("request")'
    BY <2>1, HostSent, Kinds DEF DevAt
  <2>. QED BY <2>1, <2>2
<1>4. PayloadInv'
  BY DEF DeviceAsks
<1>5. ReceivedInv(v)'
  BY DEF DeviceAsks
<1>6. v \in Place
  OBVIOUS
<1>. QED BY <1>1, <1>2, <1>3, <1>4, <1>5, <1>6 DEF FlowAt

LEMMA DeviceInterruptsFlows ==
  ASSUME NEW w \in Place, FlowAt(w), ~upset', DeviceInterrupts
  PROVE  \E v \in Place : FlowAt(v)'
<1>1. FlowTypes'
  BY DEF DeviceInterrupts
<1>2. SenderInv'
  BY DEF DeviceInterrupts
<1>3. TokenAt(w)'
  BY DEF DeviceInterrupts
<1>4. PayloadInv'
  BY DEF DeviceInterrupts
<1>5. ReceivedInv(w)'
  BY DEF DeviceInterrupts
<1>. QED BY <1>1, <1>2, <1>3, <1>4, <1>5 DEF FlowAt

LEMMA DeviceReceivesFlows ==
  ASSUME NEW w \in Place, FlowAt(w), ~upset', DeviceReceives
  PROVE  \E v \in Place : FlowAt(v)'
<1> DEFINE m == Head(toDev)
<1>0. /\ UNCHANGED <<mutex, req, hold, buf, clientPc, wake, result, sbuf, pollMsg, pollPc, sigPc>>
      /\ toDev # <<>> /\ toDev' = Tail(toDev)
      /\ m.type = "data" => toHost' = Append(toHost, Confirm) /\ got' = Append(got, <<m.buf, m.len>>)
      /\ m.type # "data" => /\ toHost' = toHost \/ toHost' = Append(toHost, Report)
                            /\ got' = got
  BY DEF DeviceReceives
<1>6. /\ toDev' \in Seq(AnyFrame) /\ DevAt(w)' /\ DevPayload'
      /\ m.type = "data" => w = "data" /\ m = Data(req, req) /\ DevAt("confirm")'
  BY <1>0, DevTaken
<1>2. SenderInv'
  BY <1>0
<1>4. PayloadInv'
  BY <1>0, <1>6
<1> HIDE DEF m
<1>7. CASE m.type # "data"
  <2>1. toHost' \in Seq({Request, Confirm, Report}) /\ HostAt(w)'
    <3>1. CASE toHost' = toHost
      BY <3>1
    <3>2. CASE toHost' = Append(toHost, Report)
      <4>1. toHost \in Seq({Request, Confirm, Report}) /\ HostAt(w)
        OBVIOUS
      <4> HIDE DEF HostAt
      <4>. QED BY <3>2, <4>1, HostSent
    <3>. QED BY <1>0, <1>7, <3>1, <3>2
  <2>2. FlowTypes'
    BY <1>0, <1>6, <1>7, <2>1
  <2>3. TokenAt(w)'
    BY <1>0, <1>6, <1>7, <2>1
  <2>4. ReceivedInv(w)'
    BY <1>0, <1>7
  <2>. QED BY <1>2, <1>4, <2>2, <2>3, <2>4
<1>8. CASE m.type = "data"
  <2>1. w = "data" /\ got' = Append(got, <<req, req>>) /\ <<req, req>> \in Nat \X Nat /\ Sending
    BY <1>0, <1>6, <1>8, Kinds
  <2>2. toHost' \in Seq({Request, Confirm, Report}) /\ HostAt("confirm")'
    BY <1>0, <1>8, <2>1, HostSent, Kinds
  <2>3. got' \in Seq(Nat \X Nat) /\ Len(got') = Len(got) + 1
        /\ \A i \in 1 .. Len(got') : (i = Len(got) + 1 /\ got'[i] = <<req, req>>)
                                     \/ (i \in 1 .. Len(got) /\ got'[i] = got[i])
    BY <2>1, AppendTo
  <2>4. FlowTypes'
    BY <1>0, <1>6, <2>2, <2>3
  <2>5. TokenAt("confirm")'
    BY <1>0, <1>6, <1>8, <2>1, <2>2
  <2>6. ReceivedInv("confirm")'
    <3>1. Len(got) + 1 = req
      BY <2>1
    <3>2. InOrder'
      BY <2>3, <3>1
    <3>. QED BY <1>0, <2>1, <2>3, <3>1, <3>2
  <2>. QED BY <1>2, <1>4, <2>4, <2>5, <2>6
<1>. QED BY <1>7, <1>8

LEMMA StaysFlows ==
  ASSUME NEW w \in Place, FlowAt(w), UNCHANGED zigbeeVars
  PROVE  \E v \in Place : FlowAt(v)'
<1>1. FlowTypes'
  BY DEF zigbeeVars
<1>2. SenderInv'
  BY DEF zigbeeVars
<1>3. TokenAt(w)'
  BY DEF zigbeeVars
<1>4. PayloadInv'
  BY DEF zigbeeVars
<1>5. ReceivedInv(w)'
  BY DEF zigbeeVars
<1>. QED BY <1>1, <1>2, <1>3, <1>4, <1>5

HIDE DEF FlowAt, FlowTypes, SenderInv, TokenAt, PayloadInv, ReceivedInv, Place, Before, After, Sending,
         clientVars, pollVars, wireVars, DeviceVars, HostAt, DevAt, DevPayload, InOrder

(* What went wrong once stays so. *)
LEMMA UpsetStays ==
  ASSUME upset, [ZigbeeNext]_zigbeeVars
  PROVE  upset'
<1>1. CASE ZbInit
  BY <1>1 DEF ZbInit
<1>2. CASE FillBuffer
  BY <1>2 DEF FillBuffer
<1>3. CASE DeinitCancels
  BY <1>3 DEF DeinitCancels
<1>4. CASE WokenSpuriously
  BY <1>4 DEF WokenSpuriously
<1>5. CASE FillLength
  BY <1>5 DEF FillLength
<1>6. CASE TriggerSend
  BY <1>6 DEF TriggerSend
<1>7. CASE WaitForAnswer
  BY <1>7 DEF WaitForAnswer
<1>8. CASE Woken
  BY <1>8 DEF Woken
<1>9. CASE SendReturns
  BY <1>9 DEF SendReturns
<1>10. CASE ZbDeinit
  BY <1>10 DEF ZbDeinit
<1>11. CASE TimeoutTriggers
  BY <1>11 DEF TimeoutTriggers
<1>12. CASE TimeoutCleans
  BY <1>12 DEF TimeoutCleans
<1>13. CASE TimeoutSignals
  BY <1>13 DEF TimeoutSignals
<1>14. CASE HandlerBuilds
  BY <1>14 DEF HandlerBuilds
<1>15. CASE HandlerWrites
  BY <1>15 DEF HandlerWrites
<1>16. CASE RecvRequest
  BY <1>16 DEF RecvRequest
<1>26. CASE SendPayload
  BY <1>26 DEF SendPayload
<1>17. CASE RecvConfirm
  BY <1>17 DEF RecvConfirm
<1>18. CASE RecvReport
  BY <1>18 DEF RecvReport
<1>19. CASE CancelAlarm
  BY <1>19 DEF CancelAlarm
<1>20. CASE ConfirmSignals
  BY <1>20 DEF ConfirmSignals
<1>21. CASE PollBuilds
  BY <1>21 DEF PollBuilds
<1>22. CASE PollWrites
  BY <1>22 DEF PollWrites
<1>23. CASE PollDies
  BY <1>23 DEF PollDies
<1>24. CASE Cc2530
  BY <1>24 DEF Cc2530, DeviceAsks, DeviceInterrupts, DeviceReceives, DeviceVars
<1>25. CASE UNCHANGED zigbeeVars
  BY <1>25 DEF zigbeeVars
<1>. QED BY <1>1, <1>2, <1>3, <1>4, <1>5, <1>6, <1>7, <1>8, <1>9, <1>10, <1>11, <1>12, <1>13, <1>14, <1>15, <1>16, <1>17, <1>18, <1>19, <1>20, <1>21, <1>22, <1>23, <1>24, <1>25, <1>26
  DEF ZigbeeNext, Client, SendAlarm, SigHandler, PollThread

LEMMA FlowStep == FlowInv /\ [ZigbeeNext]_zigbeeVars => FlowInv'
<1> SUFFICES ASSUME FlowInv, [ZigbeeNext]_zigbeeVars, ~upset' PROVE \E v \in Place : FlowAt(v)'
  BY DEF FlowInv
<1>1. ~WokenSpuriously
  BY DEF WokenSpuriously
<1>7. ~upset
  BY UpsetStays
<1>2. PICK w \in Place : FlowAt(w)
  BY <1>7 DEF FlowInv
<1>3. CASE ZbInit \/ FillBuffer \/ DeinitCancels \/ Client
  BY <1>2, <1>3, InitManagerFlows, FillBufferFlows, DeinitCancelsFlows, FillLengthFlows, TriggerSendFlows,
     WaitForAnswerFlows, WokenFlows, SendReturnsFlows, DeinitManagerFlows DEF Client
<1>4. CASE SendAlarm \/ SigHandler
  BY <1>2, <1>4, TimeoutTriggersFlows, TimeoutCleansFlows, TimeoutSignalsFlows, HandlerBuildsFlows,
     HandlerWritesFlows DEF SendAlarm, SigHandler
<1>5. CASE PollThread
  BY <1>2, <1>5, RecvRequestFlows, SendPayloadFlows, RecvConfirmFlows, RecvReportFlows,
     CancelAlarmFlows, ConfirmSignalsFlows, PollBuildsFlows, PollWritesFlows, PollDiesFlows DEF PollThread
<1>6. CASE Cc2530
  BY <1>2, <1>6, DeviceAsksFlows, DeviceInterruptsFlows, DeviceReceivesFlows DEF Cc2530
<1>. QED BY <1>1, <1>2, <1>3, <1>4, <1>5, <1>6, StaysFlows DEF ZigbeeNext

LEMMA FlowInit == ZigbeeInit => FlowInv
<1> SUFFICES ASSUME ZigbeeInit PROVE FlowAt("none")
  BY DEF FlowInv, Place
<1> USE DEF ZigbeeInit
<1>1. FlowTypes
  <2>1. <<>> \in Seq(Nat \X Nat) /\ <<>> \in Seq({Request, Confirm, Report}) /\ <<>> \in Seq(AnyFrame)
    OBVIOUS
  <2>. QED BY <2>1, FramesAre DEF FlowTypes
<1>2. SenderInv /\ PayloadInv
  BY DEF SenderInv, PayloadInv, DevPayload, Sending
<1>3. TokenAt("none")
  BY DEF TokenAt, HostAt, DevAt
<1>4. ReceivedInv("none")
  BY DEF ReceivedInv, InOrder, Sending, Before, After
<1>. QED BY <1>1, <1>2, <1>3, <1>4 DEF FlowAt

(* For any number of sends, reports and spurious wake-ups: while no send   *)
(* has failed and the two senders kept off each other's frame, the device  *)
(* receives the payloads exactly once, in order and untorn, however late   *)
(* alarms, requests and confirmations come.                                *)
THEOREM ExactlyOnceAlways == ZigbeeSpec => []ExactlyOnce
<1>1. FlowInv => ExactlyOnce
  <2> SUFFICES ASSUME FlowInv, ~upset
               PROVE  /\ \A i \in 1 .. Len(got) : got[i] = <<i, i>>
                      /\ Len(got) <= req
                      /\ clientPc \in {"idle", "deinit"} => Len(got) = req
    BY DEF ExactlyOnce
  <2>1. PICK w \in Place : FlowAt(w)
    BY DEF FlowInv
  <2>2. req \in Nat /\ Len(got) \in Nat /\ InOrder
    BY <2>1 DEF FlowAt, FlowTypes, ReceivedInv
  <2>3. Len(got) = req \/ Len(got) + 1 = req
    BY <2>1 DEF FlowAt, ReceivedInv, FlowTypes, Sending
  <2>4. clientPc \in {"idle", "deinit"} => Len(got) = req
    BY <2>1 DEF FlowAt, ReceivedInv
  <2>. QED BY <2>2, <2>3, <2>4 DEF InOrder
<1>. QED BY <1>1, FlowInit, FlowStep, PTL DEF ZigbeeSpec

-----------------------------------------------------------------------------
(* ZigbeeTypeOK in parts: where everyone is, numbers, frames.              *)
PlaceTypes ==
  /\ clientPc \in {"off", "idle", "filled", "lock", "waking", "wait", "woken", "answer",
             "deinit", "done"}
  /\ mutex \in {"free", "client", "poll"} /\ result \in {Success, SendTimeout}
  /\ alarm \in BOOLEAN /\ alarmPc \in {"idle", "due", "signal"}
  /\ pollPc \in {"off", "read", "payload", "build", "write", "cancel", "signal"}
  /\ sigPc \in {"none", "build", "write"}
  /\ lost \subseteq {"send", "alarms", "uart"} /\ pollCancelled \in BOOLEAN /\ wake \in BOOLEAN
NumberTypes == req \in 0 .. MaxSends /\ buf \in 0 .. MaxSends /\ hold \in 0 .. MaxSends
FrameTypes == pollMsg \in Frame /\ sbuf \in Frame /\ toHost \in Seq(Frame) /\ toDev \in Seq(Frame)

LEMMA ClientPlaces ==
  PlaceTypes /\ (Client \/ ZbInit \/ FillBuffer \/ DeinitCancels \/ WokenSpuriously)
    => PlaceTypes'
<1> USE DEF PlaceTypes, pollVars, wireVars
<1>1. PlaceTypes /\ ZbInit => PlaceTypes'
  BY DEF ZbInit
<1>2. PlaceTypes /\ FillBuffer => PlaceTypes'
  BY DEF FillBuffer
<1>3. PlaceTypes /\ FillLength => PlaceTypes'
  BY DEF FillLength
<1>4. PlaceTypes /\ TriggerSend => PlaceTypes'
  BY DEF TriggerSend
<1>5. PlaceTypes /\ WaitForAnswer => PlaceTypes'
  BY DEF WaitForAnswer
<1>6. PlaceTypes /\ WokenSpuriously => PlaceTypes'
  BY DEF WokenSpuriously
<1>7. PlaceTypes /\ Woken => PlaceTypes'
  BY DEF Woken
<1>8. PlaceTypes /\ SendReturns => PlaceTypes'
  BY DEF SendReturns
<1>9. PlaceTypes /\ DeinitCancels => PlaceTypes'
  BY DEF DeinitCancels
<1>10. PlaceTypes /\ ZbDeinit => PlaceTypes'
  BY DEF ZbDeinit
<1> HIDE DEF PlaceTypes, pollVars, wireVars
<1>. QED BY <1>1, <1>2, <1>3, <1>4, <1>5, <1>6, <1>7, <1>8, <1>9, <1>10 DEF Client

LEMMA AlarmPlaces == PlaceTypes /\ SendAlarm => PlaceTypes'
<1> USE DEF PlaceTypes, clientVars, pollVars, wireVars
<1>1. PlaceTypes /\ TimeoutTriggers => PlaceTypes'
  BY DEF TimeoutTriggers
<1>2. PlaceTypes /\ TimeoutCleans => PlaceTypes'
  BY DEF TimeoutCleans
<1>3. PlaceTypes /\ TimeoutSignals => PlaceTypes'
  BY DEF TimeoutSignals, SignalSender
<1> HIDE DEF PlaceTypes, clientVars, pollVars, wireVars
<1>. QED BY <1>1, <1>2, <1>3 DEF SendAlarm

LEMMA PollPlaces == PlaceTypes /\ PollThread => PlaceTypes'
<1> SUFFICES ASSUME PlaceTypes, PollThread PROVE PlaceTypes'
  OBVIOUS
<1>1. CASE RecvRequest
  BY <1>1 DEF PlaceTypes, RecvRequest, clientVars
<1>9. CASE SendPayload
  BY <1>9 DEF PlaceTypes, SendPayload, clientVars, wireVars
<1>2. CASE RecvConfirm
  BY <1>2 DEF PlaceTypes, RecvConfirm, clientVars
<1>5. CASE RecvReport
  BY <1>5 DEF PlaceTypes, RecvReport, clientVars
<1>6. CASE CancelAlarm
  BY <1>6 DEF PlaceTypes, CancelAlarm, clientVars, wireVars
<1>7. CASE PollBuilds
  BY <1>7 DEF PlaceTypes, PollBuilds, clientVars, wireVars
<1>8. CASE PollWrites
  BY <1>8 DEF PlaceTypes, PollWrites, clientVars
<1>3. CASE ConfirmSignals
  BY <1>3 DEF PlaceTypes, ConfirmSignals, SignalSender, wireVars
<1>4. CASE PollDies
  <2>1. lost' = lost \/ lost' \in {{"send"}, {"alarms"}, {"uart"}, {}}
    BY <1>4 DEF PollDies, HeldAt
  <2>2. lost' \subseteq {"send", "alarms", "uart"}
    BY <2>1 DEF PlaceTypes
  <2>. QED BY <1>4, <2>2 DEF PlaceTypes, PollDies, clientVars, wireVars
<1>. QED BY <1>1, <1>2, <1>3, <1>4, <1>5, <1>6, <1>7, <1>8, <1>9 DEF PollThread

LEMMA OtherPlaces == PlaceTypes /\ (SigHandler \/ Cc2530) => PlaceTypes'
<1> USE DEF PlaceTypes, clientVars, pollVars, wireVars, DeviceVars
<1>1. PlaceTypes /\ HandlerBuilds => PlaceTypes'
  BY DEF HandlerBuilds
<1>2. PlaceTypes /\ HandlerWrites => PlaceTypes'
  BY DEF HandlerWrites
<1>3. ASSUME PlaceTypes, DeviceAsks PROVE PlaceTypes'
  <2>1. UNCHANGED <<clientPc, mutex, result, alarm, alarmPc, pollPc, sigPc, lost, pollCancelled>>
    BY <1>3 DEF DeviceAsks
  <2>2. wake' \in BOOLEAN
    BY <1>3 DEF DeviceAsks
  <2>. QED BY <1>3, <2>1, <2>2
<1>4. PlaceTypes /\ DeviceInterrupts => PlaceTypes'
  BY DEF DeviceInterrupts
<1>5. PlaceTypes /\ DeviceReceives => PlaceTypes'
  BY DEF DeviceReceives
<1> HIDE DEF PlaceTypes, clientVars, pollVars, wireVars, DeviceVars
<1>. QED BY <1>1, <1>2, <1>3, <1>4, <1>5 DEF SigHandler, Cc2530

(* The numbers of payloads: only FillBuffer counts, below its bound.       *)
LEMMA NumbersKept == NumberTypes /\ [ZigbeeNext]_zigbeeVars => NumberTypes'
<1> SUFFICES ASSUME NumberTypes, [ZigbeeNext]_zigbeeVars PROVE NumberTypes'
  OBVIOUS
<1>1. CASE FillBuffer
  <2>1. req < MaxSends /\ req' = req + 1 /\ buf' = req + 1 /\ hold' = hold
    BY <1>1 DEF FillBuffer
  <2>2. req + 1 \in 0 .. MaxSends
    BY <2>1, ZigbeeAssumption DEF NumberTypes
  <2>. QED BY <2>1, <2>2 DEF NumberTypes
<1>2. CASE ~FillBuffer
  <2>1. UNCHANGED <<req, buf>> /\ hold' \in {hold, req, 0}
    BY <1>2 DEF ZigbeeNext, Client, ZbInit, FillLength, TriggerSend, WaitForAnswer,
           WokenSpuriously, Woken, SendReturns, DeinitCancels, ZbDeinit, SendAlarm,
           TimeoutTriggers, TimeoutCleans, TimeoutSignals, PollThread, RecvRequest, SendPayload, RecvConfirm,
           RecvReport, Receive, CancelAlarm, ConfirmSignals, PollBuilds, PollWrites, PollDies,
           SigHandler, HandlerBuilds, HandlerWrites, Cc2530, DeviceAsks, DeviceInterrupts,
           DeviceReceives, DeviceVars, clientVars, zigbeeVars
  <2>2. 0 \in 0 .. MaxSends
    BY ZigbeeAssumption
  <2>. QED BY <2>1, <2>2 DEF NumberTypes
<1>. QED BY <1>1, <1>2

LEMMA FramesTyped ==
  /\ {None, Request, Confirm, Report} \subseteq Frame
  /\ \A b, l \in 0 .. MaxSends : Data(b, l) \in Frame
  /\ \A f \in Frame : f.type = "data" => f.len \in 0 .. MaxSends
<1>1. \A f \in Frame : f.type = "data" => f.len \in 0 .. MaxSends
  <2> SUFFICES ASSUME NEW f \in Frame, f.type = "data" PROVE f.len \in 0 .. MaxSends
    OBVIOUS
  <2>1. PICK b \in 0 .. MaxSends, l \in 0 .. MaxSends : f = Data(b, l)
    BY Kinds DEF Frame
  <2>. QED BY <2>1, Kinds
<1>. QED BY <1>1 DEF Frame

LEMMA FramesKept ==
  ASSUME PlaceTypes, NumberTypes, FrameTypes, [ZigbeeNext]_zigbeeVars
  PROVE  FrameTypes'
<1>1. CASE RecvRequest
  <2>1. toHost' = Tail(toHost) /\ toHost # <<>> /\ UNCHANGED <<sbuf, toDev, pollMsg>>
    BY <1>1 DEF RecvRequest, Receive
  <2>2. toHost' \in Seq(Frame)
    BY <2>1, TailOf DEF FrameTypes
  <2>. QED BY <2>1, <2>2 DEF FrameTypes
<1>11. CASE SendPayload
  <2>1. UNCHANGED <<sbuf, toDev, toHost>> /\ pollMsg' = Data(0, hold)
    BY <1>11 DEF SendPayload, wireVars
  <2>2. 0 \in 0 .. MaxSends
    BY ZigbeeAssumption
  <2>3. Data(0, hold) \in Frame
    BY <2>2, FramesTyped DEF NumberTypes
  <2>. QED BY <2>1, <2>3 DEF FrameTypes
<1>2. CASE RecvConfirm \/ RecvReport
  <2>1. toHost' = Tail(toHost) /\ toHost # <<>> /\ UNCHANGED <<sbuf, toDev>>
        /\ (pollMsg' = pollMsg \/ pollMsg' = Confirm)
    BY <1>2 DEF RecvConfirm, RecvReport, Receive
  <2>2. toHost' \in Seq(Frame)
    BY <2>1, TailOf DEF FrameTypes
  <2>. QED BY <2>1, <2>2, FramesTyped DEF FrameTypes
<1>3. CASE PollBuilds
  <2>1. /\ UNCHANGED <<toHost, toDev>>
        /\ pollMsg' = IF pollMsg.type = "data" THEN Data(buf, pollMsg.len) ELSE pollMsg
        /\ sbuf' = pollMsg'
    BY <1>3 DEF PollBuilds, wireVars
  <2>2. pollMsg.type = "data" => Data(buf, pollMsg.len) \in Frame
    BY FramesTyped DEF NumberTypes, FrameTypes
  <2>3. pollMsg' \in Frame
    BY <2>1, <2>2 DEF FrameTypes
  <2>. QED BY <2>1, <2>3 DEF FrameTypes
<1>4. CASE PollWrites \/ HandlerWrites
  <2>1. /\ UNCHANGED <<toHost, sbuf>> /\ (toDev' = toDev \/ toDev' = Append(toDev, sbuf))
        /\ (pollMsg' = pollMsg \/ pollMsg' = None)
    BY <1>4 DEF PollWrites, HandlerWrites, Write, pollVars
  <2>2. toDev' \in Seq(Frame)
    BY <2>1 DEF FrameTypes
  <2>3. pollMsg' \in Frame
    BY <2>1, FramesTyped DEF FrameTypes
  <2>. QED BY <2>1, <2>2, <2>3 DEF FrameTypes
<1>5. CASE HandlerBuilds
  BY <1>5, FramesTyped DEF HandlerBuilds, FrameTypes, pollVars, wireVars
<1>6. CASE DeviceAsks
  <2>1. toHost' = Append(toHost, Request) /\ UNCHANGED <<pollMsg, sbuf, toDev>>
    BY <1>6 DEF DeviceAsks, DeviceVars, pollVars
  <2>. QED BY <2>1, FramesTyped DEF FrameTypes
<1>7. CASE DeviceReceives
  <2>1. /\ UNCHANGED <<pollMsg, sbuf>> /\ toDev # <<>> /\ toDev' = Tail(toDev)
        /\ \/ toHost' = toHost
           \/ \E m \in {Confirm, Report} : toHost' = Append(toHost, m)
    BY <1>7 DEF DeviceReceives, DeviceVars, pollVars
  <2>2. toDev' \in Seq(Frame)
    BY <2>1, TailOf DEF FrameTypes
  <2>3. \A m \in {Confirm, Report} : Append(toHost, m) \in Seq(Frame)
    BY FramesTyped DEF FrameTypes
  <2>4. toHost' \in Seq(Frame)
    BY <2>1, <2>3 DEF FrameTypes
  <2>. QED BY <2>1, <2>2, <2>4 DEF FrameTypes
<1>8. CASE UNCHANGED <<pollMsg, sbuf, toHost, toDev>>
  BY <1>8 DEF FrameTypes
<1>9. CASE Client \/ ZbInit \/ FillBuffer \/ DeinitCancels \/ WokenSpuriously \/ SendAlarm
  BY <1>8, <1>9
     DEF Client, ZbInit, FillBuffer, FillLength, TriggerSend, WaitForAnswer, WokenSpuriously,
         Woken, SendReturns, DeinitCancels, ZbDeinit, SendAlarm, TimeoutTriggers,
         TimeoutCleans, TimeoutSignals, pollVars, wireVars
<1>10. CASE CancelAlarm \/ ConfirmSignals \/ PollDies \/ DeviceInterrupts \/ UNCHANGED zigbeeVars
  BY <1>8, <1>10
     DEF CancelAlarm, ConfirmSignals, PollDies, DeviceInterrupts, DeviceVars, zigbeeVars, pollVars, wireVars
<1>. QED BY <1>1, <1>2, <1>3, <1>4, <1>5, <1>6, <1>7, <1>9, <1>10, <1>11
         DEF ZigbeeNext, PollThread, SigHandler, Cc2530

(* Every variable of the Zigbee manager keeps its type: the numbers of the *)
(* payloads stay in range, and only frames are built, held and sent.       *)
THEOREM ZigbeeTypesAlways == ZigbeeSpec => []ZigbeeTypeOK
<1> DEFINE Types == PlaceTypes /\ NumberTypes /\ FrameTypes
<1>1. ASSUME ZigbeeInit PROVE Types
  <2>1. PlaceTypes
    BY <1>1 DEF ZigbeeInit, PlaceTypes
  <2>2. NumberTypes
    BY <1>1, ZigbeeAssumption DEF ZigbeeInit, NumberTypes
  <2>3. FrameTypes
    BY <1>1, FramesTyped DEF ZigbeeInit, FrameTypes
  <2>. QED BY <2>1, <2>2, <2>3
<1>2. PlaceTypes /\ [ZigbeeNext]_zigbeeVars => PlaceTypes'
  <2>1. PlaceTypes /\ UNCHANGED zigbeeVars => PlaceTypes'
    BY DEF PlaceTypes, zigbeeVars, clientVars, pollVars, wireVars
  <2>. QED BY <2>1, ClientPlaces, AlarmPlaces, PollPlaces, OtherPlaces DEF ZigbeeNext
<1>3. Types /\ [ZigbeeNext]_zigbeeVars => Types'
  BY <1>2, NumbersKept, FramesKept
<1>4. Types => ZigbeeTypeOK
  BY DEF PlaceTypes, NumberTypes, FrameTypes, ZigbeeTypeOK
<1> HIDE DEF Types
<1>. QED BY <1>1, <1>3, <1>4, PTL DEF ZigbeeSpec

-----------------------------------------------------------------------------
(***************************************************************************)
(* Input, for any devices, listeners and numbers of calls: the thread runs *)
(* when it should, and reads no freed device.                              *)
(***************************************************************************)

InputTypes ==
  /\ starts \in Nat /\ leftOver \in Nat
  /\ thread \in {"none", "loop", "select", "lock", "read", "callback"}
  /\ api \in {"idle", "join", "free", "stop", "delete", "listeners"}
  /\ deviceListLock \in {"free", "thread", "dead"}

(* The thread holds the lock of the device list exactly while it reads;    *)
(* the devices can only be freed when nobody holds it.                     *)
LockedReads == deviceListLock = "thread" <=> thread \in {"read", "callback"}

(* The counts of starts behind StartedRuns, call by call: a stop joins at  *)
(* a count of 0, a deinit leaves what it has not stopped.                  *)
StartCounts ==
  /\ api \in {"idle", "free", "stop"} =>
       /\ thread # "none" <=> starts > 0 /\ leftOver = 0
       /\ starts = 0 => leftOver = 0
  /\ api = "join" => starts = 0 /\ leftOver = 0
  /\ api \in {"delete", "listeners"} => leftOver = starts
  /\ api = "listeners" => thread = "none"

InputInv == InputTypes /\ LockedReads /\ ReadsLiveDevice /\ StartCounts

USE DEF InputTypes, LockedReads, ReadsLiveDevice, StartCounts

(* init and deinit change the devices, with their lock free. *)
LEMMA DevicesStep ==
  ASSUME InputInv, InputInitCall \/ DeinitFrees PROVE InputInv'
<1>1. CASE InputInitCall
  <2>1. /\ api = "idle"
        /\ UNCHANGED <<starts, leftOver, thread, device, api>>
        /\ \/ UNCHANGED <<devices, deviceListLock>>
           \/ deviceListLock = "free" /\ deviceListLock' \in {"free", "dead"}
    BY <1>1 DEF InputInitCall, threadPos
  <2> QED BY <2>1 DEF InputInv
<1>2. CASE DeinitFrees
  BY <1>2 DEF DeinitFrees, InputInv, lockVars, countVars, threadPos
<1> QED BY <1>1, <1>2

(* start finds a count of 0 only without a thread and with nothing left.   *)
LEMMA InputStartStep ==
  ASSUME InputInv, StartInput PROVE InputInv'
<1>1. /\ api = "idle" /\ starts' = starts + 1
      /\ thread' = IF starts = 0 THEN "loop" ELSE thread
      /\ UNCHANGED <<devices, deviceListLock, leftOver, device, api>>
  BY DEF StartInput, lockVars
<1>2. starts = 0 => thread = "none" /\ leftOver = 0
  BY <1>1 DEF InputInv
<1> QED BY <1>1, <1>2 DEF InputInv

LEMMA InputStopStep ==
  ASSUME InputInv, StopInput \/ StopEnds PROVE InputInv'
<1>1. CASE StopInput
  <2>1. /\ api = "idle" /\ starts > 0 /\ starts' = starts - 1
        /\ \/ starts = 1 /\ api' = "join" /\ leftOver' = 0
           \/ starts # 1 /\ UNCHANGED <<api, leftOver>>
        /\ UNCHANGED <<devices, deviceListLock, thread, device>>
    BY <1>1 DEF StopInput, lockVars, threadPos
  <2> QED BY <2>1 DEF InputInv
<1>2. CASE StopEnds
  BY <1>2 DEF StopEnds, InputInv, lockVars, countVars, threadPos
<1> QED BY <1>1, <1>2

LEMMA InputDeinitStep ==
  ASSUME InputInv, DeinitInput \/ DeinitStops \/ DeinitDeletes \/ DeinitEnds
  PROVE  InputInv'
<1>1. CASE DeinitInput
  <2>1. /\ api = "idle" /\ api' \in {"idle", "free"}
        /\ UNCHANGED <<devices, deviceListLock, starts, leftOver, thread, device>>
    BY <1>1 DEF DeinitInput, lockVars, threadPos
  <2> QED BY <2>1 DEF InputInv
<1>2. CASE DeinitStops
  <2>1. /\ api = "stop" /\ api' = "delete"
        /\ starts' = IF thread # "none" THEN starts - 1 ELSE starts
        /\ leftOver' = starts'
        /\ UNCHANGED <<devices, deviceListLock, thread, device>>
    BY <1>2 DEF DeinitStops, lockVars, threadPos
  <2>2. starts' \in Nat BY <2>1 DEF InputInv
  <2> QED BY <2>1, <2>2 DEF InputInv
<1>3. CASE DeinitDeletes \/ DeinitEnds
  BY <1>3 DEF DeinitDeletes, DeinitEnds, InputInv, lockVars, countVars, threadPos
<1> QED BY <1>1, <1>2, <1>3

(* The thread between the points where it holds the lock. *)
LEMMA ThreadStep ==
  ASSUME InputInv, Collect \/ Select \/ TakeList \/ ListDone PROVE InputInv'
<1>1. /\ thread # "none" /\ thread' # "none"
      /\ thread' \in {"loop", "select", "lock", "read"}
      /\ deviceListLock' = "thread" <=> thread' = "read"
      /\ deviceListLock' \in {"free", "thread", "dead"}
      /\ UNCHANGED <<devices, starts, leftOver, api>>
  BY DEF Collect, Select, TakeList, ListDone, lockVars, countVars, InputInv
<1> QED BY <1>1 DEF InputInv

LEMMA ReadStep ==
  ASSUME InputInv, EventDone \/ \E d \in Device : ReadFails(d) \/ OnEvent(d)
  PROVE  InputInv'
<1>1. CASE EventDone
  BY <1>1 DEF EventDone, InputInv, countVars
<1>2. ASSUME NEW d \in Device, ReadFails(d) PROVE InputInv'
  BY <1>2 DEF ReadFails, InputInv, lockVars, countVars
<1>3. ASSUME NEW d \in Device, OnEvent(d) PROVE InputInv'
  BY <1>3 DEF OnEvent, InputInv, countVars
<1> QED BY <1>1, <1>2, <1>3

LEMMA DiesStep ==
  ASSUME InputInv, InputThreadDies PROVE InputInv'
<1>1. /\ api \in {"join", "delete"} /\ thread' = "none"
      /\ deviceListLock' = IF deviceListLock = "thread" THEN "dead" ELSE deviceListLock
      /\ UNCHANGED <<devices, starts, leftOver, api>>
  BY DEF InputThreadDies, Left, countVars
<1> QED BY <1>1 DEF InputInv

LEMMA ListenersStep ==
  ASSUME InputInv,
         UNCHANGED inputVars \/ \E d \in Device, f \in Listener : Register(d, f) \/ Unregister(d, f)
  PROVE  InputInv'
<1>1. UNCHANGED <<devices, deviceListLock, starts, leftOver, thread, device, api>>
  BY DEF Register, Unregister, inputVars, lockVars, countVars, threadPos
<1> QED BY <1>1 DEF InputInv

LEMMA InputInvStep == InputInv /\ [InputNext]_inputVars => InputInv'
BY DevicesStep, InputStartStep, InputStopStep, InputDeinitStep, ThreadStep, ReadStep, DiesStep, ListenersStep
   DEF InputNext, Deiniting, ThreadRuns

LEMMA InputInvInit == InputInit => InputInv
BY DEF InputInit, InputInv

(* For any devices and any sequence of init, start, stop, deinit and       *)
(* register calls the thread reads no device that a deinit has freed.      *)
THEOREM ReadsLiveDeviceAlways == InputSpec => []ReadsLiveDevice
<1>1. InputInv => ReadsLiveDevice BY DEF InputInv
<1> QED BY <1>1, InputInvInit, InputInvStep, PTL DEF InputSpec

(* Likewise the thread runs exactly as long as a start is not stopped, but *)
(* for starts that a deinit left over.                                     *)
THEOREM StartedRunsAlways == InputSpec => []StartedRuns
<1>1. InputInv => StartedRuns BY DEF InputInv, StartedRuns
<1> QED BY <1>1, InputInvInit, InputInvStep, PTL DEF InputSpec

-----------------------------------------------------------------------------
(* The listeners. *)
Nodes == [listener : Listener, names : SUBSET Device]
ListenersInv == listeners \in Seq(Nodes)

LEMMA RegisterTyped ==
  ASSUME ListenersInv, NEW d \in Device, NEW f \in Listener, Register(d, f)
  PROVE  ListenersInv'
<1>1. DOMAIN listeners = 1 .. Len(listeners) /\ Len(listeners) \in Nat
      /\ \A k \in 1 .. Len(listeners) : listeners[k] \in Nodes
  BY DEF ListenersInv
<1>2. CASE \E k \in DOMAIN listeners : listeners[k].listener = f
  <2> DEFINE More(k) == [listeners[k] EXCEPT !.names = @ \cup {d}]
  <2>1. listeners' = [k \in DOMAIN listeners |-> IF listeners[k].listener = f THEN More(k) ELSE listeners[k]]
    BY <1>2 DEF Register
  <2>2. \A k \in 1 .. Len(listeners) : More(k) \in Nodes
    BY <1>1 DEF Nodes
  <2> HIDE DEF More
  <2>3. listeners' \in [1 .. Len(listeners) -> Nodes]
    BY <1>1, <2>1, <2>2
  <2>. QED BY <1>1, <2>3 DEF ListenersInv
<1>3. CASE ~ \E k \in DOMAIN listeners : listeners[k].listener = f
  <2> DEFINE node == [listener |-> f, names |-> {d}]
  <2>1. listeners' = Append(listeners, node) /\ node \in Nodes
    BY <1>3 DEF Register, Nodes
  <2> HIDE DEF node
  <2>. QED BY <2>1 DEF ListenersInv
<1>. QED BY <1>2, <1>3

LEMMA UnregisterTyped ==
  ASSUME ListenersInv, NEW d \in Device, NEW f \in Listener, Unregister(d, f)
  PROVE  ListenersInv'
<1>1. PICK k \in DOMAIN listeners :
        /\ listeners[k].listener = f
        /\ listeners' = IF listeners[k].names \subseteq {d} THEN <<>>
                        ELSE [listeners EXCEPT ![k].names = @ \ {d}]
  BY DEF Unregister
<1>2. CASE listeners[k].names \subseteq {d}
  BY <1>1, <1>2 DEF ListenersInv
<1>3. CASE ~(listeners[k].names \subseteq {d})
  <2> DEFINE less == [listeners[k] EXCEPT !.names = @ \ {d}]
  <2>1. listeners' = [listeners EXCEPT ![k] = less]
    BY <1>1, <1>3
  <2>2. listeners[k] \in Nodes
    BY <1>1 DEF ListenersInv
  <2>3. less \in Nodes
    BY <2>2 DEF Nodes
  <2> HIDE DEF less
  <2>4. [listeners EXCEPT ![k] = less] \in Seq(Nodes)
    BY <1>1, <2>3 DEF ListenersInv
  <2>. QED BY <2>1, <2>4 DEF ListenersInv
<1>. QED BY <1>2, <1>3

(* Only those two calls and the end of deinit change the listeners. *)
LEMMA ListenersKept ==
  ASSUME [InputNext]_inputVars, ~DeinitEnds,
         ~ \E d \in Device, f \in Listener : Register(d, f) \/ Unregister(d, f)
  PROVE  UNCHANGED listeners
BY DEF InputNext, inputVars, InputInitCall, StartInput, StopInput, StopEnds, DeinitInput, Deiniting,
       DeinitFrees, DeinitStops, DeinitDeletes, Select, ThreadRuns, Collect, TakeList, ReadFails, OnEvent,
       EventDone, ListDone, InputThreadDies

LEMMA ListenersNext == ListenersInv /\ [InputNext]_inputVars => ListenersInv'
<1> SUFFICES ASSUME ListenersInv, [InputNext]_inputVars PROVE ListenersInv'
  OBVIOUS
<1>1. CASE DeinitEnds
  BY <1>1 DEF DeinitEnds, ListenersInv
<1>2. ASSUME NEW d \in Device, NEW f \in Listener, Register(d, f) PROVE ListenersInv'
  BY <1>2, RegisterTyped
<1>3. ASSUME NEW d \in Device, NEW f \in Listener, Unregister(d, f) PROVE ListenersInv'
  BY <1>3, UnregisterTyped
<1>4. CASE UNCHANGED listeners
  BY <1>4 DEF ListenersInv
<1>. QED BY <1>1, <1>2, <1>3, <1>4, ListenersKept

-----------------------------------------------------------------------------
(***************************************************************************)
(* Camera, for any number of clients and buffers: a start fails for two    *)
(* reasons only.                                                           *)
(***************************************************************************)

Inside == {c \in CamClient : use[c] # "out"}
Started == {c \in CamClient : use[c] = "on"} \ {stopper}

(* The counts count the clients, without the one in stop, ... *)
ClientsCounted ==
  /\ camInits = Cardinality(Inside) /\ camStarts = Cardinality(Started)
  /\ stopper # Idle => use[stopper] = "on"

(* ... the stream is on as long as a start counts, ... *)
StreamCounted == capt.streaming <=> camStarts > 0

(* ... and when it is off the driver's queue is empty, unless one of the   *)
(* two things has happened.                                                *)
QueueEmpty ==
  \/ capt.streaming \/ capt.requeued \/ capt.nbuf > capt.granted
  \/ \A b \in Buffer : capt.queue[b] = "user"

CameraInv == CameraTypeOK /\ ClientsCounted /\ StreamCounted /\ QueueEmpty
-----------------------------------------------------------------------------
LEMMA ClientSets ==
  ASSUME NEW S \in SUBSET CamClient
  PROVE  IsFiniteSet(S) /\ Cardinality(S) \in Nat /\ (Cardinality(S) = 0 <=> S = {})
BY CameraAssumption, FS_Subset, FS_CardinalityType, FS_EmptySet

LEMMA ClientJoins ==
  ASSUME NEW S \in SUBSET CamClient, NEW c \in CamClient, c \notin S
  PROVE  Cardinality(S \cup {c}) = Cardinality(S) + 1
BY ClientSets, FS_AddElement

LEMMA ClientLeaves ==
  ASSUME NEW S \in SUBSET CamClient, NEW c \in S
  PROVE  Cardinality(S) > 0 /\ Cardinality(S \ {c}) = Cardinality(S) - 1
<1>1. Cardinality(S) \in Nat /\ Cardinality(S) # 0 BY ClientSets
<1> QED BY <1>1, ClientSets, FS_RemoveElement

(* The type of capt, and the ways in which its fields are assigned. *)
Queues == [Buffer -> {"user", "queued", "done"}]
Capts == [mapped : BOOLEAN, nbuf : Buffer, granted : Buffer,
          streaming : BOOLEAN, requeued : BOOLEAN, queue : Queues]

LEMMA CaptsKept ==
  ASSUME NEW k \in Capts, NEW q \in Queues, NEW v \in BOOLEAN
  PROVE  /\ [k EXCEPT !.queue = q, !.streaming = v] \in Capts
         /\ [k EXCEPT !.streaming = v, !.queue = q] \in Capts
BY DEF Capts

LEMMA CaptsUnmapped ==
  ASSUME NEW k \in Capts
  PROVE  [k EXCEPT !.mapped = FALSE, !.streaming = FALSE] \in Capts
BY DEF Capts

LEMMA CaptsTyped == CameraTypeOK => capt \in Capts
BY DEF CameraTypeOK, Capts, Queues

LEMMA CameraInitStep ==
  ASSUME CameraInv, NEW c \in CamClient, CamInit(c) PROVE CameraInv'
<1> USE DEF CameraInv, CameraTypeOK
<1>1. use[c] = "out" /\ UNCHANGED <<camStarts, stopper, capture, held, captCancelled>>
  BY DEF CamInit
<1>2. ASSUME use' = [use EXCEPT ![c] = "in"], camInits' = camInits + 1
      PROVE  ClientsCounted' /\ use' \in [CamClient -> {"out", "in", "on"}] /\ camInits' \in Nat
  <2>1. Inside' = Inside \cup {c} /\ Started' = Started /\ c \notin Inside
    BY <1>1, <1>2 DEF Inside, Started
  <2>2. camInits' = Cardinality(Inside')
    BY <1>2, <2>1, ClientJoins DEF Inside, ClientsCounted
  <2>3. camStarts' = Cardinality(Started') BY <1>1, <2>1 DEF ClientsCounted
  <2>4. stopper' # Idle => use'[stopper'] = "on" BY <1>1, <1>2 DEF ClientsCounted
  <2> QED BY <1>2, <2>2, <2>3, <2>4 DEF ClientsCounted
<1>3. camInits = 0 => camStarts = 0
  <2>1. camInits = 0 => Inside = {} BY ClientSets DEF Inside, ClientsCounted
  <2>2. camInits = 0 => Started = {} BY <2>1 DEF Inside, Started
  <2> QED BY <2>2, ClientSets DEF Started, ClientsCounted
<1>4. ASSUME NEW v \in BOOLEAN, NEW n \in Buffer, capt' = Opened(v, n), camInits = 0
      PROVE  StreamCounted' /\ QueueEmpty' /\ capt' \in Capts
  BY <1>1, <1>3, <1>4 DEF StreamCounted, QueueEmpty, Opened, Capts, Queues
<1>5. ASSUME NEW n \in Buffer, capt' = Opened(TRUE, n), camInits = 0,
             camInits' = 1, use' = [use EXCEPT ![c] = "in"]
      PROVE  CameraInv'
  <2>1. camInits' = camInits + 1 BY <1>5
  <2>2. ClientsCounted' BY <1>2, <1>5, <2>1
  <2>3. StreamCounted' /\ QueueEmpty' /\ capt' \in Capts BY <1>4, <1>5
  <2>4. CameraTypeOK' BY <1>1, <1>5, <2>3 DEF Capts, Queues
  <2> QED BY <2>2, <2>3, <2>4
<1>6. ASSUME NEW n \in Buffer, capt' = Opened(FALSE, n), camInits = 0, UNCHANGED <<use, camInits>>
      PROVE  CameraInv'
  <2>1. ClientsCounted'
    BY <1>1, <1>6 DEF ClientsCounted, Inside, Started
  <2> QED BY <1>1, <1>4, <1>6, <2>1 DEF Capts, Queues
<1>7. CASE /\ camInits # 0 /\ capt' = [capt EXCEPT !.nbuf = Asked]
           /\ camInits' = camInits + 1 /\ use' = [use EXCEPT ![c] = "in"]
  <2>1. capt.nbuf =< Asked BY CameraAssumption DEF Buffer
  <2>2. Asked \in Buffer BY CameraAssumption DEF Buffer
  <2>3. StreamCounted' BY <1>1, <1>7 DEF StreamCounted
  <2>4. QueueEmpty' BY <1>7, <2>1, CameraAssumption DEF QueueEmpty, Buffer
  <2>5. CameraTypeOK' BY <1>1, <1>2, <1>7, <2>2
  <2> QED BY <1>2, <1>7, <2>3, <2>4, <2>5
<1> QED BY <1>5, <1>6, <1>7 DEF CamInit

(* When the first start finds the queue empty it queues all of it. *)
LEMMA FirstStart ==
  ASSUME CameraInv, camStarts = 0, ~\A a \in 1..capt.nbuf : Queueable(a)
  PROVE  capt.requeued \/ capt.nbuf > capt.granted
<1>1. ~capt.streaming BY DEF CameraInv, StreamCounted, CameraTypeOK
<1>2. PICK a \in 1..capt.nbuf : a > capt.granted \/ capt.queue[a] # "user"
  BY CameraAssumption DEF Queueable, CameraInv, CameraTypeOK, Buffer
<1>3. a \in Buffer BY <1>2, CameraAssumption DEF CameraInv, CameraTypeOK, Buffer
<1> QED BY <1>1, <1>2, <1>3, CameraAssumption DEF CameraInv, QueueEmpty, CameraTypeOK, Buffer

(* What the first start leaves in the driver's queue. *)
Filled == [b \in Buffer |-> IF b <= capt.nbuf /\ \A a \in 1..b : Queueable(a)
                            THEN "queued" ELSE capt.queue[b]]

LEMMA FilledType ==
  ASSUME CameraTypeOK PROVE Filled \in Queues
BY DEF CameraTypeOK, Filled, Queues

LEMMA CameraStartStep ==
  ASSUME CameraInv, NEW c \in CamClient, CamStart(c) PROVE CameraInv'
<1> USE DEF CameraInv, CameraTypeOK, ClientsCounted
<1> DEFINE works == \A a \in 1..capt.nbuf : Queueable(a)
<1>1. /\ use[c] = "in" /\ stopper = Idle
      /\ UNCHANGED <<camInits, stopper, held>>
  BY DEF CamStart
<1>2. CASE use' = [use EXCEPT ![c] = "on"] /\ camStarts' = camStarts + 1
  <2>1. Inside' = Inside /\ Started' = Started \cup {c} /\ c \notin Started
    BY <1>1, <1>2, CameraAssumption DEF Inside, Started
  <2>2. camStarts' = Cardinality(Started')
    <3>1. Started \in SUBSET CamClient BY DEF Started
    <3>2. Cardinality(Started \cup {c}) = Cardinality(Started) + 1
      BY <2>1, <3>1, ClientJoins
    <3> QED BY <1>2, <2>1, <3>2
  <2>3. ClientsCounted' BY <1>1, <2>1, <2>2
  <2>4. CASE camStarts # 0
    <3>1. UNCHANGED <<capt, capture, captCancelled>> BY <2>4 DEF CamStart
    <3>2. StreamCounted' /\ QueueEmpty' BY <1>2, <2>4, <3>1 DEF StreamCounted, QueueEmpty
    <3> QED BY <1>1, <1>2, <2>3, <3>1, <3>2
  <2>5. CASE camStarts = 0
    <3>1. works BY <1>1, <1>2, <2>5 DEF CamStart
    <3>2. /\ capt' = [capt EXCEPT !.queue = Filled, !.streaming = TRUE]
          /\ capture' = "top" /\ captCancelled' = FALSE
      BY <2>5, <3>1 DEF CamStart, Filled
    <3>3. StreamCounted' /\ QueueEmpty'
      BY <1>2, <2>5, <3>2 DEF StreamCounted, QueueEmpty
    <3>4. capt' \in Capts BY <3>2, FilledType, CaptsKept, CaptsTyped
    <3>5. use' \in [CamClient -> {"out", "in", "on"}] /\ camStarts' \in Nat BY <1>2
    <3>6. CameraTypeOK' BY <1>1, <3>2, <3>4, <3>5 DEF Capts, Queues
    <3> QED BY <2>3, <3>3, <3>6
  <2> QED BY <2>4, <2>5
<1>3. CASE ~(use' = [use EXCEPT ![c] = "on"] /\ camStarts' = camStarts + 1)
  <2>1. camStarts = 0 /\ ~works BY <1>3 DEF CamStart
  <2>2. capt.requeued \/ capt.nbuf > capt.granted BY <2>1, FirstStart
  <2>3. /\ capt' = [capt EXCEPT !.queue = Filled, !.streaming = FALSE]
        /\ camStarts' = 0 /\ use' = [use EXCEPT ![c] = @]
        /\ capture' = capture /\ captCancelled' = FALSE
    BY <2>1 DEF CamStart, Filled
  <2>4. Inside' = Inside /\ Started' = Started BY <1>1, <2>3 DEF Inside, Started
  <2>5. ClientsCounted' BY <1>1, <2>1, <2>3, <2>4
  <2>6. StreamCounted' /\ QueueEmpty' BY <2>2, <2>3 DEF StreamCounted, QueueEmpty
  <2>7. capt' \in Capts BY <2>3, FilledType, CaptsKept, CaptsTyped
  <2>8. CameraTypeOK' BY <1>1, <2>3, <2>7 DEF Capts, Queues
  <2> QED BY <2>5, <2>6, <2>8
<1> QED BY <1>2, <1>3

LEMMA CameraStopStep ==
  ASSUME CameraInv, NEW c \in CamClient, CamStop(c) PROVE CameraInv'
<1> USE DEF CameraInv, CameraTypeOK, ClientsCounted
<1>1. /\ use[c] = "on" /\ stopper = Idle /\ camStarts' = camStarts - 1
      /\ UNCHANGED <<camInits, capture, held, captCancelled>>
  BY DEF CamStop
<1>2. c \in Started BY <1>1, CameraAssumption DEF Started
<1>3. camStarts > 0 /\ camStarts' = Cardinality(Started \ {c})
  <2>1. Started \in SUBSET CamClient BY DEF Started
  <2>2. Cardinality(Started) > 0 /\ Cardinality(Started \ {c}) = Cardinality(Started) - 1
    BY <1>2, <2>1, ClientLeaves
  <2> QED BY <1>1, <2>2
<1>4. CASE camStarts = 1
  <2>1. capt' = [capt EXCEPT !.streaming = FALSE, !.queue = [b \in Buffer |-> "user"]]
        /\ stopper' = c /\ use' = use
    BY <1>4 DEF CamStop, StreamOff
  <2>2. Inside' = Inside /\ Started' = Started \ {c}
    BY <1>1, <2>1, CameraAssumption DEF Inside, Started
  <2>3. ClientsCounted' BY <1>1, <1>3, <2>1, <2>2
  <2>4. StreamCounted' /\ QueueEmpty'
    BY <1>1, <1>4, <2>1 DEF StreamCounted, QueueEmpty
  <2>5. capt' \in Capts BY <2>1, CaptsKept, CaptsTyped DEF Queues
  <2>6. CameraTypeOK' BY <1>1, <1>3, <1>4, <2>1, <2>5 DEF Capts, Queues
  <2> QED BY <2>3, <2>4, <2>6
<1>5. CASE camStarts # 1
  <2>1. use' = [use EXCEPT ![c] = "in"] /\ capt' = capt /\ stopper' = stopper
    BY <1>5 DEF CamStop
  <2>2. Inside' = Inside /\ Started' = Started \ {c}
    BY <1>1, <2>1 DEF Inside, Started
  <2> QED BY <1>1, <1>3, <1>5, <2>1, <2>2 DEF StreamCounted, QueueEmpty
<1> QED BY <1>4, <1>5

LEMMA JoinedStep ==
  ASSUME CameraInv, CamJoined PROVE CameraInv'
<1> USE DEF CameraInv, CameraTypeOK, ClientsCounted
<1>1. /\ stopper \in CamClient /\ use[stopper] = "on"
      /\ use' = [use EXCEPT ![stopper] = "in"] /\ stopper' = Idle
      /\ UNCHANGED <<camInits, camStarts, capt, capture, held, captCancelled>>
  BY DEF CamJoined
<1>2. Inside' = Inside /\ Started' = Started
  BY <1>1, CameraAssumption DEF Inside, Started
<1> QED BY <1>1, <1>2 DEF StreamCounted, QueueEmpty

LEMMA CameraDeinitStep ==
  ASSUME CameraInv, NEW c \in CamClient, CamDeinit(c) PROVE CameraInv'
<1> USE DEF CameraInv, CameraTypeOK, ClientsCounted
<1>1. /\ use[c] = "in" /\ stopper # c
      /\ UNCHANGED <<camStarts, stopper, capture, held, captCancelled>>
  BY DEF CamDeinit
<1>2. CASE UNCHANGED <<use, camInits, capt>>
  <2>1. Inside' = Inside /\ Started' = Started BY <1>1, <1>2 DEF Inside, Started
  <2> QED BY <1>1, <1>2, <2>1 DEF StreamCounted, QueueEmpty
<1>3. CASE ~UNCHANGED <<use, camInits, capt>>
  <2>1. /\ use' = [use EXCEPT ![c] = "out"] /\ camInits' = camInits - 1
        /\ capt' = IF camInits > 1 THEN capt
                   ELSE [capt EXCEPT !.mapped = FALSE, !.streaming = FALSE]
    BY <1>3 DEF CamDeinit
  <2>2. Inside' = Inside \ {c} /\ Started' = Started /\ c \in Inside /\ c \notin Started
    BY <1>1, <2>1 DEF Inside, Started
  <2>3. camInits > 0 /\ camInits' = Cardinality(Inside')
    <3>1. Inside \in SUBSET CamClient BY DEF Inside
    <3>2. /\ Cardinality(Inside) > 0
          /\ Cardinality(Inside \ {c}) = Cardinality(Inside) - 1
      BY <2>2, <3>1, ClientLeaves
    <3> QED BY <2>1, <2>2, <3>2
  <2>4. ClientsCounted'
    <3>1. camStarts' = Cardinality(Started') BY <1>1, <2>2
    <3>2. stopper' # Idle => use'[stopper'] = "on" BY <1>1, <2>1
    <3> QED BY <2>3, <3>1, <3>2
  <2>5. CASE camInits > 1
    <3>1. capt' = capt /\ camInits' \in Nat BY <2>1, <2>5
    <3>2. StreamCounted' /\ QueueEmpty' BY <1>1, <3>1 DEF StreamCounted, QueueEmpty
    <3>3. CameraTypeOK' BY <1>1, <2>1, <3>1
    <3> QED BY <2>4, <3>2, <3>3
  <2>6. CASE ~(camInits > 1)
    <3>1. camInits' = 0 BY <2>1, <2>3, <2>6
    <3>2. Inside' = {} BY <3>1, <2>2, <2>3, ClientSets DEF Inside
    <3>3. Started = {} BY <3>2, <2>2 DEF Inside, Started
    <3>4. camStarts = 0 BY <3>3, ClientSets
    <3>5. ~capt.streaming BY <3>4 DEF StreamCounted
    <3>6. capt' = [capt EXCEPT !.mapped = FALSE, !.streaming = FALSE] BY <2>1, <2>6
    <3>7. StreamCounted' /\ QueueEmpty'
      BY <1>1, <3>4, <3>5, <3>6 DEF StreamCounted, QueueEmpty
    <3>8. capt' \in Capts BY <3>6, CaptsUnmapped, CaptsTyped
    <3>9. CameraTypeOK' BY <1>1, <2>1, <3>1, <3>8 DEF Capts, Queues
    <3> QED BY <2>4, <3>7, <3>9
  <2> QED BY <2>5, <2>6
<1> QED BY <1>2, <1>3

(* The thread and the driver move buffers, and leave the counts alone. *)
LEMMA CaptureStep ==
  ASSUME CameraInv, CamCancel \/ CaptureLoop \/ FrameArrives \/ UNCHANGED camVars
  PROVE  CameraInv'
<1> USE DEF CameraInv, CameraTypeOK
<1>1. UNCHANGED <<use, camInits, camStarts, stopper>>
  BY DEF CamCancel, CaptureLoop, CaptTop, CaptSelect, Dequeue, Requeue, FrameArrives, camVars
<1>2. ClientsCounted' BY <1>1 DEF ClientsCounted, Inside, Started
<1>3. CASE CamCancel \/ CaptTop \/ CaptSelect \/ UNCHANGED camVars
  <2>1. capt' = capt /\ held' = held /\ captCancelled' \in BOOLEAN
        /\ capture' \in {"none", "top", "select", "dequeue", "process"}
    BY <1>3 DEF CamCancel, CaptTop, CaptSelect, camVars
  <2> QED BY <1>1, <1>2, <2>1 DEF StreamCounted, QueueEmpty
<1>4. CASE Dequeue
  <2>1. /\ \/ capt' = capt /\ held' = held
           \/ /\ capt.streaming /\ held' \in Buffer
              /\ capt' = [capt EXCEPT !.queue[held'] = "user"]
        /\ captCancelled' = captCancelled /\ capture' \in {"top", "process"}
    BY <1>4 DEF Dequeue
  <2> QED BY <1>1, <1>2, <2>1 DEF StreamCounted, QueueEmpty
<1>5. CASE Requeue
  BY <1>1, <1>2, <1>5 DEF Requeue, StreamCounted, QueueEmpty
<1>6. CASE FrameArrives
  BY <1>1, <1>2, <1>6 DEF FrameArrives, StreamCounted, QueueEmpty
<1> QED BY <1>3, <1>4, <1>5, <1>6 DEF CaptureLoop

LEMMA CameraInvStep == CameraInv /\ [CameraNext]_camVars => CameraInv'
BY CameraInitStep, CameraStartStep, CameraStopStep, JoinedStep, CameraDeinitStep, CaptureStep DEF CameraNext

LEMMA CameraInvInit == CameraInit => CameraInv
<1> SUFFICES ASSUME CameraInit PROVE CameraInv OBVIOUS
<1>1. Asked \in Buffer /\ 1 \in Buffer BY CameraAssumption DEF Buffer
<1>2. CameraTypeOK BY <1>1 DEF CameraInit, CameraTypeOK
<1>3. Inside = {} /\ Started = {} BY DEF CameraInit, Inside, Started
<1>4. ClientsCounted BY <1>3, FS_EmptySet DEF CameraInit, ClientsCounted
<1> QED BY <1>2, <1>4 DEF CameraInit, CameraInv, StreamCounted, QueueEmpty

(* For any number of clients and buffers, and whatever the driver grants:  *)
(* a start fails only after the thread has put a buffer back behind a      *)
(* stop, or after a second init has raised the number of buffers.          *)
THEOREM StartFailsOnlyAfterAlways == CameraSpec => StartFailsOnlyAfter
<1>1. ASSUME CameraInv, NEW c \in CamClient, CamStart(c), use'[c] # "on"
      PROVE  capt.requeued \/ capt.nbuf > capt.granted
  <2>1. camStarts = 0 /\ ~\A a \in 1..capt.nbuf : Queueable(a)
    BY <1>1 DEF CamStart, CameraInv, CameraTypeOK
  <2> QED BY <1>1, <2>1, FirstStart
<1>2. CameraInv =>
        [\A c \in CamClient :
           CamStart(c) /\ use'[c] # "on"
             => capt.requeued \/ capt.nbuf > capt.granted]_camVars
  BY <1>1
<1> QED BY <1>2, CameraInvInit, CameraInvStep, PTL DEF CameraSpec, StartFailsOnlyAfter
-----------------------------------------------------------------------------
(* The types that InputInv and ListenersInv lack. *)
InputRest ==
  /\ devices \subseteq Device /\ rdfs \subseteq Device /\ device \in Device
  /\ listenerLock \in {"free", "thread", "dead"}
  /\ initCalls \in Nat /\ hasThread \in BOOLEAN

LEMMA RestKept == InputRest /\ [InputNext]_inputVars => InputRest'
<1> SUFFICES ASSUME InputRest, [InputNext]_inputVars PROVE InputRest'
  OBVIOUS
<1>1. CASE InputInitCall
  <2>1. /\ UNCHANGED <<listenerLock, rdfs, device>>
        /\ initCalls' = initCalls + 1
    BY <1>1 DEF InputInitCall, threadPos
  <2>2. \/ UNCHANGED <<devices, hasThread>>
        \/ \E found \in SUBSET Device : devices' = found /\ hasThread' = TRUE
    BY <1>1 DEF InputInitCall
  <2>3. initCalls' \in Nat
    BY <2>1 DEF InputRest
  <2>4. devices' \subseteq Device /\ hasThread' \in BOOLEAN
    BY <2>2 DEF InputRest
  <2>. QED BY <2>1, <2>3, <2>4 DEF InputRest
<1>2. CASE StartInput \/ StopInput \/ StopEnds \/ DeinitInput
  BY <1>2 DEF StartInput, StopInput, StopEnds, DeinitInput, InputRest, lockVars, countVars, threadPos
<1>3. CASE Deiniting
  BY <1>3 DEF Deiniting, DeinitFrees, DeinitStops, DeinitDeletes, DeinitEnds, InputRest, lockVars,
              countVars, threadPos
<1>4. ASSUME NEW d \in Device, NEW f \in Listener, Register(d, f) \/ Unregister(d, f)
      PROVE  InputRest'
  BY <1>4 DEF Register, Unregister, InputRest, lockVars, countVars, threadPos
<1>5. CASE Select \/ Collect \/ TakeList \/ EventDone \/ ListDone
  BY <1>5 DEF Select, Collect, TakeList, EventDone, ListDone, InputRest, lockVars, countVars
<1>6. ASSUME NEW d \in Device, ReadFails(d) \/ OnEvent(d) PROVE InputRest'
  BY <1>6 DEF ReadFails, OnEvent, InputRest, lockVars, countVars
<1>7. CASE InputThreadDies
  BY <1>7 DEF InputThreadDies, Left, InputRest, countVars
<1>8. CASE UNCHANGED inputVars
  BY <1>8 DEF InputRest, inputVars, lockVars, countVars, threadPos
<1>. QED BY <1>1, <1>2, <1>3, <1>4, <1>5, <1>6, <1>7, <1>8 DEF InputNext, ThreadRuns

(* Every variable of the input manager keeps its type.                     *)
THEOREM InputTypesAlways == InputSpec => []InputTypeOK
<1>1. InputInit => ListenersInv /\ InputRest
  <2>1. InputInit => listeners \in Seq(Nodes)
    BY DEF InputInit
  <2>2. ASSUME InputInit PROVE InputRest
    <3>1. /\ devices = {} /\ rdfs = {} /\ device \in Device
          /\ listenerLock = "free" /\ initCalls = 0 /\ hasThread = FALSE
      BY <2>2 DEF InputInit
    <3>. QED BY <3>1 DEF InputRest
  <2>. QED BY <2>1, <2>2 DEF ListenersInv
<1>2. ListenersInv /\ [InputNext]_inputVars => ListenersInv'
  BY ListenersNext
<1>3. InputInv /\ ListenersInv /\ InputRest => InputTypeOK
  BY DEF InputInv, InputTypes, ListenersInv, Nodes, InputRest, InputTypeOK
<1>. QED BY <1>1, <1>2, <1>3, RestKept, InputInvInit, InputInvStep, PTL DEF InputSpec

(* Every variable of the camera manager keeps its type.                    *)
THEOREM CameraTypesAlways == CameraSpec => []CameraTypeOK
<1>1. CameraInv => CameraTypeOK
  BY DEF CameraInv
<1>. QED BY <1>1, CameraInvInit, CameraInvStep, PTL DEF CameraSpec

HIDE DEF InputTypes, LockedReads, ReadsLiveDevice, StartCounts

-----------------------------------------------------------------------------
(***************************************************************************)
(* Fingerprint, for every number of ids, requests and retries.             *)
(***************************************************************************)

-----------------------------------------------------------------------------
(* Min, Max and Cardinality of the sets the file is computed from.         *)

LEMMA MinNat ==
  ASSUME NEW T \in SUBSET Nat, T # {}
  PROVE  Min(T) \in T /\ \A y \in T : Min(T) <= y
<1> DEFINE R == OpToRel(<, Nat)
<1>1. IsWellFoundedOn(R, Nat)
  BY NatLessThanWellFounded
<1>2. \A x, y \in Nat : x < y => <<x, y>> \in R
  BY DEF OpToRel
<1> HIDE DEF R
<1>3. PICK x \in T : \A y \in T : <<y, x>> \notin R
  BY <1>1, WFMin
<1>4. ASSUME NEW y \in T PROVE x <= y
  <2>1. ~(y < x)
    BY <1>2, <1>3
  <2>. QED BY <2>1
<1>. QED BY <1>4 DEF Min

LEMMA MinTwo ==
  ASSUME NEW a \in Int, NEW b \in Int
  PROVE  Min({a, b}) = IF a <= b THEN a ELSE b
BY DEF Min

LEMMA MaxTwo ==
  ASSUME NEW a \in Int, NEW b \in Int
  PROVE  Max({a, b}) = IF a >= b THEN a ELSE b
BY DEF Max

LEMMA FunctionIsSeq ==
  ASSUME NEW S, NEW m \in Nat, NEW h \in [1 .. m -> S]
  PROVE  h \in Seq(S) /\ Len(h) = m
OBVIOUS

LEMMA IdsFinite ==
  ASSUME NEW T \in SUBSET Id
  PROVE  IsFiniteSet(T) /\ Cardinality(T) \in Nat
<1>1. IsFiniteSet(Id)
  BY FingerprintAssumption, FS_Interval DEF Id
<1>2. IsFiniteSet(T)
  BY <1>1, FS_Subset
<1>. QED BY <1>2, FS_CardinalityType

(* The first Cardinality(T) ids are those of T, each once; and there are as *)
(* many in a file.                                                         *)
Lists(f, T) ==
  /\ \A x \in T : \E k \in 1 .. Cardinality(T) : f[k] = x
  /\ \A k \in 1 .. Cardinality(T) : f[k] \in T
  /\ \A k, m \in 1 .. Cardinality(T) : f[k] = f[m] => k = m
Listed(f, T) == Cardinality(T) <= Len(f) /\ Lists(f, T)

(* What write_id_list_tail leaves when it writes behind the first c ids. *)
Appended(f, c, x) ==
  [n \in 1 .. Max({Len(f), c + 1}) |-> IF n = c + 1 THEN x ELSE f[n]]

(* Where the first n ids are x, and those of them but the one at p. *)
Places(f, n, x) == {k \in 1 .. n : f[k] = x}
Without(f, p, n) == [k \in 1 .. n - 1 |-> f[IF k < p THEN k ELSE k + 1]]

(* The c ids of a list that is being rewritten, with those of l to come. *)
Mixed(f, l, c) ==
  [k \in 1 .. c |-> IF k <= c - Len(l) THEN f[k] ELSE l[k - (c - Len(l))]]

LEMMA ListsSame ==
  ASSUME NEW f, NEW g, NEW T, Lists(f, T), \A k \in 1 .. Cardinality(T) : g[k] = f[k]
  PROVE  Lists(g, T)
BY DEF Lists

LEMMA MixedDone ==
  ASSUME NEW f, NEW c \in Nat
  PROVE  \A k \in 1 .. c : Mixed(f, <<>>, c)[k] = f[k]
<1>1. Len(<<>>) = 0
  OBVIOUS
<1>. QED BY <1>1 DEF Mixed

LEMMA MixedAll ==
  ASSUME NEW f, NEW l, NEW c \in Nat, Len(l) = c
  PROVE  \A k \in 1 .. c : Mixed(f, l, c)[k] = l[k]
BY DEF Mixed

LEMMA AppendedIsSeq ==
  ASSUME NEW f \in Seq(Id), NEW c \in Nat, c <= Len(f), NEW x \in Id
  PROVE  /\ Appended(f, c, x) \in Seq(Id)
         /\ Len(Appended(f, c, x)) >= c + 1 /\ Len(Appended(f, c, x)) >= Len(f)
         /\ Appended(f, c, x)[c + 1] = x
         /\ \A k \in 1 .. c : Appended(f, c, x)[k] = f[k]
<1> DEFINE M == Max({Len(f), c + 1})
           g == Appended(f, c, x)
<1>1. Len(f) \in Nat /\ \A n \in 1 .. Len(f) : f[n] \in Id
  OBVIOUS
<1>2. M = IF Len(f) >= c + 1 THEN Len(f) ELSE c + 1
  BY <1>1, MaxTwo
<1>3. g = [n \in 1 .. M |-> IF n = c + 1 THEN x ELSE f[n]]
  BY DEF Appended
<1> HIDE DEF M, g
<1>4. /\ M \in Nat /\ M >= c + 1 /\ M >= Len(f)
      /\ \A n \in 1 .. M : n # c + 1 => n \in 1 .. Len(f)
      /\ \A k \in 1 .. c : k \in 1 .. M /\ k # c + 1
      /\ c + 1 \in 1 .. M
  BY <1>1, <1>2
<1>5. g \in [1 .. M -> Id]
  BY <1>1, <1>3, <1>4
<1>6. g \in Seq(Id) /\ Len(g) = M
  BY <1>4, <1>5, FunctionIsSeq
<1>7. g[c + 1] = x /\ \A k \in 1 .. c : g[k] = f[k]
  BY <1>3, <1>4
<1>. QED BY <1>4, <1>6, <1>7 DEF g

(* Another id of the list is written. *)
LEMMA MixedWritten ==
  ASSUME NEW f \in Seq(Id), NEW l \in Seq(Id), l # <<>>, NEW c \in Nat, c <= Len(f), Len(l) <= c
  PROVE  \A k \in 1 .. c :
           Mixed(Appended(f, c - Len(l), Head(l)), Tail(l), c)[k] = Mixed(f, l, c)[k]
<1> DEFINE m == c - Len(l)
           g == Appended(f, m, Head(l))
<1>1. /\ Len(l) \in Nat \ {0} /\ Head(l) = l[1] /\ Len(Tail(l)) = Len(l) - 1 /\ Head(l) \in Id
      /\ \A k \in 1 .. Len(l) - 1 : Tail(l)[k] = l[k + 1]
  OBVIOUS
<1>2. m \in Nat /\ m <= Len(f) /\ c - Len(Tail(l)) = m + 1 /\ Len(f) \in Nat
  BY <1>1
<1> HIDE DEF m
<1>3. g[m + 1] = Head(l) /\ \A k \in 1 .. m : g[k] = f[k]
  <2>1. ASSUME NEW x, x = Head(l)
        PROVE  /\ Appended(f, m, x)[m + 1] = x
               /\ \A k \in 1 .. m : Appended(f, m, x)[k] = f[k]
    <3>1. x \in Id
      BY <1>1, <2>1
    <3>. QED BY <1>2, <3>1, AppendedIsSeq
  <2>. QED BY <2>1
<1> HIDE DEF g
<1>4. ASSUME NEW k \in 1 .. c PROVE Mixed(g, Tail(l), c)[k] = Mixed(f, l, c)[k]
  <2>1. Mixed(g, Tail(l), c)[k] = IF k <= m + 1 THEN g[k] ELSE Tail(l)[k - (m + 1)]
    BY <1>2 DEF Mixed
  <2>2. Mixed(f, l, c)[k] = IF k <= m THEN f[k] ELSE l[k - m]
    BY DEF Mixed, m
  <2>3. CASE k <= m
    <3>1. k \in 1 .. m /\ k <= m + 1
      BY <1>2, <2>3
    <3>. QED BY <1>3, <2>1, <2>2, <2>3, <3>1
  <2>4. CASE k = m + 1
    <3>1. ~(k <= m) /\ k <= m + 1 /\ k - m = 1
      BY <1>2, <2>4
    <3>. QED BY <1>1, <1>3, <2>1, <2>2, <2>4, <3>1
  <2>5. CASE k > m + 1
    <3>1. ~(k <= m) /\ ~(k <= m + 1) /\ k - (m + 1) \in 1 .. Len(l) - 1 /\ (k - (m + 1)) + 1 = k - m
      BY <1>1, <1>2, <2>5 DEF m
    <3>2. Tail(l)[k - (m + 1)] = l[(k - (m + 1)) + 1]
      BY <1>1, <3>1
    <3>. QED BY <2>1, <2>2, <3>1, <3>2
  <2>. QED BY <1>2, <2>3, <2>4, <2>5
<1>. QED BY <1>4 DEF g, m

(* An id written behind the last one. *)
LEMMA ListedAppend ==
  ASSUME NEW f \in Seq(Id), NEW T \in SUBSET Id, NEW x \in Id, x \notin T,
         Listed(f, T)
  PROVE  /\ Listed(Appended(f, Cardinality(T), x), T \cup {x})
         /\ Cardinality(T \cup {x}) = Cardinality(T) + 1
<1> DEFINE c == Cardinality(T)
           g == Appended(f, c, x)
<1>1. c \in Nat /\ Cardinality(T \cup {x}) = c + 1
  BY IdsFinite, FS_AddElement
<1>2. /\ c <= Len(f)
      /\ \A y \in T : \E k \in 1 .. c : f[k] = y
      /\ \A k \in 1 .. c : f[k] \in T
      /\ \A k, m \in 1 .. c : f[k] = f[m] => k = m
  BY DEF Listed, Lists
<1> HIDE DEF c
<1>3. /\ g \in Seq(Id) /\ Len(g) >= c + 1 /\ g[c + 1] = x
      /\ \A k \in 1 .. c : g[k] = f[k]
  <2>1. /\ Appended(f, c, x) \in Seq(Id) /\ Len(Appended(f, c, x)) >= c + 1
        /\ Appended(f, c, x)[c + 1] = x
        /\ \A k \in 1 .. c : Appended(f, c, x)[k] = f[k]
    <3>1. c \in Nat /\ c <= Len(f)
      BY <1>1, <1>2
    <3>. QED BY <3>1, AppendedIsSeq
  <2>. QED BY <2>1
<1> HIDE DEF g
<1>4. \A k \in 1 .. c + 1 : k \in 1 .. c \/ k = c + 1
  BY <1>1
<1>5. \A y \in T \cup {x} : \E k \in 1 .. c + 1 : g[k] = y
  <2>1. c + 1 \in 1 .. c + 1 /\ \A k \in 1 .. c : k \in 1 .. c + 1
    BY <1>1
  <2>. QED BY <1>2, <1>3, <2>1
<1>6. \A k \in 1 .. c + 1 : g[k] \in T \cup {x}
  BY <1>2, <1>3, <1>4
<1>7. ASSUME NEW k \in 1 .. c + 1, NEW m \in 1 .. c + 1, g[k] = g[m] PROVE k = m
  <2>1. \A j \in 1 .. c : g[j] = f[j] /\ f[j] # x
    BY <1>2, <1>3
  <2>2. (k \in 1 .. c \/ k = c + 1) /\ (m \in 1 .. c \/ m = c + 1)
    BY <1>4
  <2>3. CASE k \in 1 .. c /\ m \in 1 .. c
    BY <1>2, <1>7, <2>1, <2>3
  <2>4. CASE k \in 1 .. c /\ m = c + 1
    BY <1>3, <1>7, <2>1, <2>4
  <2>5. CASE k = c + 1 /\ m \in 1 .. c
    BY <1>3, <1>7, <2>1, <2>5
  <2>. QED BY <2>2, <2>3, <2>4, <2>5
<1>. QED BY <1>1, <1>3, <1>5, <1>6, <1>7 DEF Listed, Lists, c, g

(* The ids but one. *)
LEMMA ListedRemove ==
  ASSUME NEW f \in Seq(Id), NEW T \in SUBSET Id, NEW x \in T, Listed(f, T),
         NEW n, n = Cardinality(T)
  PROVE  /\ Places(f, n, x) # {}
         /\ Lists(Without(f, Min(Places(f, n, x)), n), T \ {x})
         /\ Cardinality(T \ {x}) = n - 1
<1> DEFINE c == n
           at == Places(f, c, x)
           p == Min(at)
           g == Without(f, p, c)
<1>1. c \in Nat /\ Cardinality(T \ {x}) = c - 1
  BY IdsFinite, FS_RemoveElement
<1>2. /\ c <= Len(f)
      /\ \A y \in T : \E k \in 1 .. c : f[k] = y
      /\ \A k \in 1 .. c : f[k] \in T
      /\ \A k, m \in 1 .. c : f[k] = f[m] => k = m
  BY DEF Listed, Lists
<1>3. at = {k \in 1 .. c : f[k] = x}
  BY DEF Places
<1>4. g = [k \in 1 .. c - 1 |-> f[IF k < p THEN k ELSE k + 1]]
  BY DEF Without
<1> HIDE DEF c, at, p, g
<1>5. at # {} /\ at \in SUBSET Nat
  BY <1>1, <1>2, <1>3
<1>6. p \in at
  BY <1>5, MinNat DEF p
<1>7. p \in 1 .. c /\ f[p] = x /\ \A k \in 1 .. c : f[k] = x => k = p
  BY <1>2, <1>3, <1>6
<1>10. /\ \A k \in 1 .. c - 1 : k < p => g[k] = f[k]
       /\ \A k \in 1 .. c - 1 : ~(k < p) => g[k] = f[k + 1]
  BY <1>4
<1>11. \A y \in T \ {x} : \E k \in 1 .. c - 1 : g[k] = y
  <2> SUFFICES ASSUME NEW y \in T \ {x} PROVE \E k \in 1 .. c - 1 : g[k] = y
    OBVIOUS
  <2>1. PICK k \in 1 .. c : f[k] = y
    BY <1>2
  <2>2. k # p
    BY <1>7, <2>1
  <2>3. CASE k < p
    <3>1. k \in 1 .. c - 1
      BY <1>1, <1>7, <2>3
    <3>. QED BY <1>10, <2>1, <2>3, <3>1
  <2>4. CASE k > p
    <3>1. k - 1 \in 1 .. c - 1 /\ ~(k - 1 < p) /\ (k - 1) + 1 = k
      BY <1>1, <1>7, <2>4
    <3>2. g[k - 1] = f[(k - 1) + 1]
      BY <1>10, <3>1
    <3>. QED BY <2>1, <3>1, <3>2
  <2>5. k < p \/ k > p
    BY <1>1, <1>7, <2>2
  <2>. QED BY <2>3, <2>4, <2>5
<1>12. ASSUME NEW k \in 1 .. c - 1 PROVE g[k] \in T \ {x}
  <2>1. CASE k < p
    <3>1. k \in 1 .. c /\ k # p
      BY <1>1, <1>7, <2>1
    <3>. QED BY <1>2, <1>7, <1>10, <2>1, <3>1
  <2>2. CASE ~(k < p)
    <3>1. k + 1 \in 1 .. c /\ k + 1 # p
      BY <1>1, <1>7, <2>2
    <3>2. g[k] = f[k + 1]
      BY <1>10, <2>2
    <3>. QED BY <1>2, <1>7, <3>1, <3>2
  <2>. QED BY <2>1, <2>2
<1>13. ASSUME NEW k \in 1 .. c - 1, NEW m \in 1 .. c - 1, g[k] = g[m] PROVE k = m
  <2> DEFINE at1(j) == IF j < p THEN j ELSE j + 1
  <2>1. at1(k) \in 1 .. c /\ at1(m) \in 1 .. c
    BY <1>1, <1>7
  <2>2. g[k] = f[at1(k)] /\ g[m] = f[at1(m)]
    BY <1>10
  <2>3. at1(k) = at1(m)
    BY <1>2, <1>13, <2>1, <2>2
  <2>. QED BY <1>1, <1>7, <2>3
<1>15. Lists(g, T \ {x})
  BY <1>1, <1>11, <1>12, <1>13 DEF Lists
<1>. QED BY <1>1, <1>5, <1>15 DEF c, at, p, g

-----------------------------------------------------------------------------
(* The inductive invariant.                                                *)

(* Without a session the thread is gone. *)
SessionInv ==
  fpInits = 0 => user \in {"idle", "destroy"} /\ (user = "idle" => fpThread = "none")

(* The id being enrolled is nobody's until the library has its template;   *)
(* the id being deleted is nobody's any more.                              *)
EnrollInv ==
  /\ fpThread = "store" => kind = "enroll"
  /\ fpThread \in {"check", "arm", "capture", "disarm", "evaluate", "lift", "store"}
     /\ kind = "enroll" => id \notin templates
  /\ fpThread = "write" => id \in templates
  /\ fpThread \in Deleting => id \notin templates
  /\ fpThread = "reset" => templates = {}

(* Positions stay within the file; an id that was found is counted.        *)
PlaceInv ==
  /\ offset <= Len(idFile) /\ curPos <= Len(idFile)
  /\ fpThread \in {"again", "rewrite"} => templateNum >= 1

(* The file lists what the library has, or will when the id is written, or *)
(* had before the id was deleted; while a list is being rewritten its      *)
(* front is in the file and the rest in idList.                            *)
Settled(T) == Listed(idFile, T) /\ templateNum = Cardinality(T)
Rewriting ==
  /\ templateNum - 1 = Cardinality(templates) /\ templateNum - 1 <= Len(idFile)
  /\ Len(idList) <= templateNum - 1
  /\ Lists(Mixed(idFile, idList, templateNum - 1), templates)
ListInv ==
  ~misplaced =>
    /\ fpThread = "write" => Settled(templates \ {id})
    /\ fpThread \in {"position", "rewind", "list"} => Settled(templates \cup {id})
    /\ fpThread \in {"again", "rewrite"} => Rewriting
    /\ fpThread = "again" => Len(idList) = templateNum - 1
    /\ fpThread # "restore"
    /\ fpThread \notin Unsettled => Listed(idFile, templates)
    /\ fpThread \notin Unsettled \cup {"none", "reset"} => templateNum = Cardinality(templates)

FpInv ==
  /\ FingerprintTypeOK /\ PlaceInv /\ SessionInv /\ EnrollInv /\ ListInv /\ ImageBufferLives

(* The file holds the ids of the fingers that were enrolled before. *)
LEMMA FirstIdsListed ==
  ASSUME NEW n \in Nat, n <= MaxId
  PROVE  /\ 1 .. n \in SUBSET Id /\ [k \in 1 .. n |-> k] \in Seq(Id)
         /\ Listed([k \in 1 .. n |-> k], 1 .. n)
<1> DEFINE f == [k \in 1 .. n |-> k]
<1>1. \A k \in 1 .. n : k \in Id /\ f[k] = k
  BY FingerprintAssumption DEF Id
<1>2. f \in [1 .. n -> Id]
  BY <1>1
<1>3. Cardinality(1 .. n) = n
  <2>1. 1 \in Int /\ n \in Int
    OBVIOUS
  <2>2. Cardinality(1 .. n) = IF 1 > n THEN 0 ELSE n - 1 + 1
    BY <2>1, FS_Interval
  <2>. QED BY <2>2
<1> HIDE DEF f
<1>4. f \in Seq(Id) /\ Len(f) = n
  BY <1>2, FunctionIsSeq
<1>5. Lists(f, 1 .. n)
  BY <1>1, <1>3 DEF Lists
<1>. QED BY <1>1, <1>3, <1>4, <1>5 DEF Listed, f

LEMMA FpInitInv == FingerprintInit => FpInv
<1> SUFFICES ASSUME FingerprintInit PROVE FpInv
  OBVIOUS
<1>0. <<>> \in Seq(Id) /\ Len(<<>>) = 0
  OBVIOUS
<1>1. templates \in SUBSET Id /\ idFile \in Seq(Id) /\ Listed(idFile, templates)
  <2>1. PICK n \in 0 .. MaxId : templates = 1 .. n /\ idFile = [k \in 1 .. n |-> k]
    BY DEF FingerprintInit
  <2>2. n \in Nat /\ n <= MaxId
    BY <2>1, FingerprintAssumption
  <2>. QED BY <2>1, <2>2, FirstIdsListed
<1>2. 1 \in Id /\ 0 \in 0 .. MaxRetries
  BY FingerprintAssumption DEF Id
<1>3. FingerprintTypeOK
  <2>1. fpStatus \in [Kind -> BOOLEAN] /\ fpArmed \in [Kind -> BOOLEAN] /\ late \in [Kind -> BOOLEAN]
    BY DEF FingerprintInit
  <2>2. /\ fpThread = "none" /\ kind = "auth" /\ image = 1 /\ id = 1 /\ retries = 0 /\ fpInits = 0
        /\ imgData = "null" /\ user = "idle" /\ toRead = 0
        /\ offset = 0 /\ templateNum = 0 /\ misplaced = FALSE /\ idList = <<>> /\ curPos = 0
    BY DEF FingerprintInit
  <2>3. kind \in Kind /\ image \in 1 .. Steps(kind)
    BY <2>2 DEF Kind, Steps
  <2>4. idFile \in Seq(Id) /\ idList \in Seq(Id)
    BY <1>0, <1>1, <2>2
  <2>5. id \in Id /\ retries \in 0 .. MaxRetries
    BY <1>2, <2>2
  <2>6. misplaced \in BOOLEAN
    BY <2>2
  <2>7. /\ fpInits \in 0 .. 2 /\ offset \in Nat /\ templateNum \in Nat /\ curPos \in Nat /\ toRead \in Nat
        /\ templates \subseteq Id
    BY <1>1, <2>2
  <2>. QED BY <2>1, <2>2, <2>3, <2>4, <2>5, <2>6, <2>7 DEF FingerprintTypeOK
<1>4. PlaceInv
  <2>1. fpThread = "none" /\ offset = 0 /\ curPos = 0 /\ Len(idFile) \in Nat
    BY <1>1 DEF FingerprintInit
  <2>. QED BY <2>1 DEF PlaceInv
<1>5. SessionInv /\ EnrollInv /\ ImageBufferLives
  <2>1. fpThread = "none" /\ user = "idle"
    BY DEF FingerprintInit
  <2>. QED BY <2>1 DEF SessionInv, EnrollInv, ImageBufferLives, Deleting
<1>6. ListInv
  <2>1. fpThread = "none"
    BY DEF FingerprintInit
  <2>. QED BY <1>1, <2>1 DEF ListInv, Unsettled, Deleting
<1>. QED BY <1>3, <1>4, <1>5, <1>6 DEF FpInv

-----------------------------------------------------------------------------
(* Every step preserves the invariant.                                     *)

(* The steps that leave the file, its offset, the templates and the        *)
(* request alone, and the thread where it is.                              *)
LEMMA FileUnchanged ==
  ASSUME FpInv, FingerprintTypeOK', SessionInv', ImageBufferLives',
         UNCHANGED <<fpThread, kind, id, templates, idFile, templateNum, misplaced, deletionVars>>,
         offset' <= Len(idFile)
  PROVE  FpInv'
<1>1. PlaceInv'
  BY DEF FpInv, PlaceInv, deletionVars
<1>2. EnrollInv'
  BY DEF FpInv, EnrollInv
<1>3. ListInv'
  <2>1. /\ misplaced' = misplaced /\ fpThread' = fpThread /\ templates' = templates /\ id' = id
        /\ templateNum' = templateNum /\ idFile' = idFile /\ idList' = idList
    BY DEF deletionVars
  <2>2. ListInv
    BY DEF FpInv
  <2>. QED BY <2>1, <2>2 DEF ListInv, Settled, Rewriting
<1>. QED BY <1>1, <1>2, <1>3 DEF FpInv

(* The steps of the thread from one place to another between deletions.    *)
LEMMA FileSettled ==
  ASSUME FpInv, FingerprintTypeOK', SessionInv', ImageBufferLives', EnrollInv',
         fpThread \notin Unsettled \cup {"none", "reset"}, fpThread' \notin Unsettled,
         UNCHANGED <<templates, idFile, offset, templateNum, misplaced, deletionVars>>
  PROVE  FpInv'
<1>1. PlaceInv'
  <2>1. fpThread' \notin {"again", "rewrite"}
    BY DEF Unsettled, Deleting
  <2>. QED BY <2>1 DEF FpInv, PlaceInv, deletionVars
<1>2. ListInv'
  <2>1. ~misplaced => Listed(idFile, templates) /\ templateNum = Cardinality(templates)
    BY DEF FpInv, ListInv
  <2>. QED BY <2>1 DEF ListInv, Unsettled, Deleting
<1>. QED BY <1>1, <1>2 DEF FpInv

LEMMA FpDestroyStep ==
  ASSUME FpInv, FpDestroy \/ Destroyed
  PROVE  FpInv'
<1> USE DEF fpThreadVars, fileVars, deletionVars, sessionVars, alarmVars
<1>1. /\ UNCHANGED <<requests, fpThreadVars, fpStatus, toRead, templates, fileVars, deletionVars>>
      /\ fpInits \in 0 .. 2
  BY DEF FpDestroy, Destroyed, FpInv, FingerprintTypeOK
<1>2. CASE FpDestroy
  <2>1. /\ fpInits' \in 0 .. 2 /\ (fpInits' = 0 => user' = "destroy") /\ user' \in {user, "destroy"}
        /\ UNCHANGED <<imgData, alarmVars>>
    <3>1. fpInits > 0 /\ fpInits' = fpInits - 1 /\ user' = IF fpInits = 1 THEN "destroy" ELSE user
      BY <1>2 DEF FpDestroy
    <3>2. UNCHANGED <<imgData, alarmVars>>
      BY <1>2 DEF FpDestroy
    <3>. QED BY <1>1, <3>1, <3>2
  <2>2. FingerprintTypeOK' /\ SessionInv' /\ ImageBufferLives'
    BY <1>1, <2>1 DEF FpInv, FingerprintTypeOK, SessionInv, ImageBufferLives
  <2>3. offset' <= Len(idFile)
    BY <1>1 DEF FpInv, PlaceInv
  <2>. QED BY <1>1, <2>2, <2>3, FileUnchanged
<1>3. CASE Destroyed
  <2>1. FingerprintTypeOK' /\ SessionInv' /\ ImageBufferLives'
    BY <1>1, <1>3 DEF Destroyed, FpInv, FingerprintTypeOK, SessionInv, ImageBufferLives
  <2>2. offset' <= Len(idFile)
    BY <1>1 DEF FpInv, PlaceInv
  <2>. QED BY <1>1, <2>1, <2>2, FileUnchanged
<1>. QED BY <1>2, <1>3

LEMMA FpInfoStep ==
  ASSUME FpInv, InfoCounts \/ InfoSeeks \/ InfoReads
  PROVE  FpInv'
<1> USE DEF fpThreadVars, fileVars, deletionVars, sessionVars, alarmVars
<1>1. UNCHANGED <<fpInits, imgData, fpThreadVars, fpStatus, alarmVars, templates, idFile, templateNum,
                  misplaced, deletionVars>>
  BY DEF InfoCounts, InfoSeeks, InfoReads
<1>2. offset \in Nat /\ offset <= Len(idFile) /\ Len(idFile) \in Nat /\ toRead \in Nat
  BY DEF FpInv, FingerprintTypeOK, PlaceInv
<1>3. offset' \in Nat /\ offset' <= Len(idFile)
  <2>1. offset' \in {0, offset} \/ (offset < Len(idFile) /\ offset' = offset + 1)
    BY DEF InfoCounts, InfoSeeks, InfoReads
  <2>. QED BY <1>2, <2>1
<1>4. toRead' \in Nat
  <2>1. Cardinality(templates) \in Nat
    BY IdsFinite DEF FpInv, FingerprintTypeOK
  <2>2. \/ toRead' \in {Cardinality(templates), toRead, 0}
        \/ toRead > 0 /\ toRead' = toRead - 1
    BY DEF InfoCounts, InfoSeeks, InfoReads
  <2>. QED BY <1>2, <2>1, <2>2
<1>5. user' \in {"idle", "seek", "info"} /\ fpInits # 0
  <2>1. fpInits \in 0 .. 2 /\ (fpInits = 0 => user \in {"idle", "destroy"})
    BY DEF FpInv, FingerprintTypeOK, SessionInv
  <2>. QED BY <2>1 DEF InfoCounts, InfoSeeks, InfoReads
<1>6. FingerprintTypeOK'
  BY <1>1, <1>3, <1>4, <1>5 DEF FpInv, FingerprintTypeOK
<1>7. SessionInv' /\ ImageBufferLives'
  BY <1>1, <1>5 DEF FpInv, SessionInv, ImageBufferLives
<1>. QED BY <1>1, <1>3, <1>6, <1>7, FileUnchanged

LEMMA FpRequestStep ==
  ASSUME FpInv, NEW m, NEW x, FpRequest(m, x)
  PROVE  FpInv'
<1> USE DEF fpThreadVars, fileVars, deletionVars, sessionVars, alarmVars, userVars
<1>1. FingerprintTypeOK' /\ SessionInv' /\ ImageBufferLives'
  BY DEF FpRequest, FpInv, FingerprintTypeOK, SessionInv, ImageBufferLives
<1>2. /\ UNCHANGED <<fpThread, kind, id, templates, idFile, templateNum, misplaced, deletionVars>>
      /\ offset' <= Len(idFile)
  BY DEF FpRequest, FpInv, PlaceInv
<1>. QED BY <1>1, <1>2, FileUnchanged

LEMMA CancelStep ==
  ASSUME FpInv, NEW k \in Kind, CancelTimeout(k) \/ CancelStatus(k)
  PROVE  FpInv'
<1> USE DEF fpThreadVars, fileVars, deletionVars, sessionVars
<1>1. UNCHANGED <<sessionVars, fpThreadVars, late, toRead, templates, fileVars, deletionVars>>
  <2>1. CASE CancelTimeout(k)
    BY <2>1 DEF CancelTimeout
  <2>2. CASE CancelStatus(k)
    BY <2>2 DEF CancelStatus, alarmVars
  <2>. QED BY <2>1, <2>2
<1>2. /\ fpArmed' \in [Kind -> BOOLEAN] /\ fpStatus' \in [Kind -> BOOLEAN]
      /\ user' \in {"idle"} \cup Kind
  <2>0. fpArmed \in [Kind -> BOOLEAN] /\ fpStatus \in [Kind -> BOOLEAN]
    BY DEF FpInv, FingerprintTypeOK
  <2>1. CASE CancelTimeout(k)
    BY <2>0, <2>1 DEF CancelTimeout
  <2>2. CASE CancelStatus(k)
    BY <2>0, <2>2 DEF CancelStatus, alarmVars
  <2>. QED BY <2>1, <2>2
<1>3. fpInits # 0
  <2>1. fpInits \in 0 .. 2 /\ (fpInits = 0 => user \in {"idle", "destroy"})
    BY DEF FpInv, FingerprintTypeOK, SessionInv
  <2>. QED BY <2>1 DEF CancelTimeout, CancelStatus, Kind
<1>4. FingerprintTypeOK' /\ SessionInv' /\ ImageBufferLives'
  BY <1>1, <1>2, <1>3 DEF FpInv, FingerprintTypeOK, SessionInv, ImageBufferLives
<1>5. offset' <= Len(idFile)
  BY <1>1 DEF FpInv, PlaceInv
<1>. QED BY <1>1, <1>4, <1>5, FileUnchanged

LEMMA AlarmStep ==
  ASSUME FpInv, NEW k \in Kind, Timeout(k) \/ TimedOut(k)
  PROVE  FpInv'
<1> USE DEF fpThreadVars, fileVars, deletionVars, sessionVars, userVars
<1>1. UNCHANGED <<sessionVars, fpThreadVars, userVars, templates, fileVars, deletionVars>>
  BY DEF Timeout, TimedOut
<1>2. fpArmed' \in [Kind -> BOOLEAN] /\ late' \in [Kind -> BOOLEAN] /\ fpStatus' \in [Kind -> BOOLEAN]
  BY DEF Timeout, TimedOut, FpInv, FingerprintTypeOK
<1>3. FingerprintTypeOK' /\ SessionInv' /\ ImageBufferLives'
  BY <1>1, <1>2 DEF FpInv, FingerprintTypeOK, SessionInv, ImageBufferLives
<1>4. offset' <= Len(idFile)
  BY <1>1 DEF FpInv, PlaceInv
<1>. QED BY <1>1, <1>3, <1>4, FileUnchanged

LEMMA FpInitCallStep ==
  ASSUME FpInv, FpInitCall
  PROVE  FpInv'
<1> USE DEF fpThreadVars, fileVars, deletionVars, sessionVars, userVars, alarmVars
<1>0. /\ Cardinality(templates) \in Nat /\ Len(idFile) \in Nat
      /\ fpInits \in 0 .. 2
  BY IdsFinite DEF FpInv, FingerprintTypeOK
<1>1. CASE fpInits > 0
  <2>1. fpInits' \in 0 .. 2 /\ fpInits' # 0
    BY <1>0, <1>1 DEF FpInitCall
  <2>2. UNCHANGED <<fpThread, imgData, kind, image, id, retries, fpStatus, fpArmed, late, user, toRead, templates,
                    idFile, offset, templateNum, misplaced, idList, curPos>>
    BY <1>1 DEF FpInitCall
  <2>3. FingerprintTypeOK' /\ SessionInv' /\ ImageBufferLives' /\ offset' <= Len(idFile)
    BY <2>1, <2>2 DEF FpInv, FingerprintTypeOK, SessionInv, ImageBufferLives, PlaceInv
  <2>. QED BY <2>2, <2>3, FileUnchanged
<1>2. CASE ~(fpInits > 0)
  <2>1. fpInits = 0 /\ user = "idle" /\ fpThread = "none"
    BY <1>0, <1>2 DEF FpInitCall, FpInv, SessionInv
  <2>2. /\ UNCHANGED <<kind, image, id, retries, fpStatus, fpArmed, late, user, toRead, templates,
                       idFile, misplaced, idList, curPos>>
        /\ templateNum' = Cardinality(templates) /\ offset' \in {offset, 0}
        /\ \/ UNCHANGED <<fpInits, imgData, fpThread>>
           \/ fpInits' = 1 /\ imgData' = "live" /\ fpThread' = "wait"
    BY <1>2 DEF FpInitCall
  <2>3. FingerprintTypeOK'
    BY <1>0, <2>1, <2>2 DEF FpInv, FingerprintTypeOK
  <2>4. SessionInv' /\ ImageBufferLives'
    BY <2>1, <2>2 DEF SessionInv, ImageBufferLives
  <2>5. EnrollInv'
    BY <2>1, <2>2 DEF EnrollInv, Deleting
  <2>6. PlaceInv'
    BY <1>0, <2>1, <2>2 DEF FpInv, PlaceInv
  <2>7. ListInv'
    <3>1. ~misplaced => Listed(idFile, templates)
      BY <2>1 DEF FpInv, ListInv, Unsettled, Deleting
    <3>. QED BY <2>1, <2>2, <3>1 DEF ListInv, Unsettled, Deleting
  <2>. QED BY <2>3, <2>4, <2>5, <2>6, <2>7 DEF FpInv
<1>. QED BY <1>1, <1>2

LEMMA FpRestartStep ==
  ASSUME FpInv, Restart
  PROVE  FpInv'
<1>1. 1 \in Id /\ 0 \in 0 .. MaxRetries /\ Len(idFile) \in Nat /\ <<>> \in Seq(Id)
  BY FingerprintAssumption DEF Id, FpInv, FingerprintTypeOK
<1>2. /\ fpInits' = 0 /\ imgData' = "null" /\ user' = "idle" /\ fpThread' = "none" /\ toRead' = 0
      /\ kind' = "auth" /\ image' = 1 /\ id' = 1 /\ retries' = 0 /\ idList' = <<>> /\ curPos' = 0
      /\ offset' = 0 /\ templateNum' = 0 /\ misplaced' = (misplaced \/ fpThread \in Unsettled)
      /\ UNCHANGED <<requests, templates, idFile>>
  BY DEF Restart
<1>3. fpStatus' \in [Kind -> BOOLEAN] /\ fpArmed' \in [Kind -> BOOLEAN] /\ late' \in [Kind -> BOOLEAN]
  BY DEF Restart
<1>4. FingerprintTypeOK'
  BY <1>1, <1>2, <1>3 DEF FpInv, FingerprintTypeOK, Kind, Steps
<1>5. SessionInv' /\ EnrollInv' /\ ImageBufferLives'
  BY <1>2 DEF SessionInv, EnrollInv, ImageBufferLives, Deleting
<1>6. PlaceInv'
  BY <1>1, <1>2 DEF PlaceInv
<1>7. ListInv'
  <2>1. ~misplaced' => fpThread \notin Unsettled /\ ~misplaced
    BY <1>2 DEF FpInv, FingerprintTypeOK
  <2>2. ~misplaced' => Listed(idFile, templates)
    BY <2>1 DEF FpInv, ListInv
  <2>. QED BY <1>2, <2>2 DEF ListInv, Unsettled, Deleting
<1>. QED BY <1>4, <1>5, <1>6, <1>7 DEF FpInv

(* The thread's steps that leave the file and the templates alone. *)
LEMMA RequestStep ==
  ASSUME FpInv,
         \/ Refused \/ Check \/ Arm \/ Captured \/ GivesUp \/ Disarm
         \/ Evaluate \/ Lifted \/ \E k \in Kind : Begins(k)
  PROVE  FpInv'
<1> DEFINE Active == {"wait", "check", "arm", "capture", "disarm", "evaluate", "lift", "store", "finish"}
<1> USE DEF fpThreadVars, fileVars, deletionVars, sessionVars, userVars, alarmVars, FpGoto
<1>1. UNCHANGED <<sessionVars, userVars, late, templates, fileVars, deletionVars>>
  BY DEF Refused, Check, Arm, Captured, GivesUp, Disarm, Evaluate, Lifted, Begins
<1>2. fpThread \in Active /\ fpThread' \in Active
  BY DEF Refused, Finish, Over, Check, Arm, Captured, GivesUp, Disarm, Evaluate, Lifted, Begins
<1>3. fpArmed' \in [Kind -> BOOLEAN] /\ fpStatus' \in [Kind -> BOOLEAN]
  BY DEF Refused, Finish, Check, Arm, Captured, GivesUp, Disarm, Evaluate, Lifted, Begins,
         FpInv, FingerprintTypeOK
<1>4. /\ kind' \in Kind /\ image' \in 1 .. Steps(kind') /\ id' \in Id /\ retries' \in 0 .. MaxRetries
      /\ EnrollInv'
  <2>1. 1 \in Id /\ 0 \in 0 .. MaxRetries
    BY FingerprintAssumption DEF Id
  <2>2. CASE Refused
    BY <1>1, <2>1, <2>2 DEF Refused, Finish, Over, Kind, Steps, EnrollInv, Deleting
  <2>3. CASE Check \/ Arm \/ Captured \/ GivesUp \/ Disarm \/ Lifted
    BY <1>1, <2>3 DEF Check, Arm, Captured, GivesUp, Disarm, Lifted, FpInv, FingerprintTypeOK,
         EnrollInv, Deleting
  <2>4. CASE Evaluate
    <3>1. retries' \in 0 .. MaxRetries /\ image' \in 1 .. Steps(kind)
      BY <2>4, FingerprintAssumption DEF Evaluate, Steps, FpInv, FingerprintTypeOK
    <3>2. /\ kind' = kind /\ id' = id /\ fpThread = "evaluate"
          /\ fpThread' \in {"lift", "store", "finish"} /\ (fpThread' = "store" => kind = "enroll")
      BY <2>4 DEF Evaluate
    <3>. QED BY <1>1, <3>1, <3>2 DEF FpInv, FingerprintTypeOK, EnrollInv, Deleting
  <2>5. ASSUME NEW k \in Kind, Begins(k)
        PROVE  /\ kind' \in Kind /\ image' \in 1 .. Steps(kind') /\ id' \in Id
               /\ retries' \in 0 .. MaxRetries /\ EnrollInv'
    <3>1. k = "enroll" /\ templates # Id => Min(Id \ templates) \in Id \ templates
      <4>1. Id \ templates \in SUBSET Nat
        BY DEF Id
      <4>2. templates # Id => Id \ templates # {}
        BY DEF FpInv, FingerprintTypeOK
      <4>. QED BY <4>1, <4>2, MinNat
    <3>. QED BY <1>1, <2>1, <2>5, <3>1 DEF Begins, Kind, Steps, FpInv, FingerprintTypeOK, EnrollInv, Deleting
  <2>. QED BY <2>2, <2>3, <2>4, <2>5
<1>5. FingerprintTypeOK'
  BY <1>1, <1>2, <1>3, <1>4 DEF FpInv, FingerprintTypeOK
<1>6. SessionInv' /\ ImageBufferLives'
  BY <1>1, <1>2 DEF FpInv, SessionInv, ImageBufferLives
<1>7. fpThread \notin Unsettled \cup {"none", "reset"} /\ fpThread' \notin Unsettled
  BY <1>2 DEF Unsettled, Deleting
<1>. QED BY <1>1, <1>4, <1>5, <1>6, <1>7, FileSettled

LEMMA QuitStep ==
  ASSUME FpInv, Quit \/ DeleteFails
  PROVE  FpInv'
<1> USE DEF fpThreadVars, fileVars, deletionVars, sessionVars, userVars, alarmVars, FpGoto
<1>1. /\ UNCHANGED <<fpInits, imgData, kind, image, id, retries, fpStatus, fpArmed, late, user, toRead, templates,
                     idFile, offset, templateNum, misplaced, idList, curPos>>
      /\ fpThread = "wait" /\ fpThread' \in {"wait", "none"}
  BY DEF Quit, DeleteFails
<1>2. FingerprintTypeOK'
  BY <1>1 DEF FpInv, FingerprintTypeOK
<1>3. SessionInv' /\ ImageBufferLives' /\ EnrollInv'
  BY <1>1 DEF FpInv, SessionInv, ImageBufferLives, EnrollInv, Deleting
<1>4. fpThread \notin Unsettled \cup {"none", "reset"} /\ fpThread' \notin Unsettled
  BY <1>1 DEF Unsettled, Deleting
<1>. QED BY <1>1, <1>2, <1>3, <1>4, FileSettled

LEMMA StoreStep ==
  ASSUME FpInv, Store \/ WriteFails
  PROVE  FpInv'
<1> USE DEF fpThreadVars, fileVars, deletionVars, sessionVars, userVars, alarmVars, FpGoto
<1>1. /\ UNCHANGED <<fpInits, imgData, kind, image, id, retries, fpStatus, fpArmed, late, user, toRead,
                     idFile, offset, templateNum, misplaced, idList, curPos>>
      /\ \/ fpThread = "store" /\ fpThread' = "write" /\ templates' = templates \cup {id}
         \/ fpThread = "store" /\ fpThread' = "finish" /\ templates' = templates
         \/ fpThread = "write" /\ fpThread' = "finish" /\ templates' = templates \ {id}
  BY DEF Store, WriteFails
<1>2. FingerprintTypeOK'
  BY <1>1 DEF FpInv, FingerprintTypeOK, Unsettled
<1>3. SessionInv' /\ ImageBufferLives' /\ EnrollInv' /\ PlaceInv'
  BY <1>1 DEF FpInv, SessionInv, ImageBufferLives, EnrollInv, PlaceInv, Deleting
<1>4. ListInv'
  <2> SUFFICES ASSUME ~misplaced PROVE ListInv'
    BY <1>1 DEF ListInv
  <2>1. CASE fpThread = "store" /\ fpThread' = "write" /\ templates' = templates \cup {id}
    <3>1. templates' \ {id} = templates
      BY <2>1 DEF FpInv, EnrollInv
    <3>2. Listed(idFile, templates) /\ templateNum = Cardinality(templates)
      BY <2>1 DEF FpInv, ListInv, Unsettled, Deleting
    <3>. QED BY <1>1, <2>1, <3>1, <3>2 DEF ListInv, Settled, Unsettled, Deleting
  <2>2. CASE fpThread = "store" /\ fpThread' = "finish" /\ templates' = templates
    <3>1. Listed(idFile, templates) /\ templateNum = Cardinality(templates)
      BY <2>2 DEF FpInv, ListInv, Unsettled, Deleting
    <3>. QED BY <1>1, <2>2, <3>1 DEF ListInv, Unsettled, Deleting
  <2>3. CASE fpThread = "write" /\ fpThread' = "finish" /\ templates' = templates \ {id}
    <3>1. Listed(idFile, templates \ {id}) /\ templateNum = Cardinality(templates \ {id})
      BY <2>3 DEF FpInv, ListInv, Settled
    <3>. QED BY <1>1, <2>3, <3>1 DEF ListInv, Unsettled, Deleting
  <2>. QED BY <1>1, <2>1, <2>2, <2>3
<1>. QED BY <1>2, <1>3, <1>4 DEF FpInv

LEMMA WriteIdStep ==
  ASSUME FpInv, WriteId
  PROVE  FpInv'
<1> USE DEF fpThreadVars, deletionVars, sessionVars, userVars, alarmVars, FpGoto
<1> DEFINE T == templates \ {id}
           g == Appended(idFile, offset, id)
<1>1. /\ fpThread = "write" /\ fpThread' = "finish" /\ idFile' = g
      /\ offset' = offset + 1 /\ templateNum' = templateNum + 1
      /\ misplaced' = (misplaced \/ offset # templateNum)
      /\ UNCHANGED <<fpInits, imgData, kind, image, id, retries, fpStatus, fpArmed, late, user, toRead, templates,
                     idList, curPos>>
  BY DEF WriteId, Appended, Written
<1>2. /\ id \in templates /\ templates = T \cup {id} /\ T \in SUBSET Id /\ id \in Id
      /\ id \notin T /\ idFile \in Seq(Id) /\ offset \in Nat /\ offset <= Len(idFile)
      /\ templateNum \in Nat /\ curPos \in Nat /\ curPos <= Len(idFile) /\ misplaced \in BOOLEAN
  BY <1>1 DEF FpInv, FingerprintTypeOK, EnrollInv, PlaceInv
<1>3. g \in Seq(Id) /\ offset + 1 <= Len(g) /\ curPos <= Len(g)
  <2>1. g \in Seq(Id) /\ Len(g) >= offset + 1 /\ Len(g) >= Len(idFile)
    BY <1>2, AppendedIsSeq
  <2> HIDE DEF g
  <2>2. Len(g) \in Nat /\ Len(idFile) \in Nat
    BY <1>2, <2>1
  <2>. QED BY <1>2, <2>1, <2>2
<1> HIDE DEF g, T
<1>4. FingerprintTypeOK'
  <2>1. offset' \in Nat /\ templateNum' \in Nat /\ misplaced' \in BOOLEAN /\ idFile' \in Seq(Id)
    BY <1>1, <1>2, <1>3
  <2>. QED BY <1>1, <2>1 DEF FpInv, FingerprintTypeOK
<1>5. SessionInv' /\ EnrollInv' /\ ImageBufferLives'
  BY <1>1 DEF FpInv, SessionInv, EnrollInv, ImageBufferLives, Deleting
<1>6. PlaceInv'
  BY <1>1, <1>3 DEF PlaceInv
<1>7. ListInv'
  <2> SUFFICES ASSUME ~misplaced'
               PROVE  Listed(g, templates) /\ templateNum + 1 = Cardinality(templates)
    BY <1>1 DEF ListInv, Unsettled, Deleting
  <2>1. ~misplaced /\ offset = templateNum
    BY <1>1
  <2>2. Listed(idFile, T) /\ templateNum = Cardinality(T)
    BY <1>1, <2>1 DEF FpInv, ListInv, Settled, T
  <2>3. /\ Listed(Appended(idFile, Cardinality(T), id), T \cup {id})
        /\ Cardinality(T \cup {id}) = Cardinality(T) + 1
    BY <1>2, <2>2, ListedAppend
  <2>. QED BY <1>2, <2>1, <2>2, <2>3 DEF g
<1>. QED BY <1>4, <1>5, <1>6, <1>7 DEF FpInv

-----------------------------------------------------------------------------
(* A deletion, step by step.                                               *)

LEMMA DeleteOneStep ==
  ASSUME FpInv, DeleteOne
  PROVE  FpInv'
<1> USE DEF fileVars, deletionVars, sessionVars, userVars, alarmVars
<1> DEFINE x == pipe[1].id
<1>1. /\ fpThread = "wait" /\ fpThread' = "position" /\ id' = x /\ x \in templates
      /\ templates' = templates \ {x}
      /\ UNCHANGED <<fpInits, imgData, kind, image, retries, fpStatus, fpArmed, late, user, toRead,
                     idFile, offset, templateNum, misplaced, idList, curPos>>
  BY DEF DeleteOne
<1> HIDE DEF x
<1>2. FingerprintTypeOK'
  BY <1>1 DEF FpInv, FingerprintTypeOK, Unsettled, Deleting
<1>3. SessionInv' /\ ImageBufferLives' /\ EnrollInv' /\ PlaceInv'
  BY <1>1 DEF FpInv, SessionInv, ImageBufferLives, EnrollInv, PlaceInv, Deleting
<1>4. ListInv'
  <2>1. templates' \cup {x} = templates
    BY <1>1
  <2>2. ~misplaced => Listed(idFile, templates) /\ templateNum = Cardinality(templates)
    BY <1>1 DEF FpInv, ListInv, Unsettled, Deleting
  <2>. QED BY <1>1, <2>1, <2>2 DEF ListInv, Settled, Unsettled, Deleting
<1>. QED BY <1>2, <1>3, <1>4 DEF FpInv

LEMMA RewindStep ==
  ASSUME FpInv, NotePosition \/ Rewind \/ RewindAgain
  PROVE  FpInv'
<1> USE DEF fpThreadVars, fileVars, sessionVars, userVars, alarmVars, deletionVars, FpGoto
<1>1. /\ UNCHANGED <<fpInits, imgData, kind, image, id, retries, fpStatus, fpArmed, late, user, toRead, templates,
                     idFile, templateNum, misplaced, idList>>
      /\ offset' \in {offset, 0} /\ curPos' \in {curPos, offset}
      /\ \/ fpThread = "position" /\ fpThread' = "rewind"
         \/ fpThread = "rewind" /\ fpThread' = "list"
         \/ fpThread = "again" /\ fpThread' = "rewrite"
  BY DEF NotePosition, Rewind, RewindAgain
<1>2. /\ offset \in Nat /\ curPos \in Nat /\ Len(idFile) \in Nat
      /\ offset <= Len(idFile) /\ curPos <= Len(idFile)
  BY DEF FpInv, FingerprintTypeOK, PlaceInv
<1>3. FingerprintTypeOK'
  BY <1>1, <1>2 DEF FpInv, FingerprintTypeOK, Unsettled, Deleting
<1>4. SessionInv' /\ ImageBufferLives' /\ EnrollInv'
  BY <1>1 DEF FpInv, SessionInv, ImageBufferLives, EnrollInv, Deleting
<1>5. PlaceInv'
  BY <1>1, <1>2 DEF FpInv, PlaceInv
<1>6. ListInv'
  <2>1. CASE fpThread \in {"position", "rewind"}
    <3>1. ~misplaced => Settled(templates \cup {id})
      BY <2>1 DEF FpInv, ListInv
    <3>2. fpThread' \in {"rewind", "list"}
      BY <1>1, <2>1
    <3>. QED BY <1>1, <3>1, <3>2 DEF ListInv, Settled, Unsettled, Deleting
  <2>2. CASE fpThread = "again"
    <3>1. ~misplaced => Rewriting
      BY <2>2 DEF FpInv, ListInv
    <3>. QED BY <1>1, <2>2, <3>1 DEF ListInv, Rewriting, Unsettled, Deleting
  <2>. QED BY <1>1, <2>1, <2>2
<1>. QED BY <1>3, <1>4, <1>5, <1>6 DEF FpInv

LEMMA ReadListStep ==
  ASSUME FpInv, ReadList
  PROVE  FpInv'
<1> USE DEF fpThreadVars, sessionVars, userVars, alarmVars, FpGoto
<1> DEFINE n == Min({templateNum, Len(idFile) - offset})
           at == {k \in 1 .. n : idFile[offset + k] = id}
           g == [k \in 1 .. n - 1 |-> idFile[offset + IF k < Min(at) THEN k ELSE k + 1]]
<1>1. /\ UNCHANGED <<fpInits, imgData, kind, image, id, retries, fpStatus, fpArmed, late, user, toRead, templates,
                     idFile, templateNum, curPos>>
      /\ fpThread = "list" /\ offset' = offset + n
      /\ misplaced' = (misplaced \/ offset # 0)
      /\ \/ at = {} /\ fpThread' = "restore" /\ idList' = idList
         \/ at # {} /\ fpThread' = "again" /\ idList' = g
  BY DEF ReadList
<1>2. /\ offset \in Nat /\ curPos \in Nat /\ Len(idFile) \in Nat /\ templateNum \in Nat
      /\ offset <= Len(idFile) /\ curPos <= Len(idFile) /\ idFile \in Seq(Id) /\ idList \in Seq(Id)
      /\ misplaced \in BOOLEAN /\ id \in Id /\ templates \in SUBSET Id
  BY DEF FpInv, FingerprintTypeOK, PlaceInv
<1>3. n \in Nat /\ n <= templateNum /\ offset + n <= Len(idFile)
  <2>1. n = IF templateNum <= Len(idFile) - offset THEN templateNum ELSE Len(idFile) - offset
    BY <1>2, MinTwo
  <2> HIDE DEF n
  <2>. QED BY <1>2, <2>1
<1>13. n = templateNum \/ n = Len(idFile) - offset
  <2>1. n = IF templateNum <= Len(idFile) - offset THEN templateNum ELSE Len(idFile) - offset
    BY <1>2, MinTwo
  <2> HIDE DEF n
  <2>. QED BY <2>1
<1>4. at # {} => n >= 1 /\ Min(at) \in Nat
  <2>1. at \in SUBSET Nat /\ \A k \in at : 1 <= k /\ k <= n
    <3> HIDE DEF n
    <3>. QED BY <1>3
  <2> HIDE DEF at, n
  <2>2. at # {} => n >= 1
    <3> SUFFICES ASSUME at # {} PROVE n >= 1
      OBVIOUS
    <3>1. PICK k \in at : TRUE
      OBVIOUS
    <3>2. k \in Nat /\ 1 <= k /\ k <= n
      BY <2>1
    <3>. QED BY <1>3, <3>2
  <2>. QED BY <2>1, <2>2, MinNat
<1>5. at # {} => g \in Seq(Id) /\ Len(g) = n - 1
  <2> SUFFICES ASSUME at # {} PROVE g \in Seq(Id) /\ Len(g) = n - 1
    OBVIOUS
  <2> DEFINE p == Min(at)
             e(k) == idFile[offset + IF k < p THEN k ELSE k + 1]
  <2>1. n \in Nat /\ n >= 1 /\ p \in Nat
    BY <1>3, <1>4
  <2>2. g = [k \in 1 .. n - 1 |-> e(k)]
    OBVIOUS
  <2> HIDE DEF n, at, p, g
  <2>3. ASSUME NEW k \in 1 .. n - 1
        PROVE  e(k) \in Id
    <3>1. (offset + IF k < p THEN k ELSE k + 1) \in 1 .. Len(idFile)
      BY <1>2, <1>3, <2>1
    <3>. QED BY <1>2, <3>1
  <2> HIDE DEF e
  <2>4. g \in [1 .. n - 1 -> Id] /\ n - 1 \in Nat
    BY <2>1, <2>2, <2>3
  <2>. QED BY <2>4, FunctionIsSeq
<1>10. offset = 0 => /\ at = Places(idFile, n, id)
                     /\ g = Without(idFile, Min(at), n)
  <2> SUFFICES ASSUME offset = 0
               PROVE  at = Places(idFile, n, id) /\ g = Without(idFile, Min(at), n)
    OBVIOUS
  <2> DEFINE p == Min(at)
  <2>1. n \in Nat
    BY <1>3
  <2>2. at = {k \in 1 .. n : idFile[offset + k] = id}
        /\ g = [k \in 1 .. n - 1 |-> idFile[offset + IF k < p THEN k ELSE k + 1]]
    OBVIOUS
  <2>5. p = Min(at)
    OBVIOUS
  <2> HIDE DEF n, at, p, g
  <2>3. \A k \in 1 .. n : offset + k = k
    BY <2>1
  <2>4. \A k \in 1 .. n - 1 : (offset + IF k < p THEN k ELSE k + 1) = (IF k < p THEN k ELSE k + 1)
    BY <2>1
  <2>6. at = Places(idFile, n, id)
    BY <2>2, <2>3 DEF Places
  <2>7. g = Without(idFile, p, n)
    BY <2>2, <2>4 DEF Without
  <2>. QED BY <2>5, <2>6, <2>7
<1> HIDE DEF n, at, g
<1>6. FingerprintTypeOK'
  <2>1. offset' \in Nat /\ misplaced' \in BOOLEAN /\ idList' \in Seq(Id)
    BY <1>1, <1>2, <1>3, <1>5
  <2>2. fpThread' \in {"restore", "again"}
    BY <1>1
  <2>. QED BY <1>1, <2>1, <2>2 DEF FpInv, FingerprintTypeOK, Unsettled, Deleting
<1>7. SessionInv' /\ ImageBufferLives' /\ EnrollInv'
  BY <1>1 DEF FpInv, SessionInv, ImageBufferLives, EnrollInv, Deleting
<1>8. PlaceInv'
  BY <1>1, <1>2, <1>3, <1>4 DEF PlaceInv
<1>9. ListInv'
  <2> SUFFICES ASSUME ~misplaced' PROVE ListInv'
    BY DEF ListInv
  <2> DEFINE T == templates \cup {id}
  <2>1. ~misplaced /\ offset = 0
    BY <1>1
  <2>2. Listed(idFile, T) /\ templateNum = Cardinality(T)
    BY <1>1, <2>1 DEF FpInv, ListInv, Settled
  <2>3. id \notin templates
    BY <1>1 DEF FpInv, EnrollInv, Deleting
  <2>4. T \in SUBSET Id /\ id \in T /\ T \ {id} = templates
    BY <1>2, <2>3
  <2> HIDE DEF T
  <2>5. n = Cardinality(T)
    <3>1. Cardinality(T) <= Len(idFile)
      BY <2>2 DEF Listed
    <3>. QED BY <1>2, <1>3, <1>13, <2>1, <2>2, <3>1
  <2>6. at # {} /\ Lists(g, templates) /\ Cardinality(templates) = n - 1
    <3>1. /\ Places(idFile, n, id) # {}
          /\ Lists(Without(idFile, Min(Places(idFile, n, id)), n), T \ {id})
          /\ Cardinality(T \ {id}) = n - 1
      BY <1>2, <2>2, <2>4, <2>5, ListedRemove
    <3>. QED BY <1>10, <2>1, <2>4, <3>1
  <2>7. fpThread' = "again" /\ idList' = g /\ Len(g) = n - 1 /\ templateNum' = n
    BY <1>1, <1>5, <2>2, <2>5, <2>6
  <2>8. Lists(Mixed(idFile, g, n - 1), templates)
    <3>1. n - 1 \in Nat
      BY <1>3, <1>4, <2>6
    <3>2. \A k \in 1 .. n - 1 : Mixed(idFile, g, n - 1)[k] = g[k]
      BY <2>7, <3>1, MixedAll
    <3>. QED BY <2>6, <3>2, ListsSame
  <2>9. n - 1 <= Len(idFile)
    BY <1>2, <1>3
  <2>10. Rewriting'
    BY <1>1, <1>3, <2>6, <2>7, <2>8, <2>9 DEF Rewriting
  <2>. QED BY <2>7, <2>10 DEF ListInv, Unsettled, Deleting
<1>. QED BY <1>6, <1>7, <1>8, <1>9 DEF FpInv

LEMMA RewriteStep ==
  ASSUME FpInv, Rewrite
  PROVE  FpInv'
<1> USE DEF fpThreadVars, sessionVars, userVars, alarmVars
<1> DEFINE x == Head(idList)
           g == Appended(idFile, offset, x)
<1>1. /\ UNCHANGED <<fpInits, imgData, fpThread, kind, image, id, retries, fpStatus, fpArmed, late, user, toRead,
                     templates, templateNum, curPos>>
      /\ fpThread = "rewrite" /\ idList # <<>> /\ idList' = Tail(idList)
      /\ idFile' = g /\ offset' = offset + 1
      /\ misplaced' = (misplaced \/ offset # templateNum - 1 - Len(idList))
  BY DEF Rewrite, Written, Appended
<1>2. /\ offset \in Nat /\ curPos \in Nat /\ Len(idFile) \in Nat /\ templateNum \in Nat
      /\ offset <= Len(idFile) /\ curPos <= Len(idFile) /\ idFile \in Seq(Id) /\ idList \in Seq(Id)
      /\ misplaced \in BOOLEAN
  BY DEF FpInv, FingerprintTypeOK, PlaceInv
<1>3. x \in Id /\ Tail(idList) \in Seq(Id) /\ Len(idList) \in Nat \ {0} /\ Len(Tail(idList)) = Len(idList) - 1
  BY <1>1, <1>2
<1> HIDE DEF x
<1>4. g \in Seq(Id) /\ Len(g) >= offset + 1 /\ Len(g) >= Len(idFile)
  BY <1>2, <1>3, AppendedIsSeq
<1> HIDE DEF g
<1>5. Len(g) \in Nat
  BY <1>4
<1>6. FingerprintTypeOK'
  <2>1. offset' \in Nat /\ misplaced' \in BOOLEAN /\ idFile' \in Seq(Id) /\ idList' \in Seq(Id)
    BY <1>1, <1>2, <1>3, <1>4
  <2>. QED BY <1>1, <2>1 DEF FpInv, FingerprintTypeOK
<1>7. SessionInv' /\ ImageBufferLives' /\ EnrollInv'
  BY <1>1 DEF FpInv, SessionInv, ImageBufferLives, EnrollInv, Deleting
<1>8. PlaceInv'
  <2>1. offset' <= Len(idFile') /\ curPos' <= Len(idFile')
    BY <1>1, <1>2, <1>4, <1>5
  <2>2. templateNum' >= 1
    BY <1>1 DEF FpInv, PlaceInv
  <2>. QED BY <2>1, <2>2 DEF PlaceInv
<1>9. ListInv'
  <2> SUFFICES ASSUME ~misplaced' PROVE ListInv'
    BY DEF ListInv
  <2> DEFINE c == templateNum - 1
  <2>1. ~misplaced /\ offset = c - Len(idList)
    BY <1>1
  <2>2. /\ c = Cardinality(templates) /\ c <= Len(idFile) /\ Len(idList) <= c
        /\ Lists(Mixed(idFile, idList, c), templates)
    BY <1>1, <2>1 DEF FpInv, ListInv, Rewriting
  <2>3. c \in Nat
    BY <1>1, <1>2 DEF FpInv, PlaceInv
  <2>10. templateNum' - 1 = c
    BY <1>1
  <2> HIDE DEF c
  <2>4. Lists(Mixed(g, Tail(idList), c), templates)
    <3>1. \A k \in 1 .. c : Mixed(g, Tail(idList), c)[k] = Mixed(idFile, idList, c)[k]
      <4>1. g = Appended(idFile, c - Len(idList), Head(idList))
        BY <2>1 DEF g, x
      <4>2. \A k \in 1 .. c :
              Mixed(Appended(idFile, c - Len(idList), Head(idList)), Tail(idList), c)[k]
                = Mixed(idFile, idList, c)[k]
        BY <1>1, <1>2, <2>2, <2>3, MixedWritten
      <4>. QED BY <4>1, <4>2
    <3>. QED BY <2>2, <3>1, ListsSame
  <2>5. c <= Len(g) /\ Len(Tail(idList)) <= c
    BY <1>2, <1>3, <1>4, <1>5, <2>2, <2>3
  <2>6. Rewriting'
    BY <1>1, <2>10, <2>2, <2>4, <2>5 DEF Rewriting
  <2>. QED BY <1>1, <2>6 DEF ListInv, Unsettled, Deleting
<1>. QED BY <1>6, <1>7, <1>8, <1>9 DEF FpInv

LEMMA DeletedStep ==
  ASSUME FpInv, Deleted
  PROVE  FpInv'
<1> USE DEF sessionVars, userVars, alarmVars
<1>1. /\ UNCHANGED <<fpInits, imgData, fpStatus, fpArmed, late, user, toRead, templates, idFile, offset,
                     misplaced, idList>>
      /\ fpThread = "rewrite" /\ idList = <<>> /\ fpThread' = "wait"
      /\ templateNum' = templateNum - 1 /\ curPos' = 0
      /\ kind' = "auth" /\ image' = 1 /\ id' = 1 /\ retries' = 0
  BY DEF Deleted, Over
<1>2. /\ templateNum \in Nat /\ templateNum >= 1 /\ Len(idFile) \in Nat /\ offset <= Len(idFile)
      /\ 1 \in Id /\ 0 \in 0 .. MaxRetries
  BY <1>1, FingerprintAssumption DEF FpInv, FingerprintTypeOK, PlaceInv, Id
<1>3. FingerprintTypeOK'
  <2>1. templateNum' \in Nat /\ curPos' \in Nat
    BY <1>1, <1>2
  <2>. QED BY <1>1, <1>2, <2>1 DEF FpInv, FingerprintTypeOK, Kind, Steps
<1>4. SessionInv' /\ ImageBufferLives' /\ EnrollInv'
  BY <1>1 DEF FpInv, SessionInv, ImageBufferLives, EnrollInv, Deleting
<1>5. PlaceInv'
  BY <1>1, <1>2 DEF PlaceInv
<1>6. ListInv'
  <2> SUFFICES ASSUME ~misplaced
               PROVE  Listed(idFile, templates) /\ templateNum - 1 = Cardinality(templates)
    BY <1>1 DEF ListInv, Unsettled, Deleting
  <2> DEFINE c == templateNum - 1
  <2>1. /\ c = Cardinality(templates) /\ c <= Len(idFile)
        /\ Lists(Mixed(idFile, <<>>, c), templates)
    BY <1>1 DEF FpInv, ListInv, Rewriting
  <2>2. c \in Nat
    BY <1>2
  <2>4. c = templateNum - 1
    OBVIOUS
  <2> HIDE DEF c
  <2>3. Lists(idFile, templates)
    <3>1. \A k \in 1 .. c : idFile[k] = Mixed(idFile, <<>>, c)[k]
      BY <2>2, MixedDone
    <3>. QED BY <2>1, <3>1, ListsSame
  <2>. QED BY <2>1, <2>3, <2>4 DEF Listed
<1>. QED BY <1>3, <1>4, <1>5, <1>6 DEF FpInv

LEMMA RestoreStep ==
  ASSUME FpInv, Restore
  PROVE  FpInv'
<1> USE DEF sessionVars, userVars, alarmVars
<1>1. /\ UNCHANGED <<fpInits, imgData, fpStatus, fpArmed, late, user, toRead, templates, idFile, templateNum,
                     misplaced, idList>>
      /\ fpThread = "restore" /\ fpThread' = "wait"
      /\ offset' = curPos /\ curPos' = 0
      /\ kind' = "auth" /\ image' = 1 /\ id' = 1 /\ retries' = 0
  BY DEF Restore, Over
<1>2. /\ Len(idFile) \in Nat /\ curPos \in Nat /\ curPos <= Len(idFile)
      /\ 1 \in Id /\ 0 \in 0 .. MaxRetries
  BY <1>1, FingerprintAssumption DEF FpInv, FingerprintTypeOK, PlaceInv, Id
<1>3. FingerprintTypeOK'
  BY <1>1, <1>2 DEF FpInv, FingerprintTypeOK, Kind, Steps
<1>4. SessionInv' /\ ImageBufferLives' /\ EnrollInv'
  BY <1>1 DEF FpInv, SessionInv, ImageBufferLives, EnrollInv, Deleting
<1>5. PlaceInv'
  BY <1>1, <1>2 DEF PlaceInv
<1>6. misplaced
  BY <1>1 DEF FpInv, ListInv
<1>7. ListInv'
  BY <1>1, <1>6 DEF ListInv
<1>. QED BY <1>3, <1>4, <1>5, <1>7 DEF FpInv

LEMMA DeleteAllStep ==
  ASSUME FpInv, DeleteAll \/ ResetList
  PROVE  FpInv'
<1> USE DEF fpThreadVars, fileVars, sessionVars, userVars, alarmVars, deletionVars, FpGoto
<1>0. Listed(idFile, {}) /\ Cardinality({}) = 0 /\ Len(idFile) \in Nat
  BY FS_EmptySet DEF Listed, Lists, FpInv, FingerprintTypeOK
<1>1. /\ UNCHANGED <<fpInits, imgData, fpStatus, fpArmed, late, user, toRead, idFile, misplaced, idList, curPos>>
      /\ \/ /\ fpThread = "wait" /\ fpThread' = "reset" /\ templates' = {}
            /\ UNCHANGED <<kind, image, id, retries, offset, templateNum>>
         \/ /\ fpThread = "reset" /\ fpThread' = "wait" /\ templates' = templates
            /\ offset' = 0 /\ templateNum' = 0
            /\ kind' = "auth" /\ image' = 1 /\ id' = 1 /\ retries' = 0
  BY DEF DeleteAll, ResetList, Over
<1>2. templates' = {}
  BY <1>1 DEF FpInv, EnrollInv
<1>3. 1 \in Id /\ 0 \in 0 .. MaxRetries
  BY FingerprintAssumption DEF Id
<1>4. FingerprintTypeOK'
  BY <1>1, <1>2, <1>3 DEF FpInv, FingerprintTypeOK, Kind, Steps
<1>5. SessionInv' /\ ImageBufferLives' /\ EnrollInv'
  BY <1>1, <1>2 DEF FpInv, SessionInv, ImageBufferLives, EnrollInv, Deleting
<1>6. PlaceInv'
  BY <1>0, <1>1 DEF FpInv, PlaceInv
<1>7. ListInv'
  BY <1>0, <1>1, <1>2 DEF ListInv, Unsettled, Deleting
<1>. QED BY <1>4, <1>5, <1>6, <1>7 DEF FpInv

LEMMA FpThreadStep == ASSUME FpInv, FpThread \/ Captured PROVE FpInv'
BY RequestStep, QuitStep, StoreStep, WriteIdStep, DeleteOneStep, RewindStep, ReadListStep,
   RewriteStep, DeletedStep, RestoreStep, DeleteAllStep DEF FpThread

LEMMA FpStep == FpInv /\ [FingerprintNext]_fpVars => FpInv'
<1> SUFFICES ASSUME FpInv, [FingerprintNext]_fpVars PROVE FpInv'
  OBVIOUS
<1>1. CASE FingerprintNext
  BY <1>1, FpDestroyStep, FpInfoStep, FpRequestStep, CancelStep, AlarmStep, FpInitCallStep,
     FpRestartStep, FpThreadStep DEF FingerprintNext, CallGoesOn, AlarmThread
<1>2. CASE UNCHANGED fpVars
  <2>1. UNCHANGED <<fpInits, imgData, fpThread, kind, image, id, retries, fpStatus, fpArmed, late, user, toRead,
                    templates, idFile, offset, templateNum, misplaced, deletionVars>>
    BY <1>2 DEF fpVars, sessionVars, fpThreadVars, alarmVars, userVars, fileVars
  <2>2. FingerprintTypeOK' /\ SessionInv' /\ ImageBufferLives' /\ offset' <= Len(idFile)
    BY <2>1 DEF FpInv, FingerprintTypeOK, SessionInv, ImageBufferLives, PlaceInv, deletionVars
  <2>. QED BY <2>1, <2>2, FileUnchanged
<1>. QED BY <1>1, <1>2

(* Every variable of the fingerprint service keeps its type: ids, images   *)
(* and retries stay within their bounds, the counters do not go negative.  *)
THEOREM FingerprintTypesAlways == FingerprintSpec => []FingerprintTypeOK
<1>1. FpInv => FingerprintTypeOK
  BY DEF FpInv
<1>. QED BY <1>1, FpInitInv, FpStep, PTL DEF FingerprintSpec

(* The image buffer is there whenever the thread captures into it.         *)
THEOREM ImageBufferAlwaysLives == FingerprintSpec => []ImageBufferLives
<1>1. FpInv => ImageBufferLives
  BY DEF FpInv
<1>. QED BY <1>1, FpInitInv, FpStep, PTL DEF FingerprintSpec

LEMMA FpInvLists == FpInv => ListMatches
<1> SUFFICES ASSUME FpInv, ~misplaced, fpThread \notin {"none", "reset"} \cup Unsettled
             PROVE  /\ templateNum = Cardinality(templates) /\ templateNum <= Len(idFile)
                    /\ {idFile[n] : n \in 1 .. templateNum} = templates
  BY DEF ListMatches
<1>1. Listed(idFile, templates) /\ templateNum = Cardinality(templates)
  BY DEF FpInv, ListInv
<1>. QED BY <1>1 DEF Listed, Lists

(* Through every sequence of enrolments, deletions, queries and restarts,  *)
(* each system call a step of its own, the front of the id list file holds *)
(* the enrolled fingers, each once, until an id is read or written where   *)
(* the offset happened to be, or the program ends within a change.         *)
THEOREM ListAlwaysMatches == FingerprintSpec => []ListMatches
BY FpInvLists, FpInitInv, FpStep, PTL DEF FingerprintSpec

-----------------------------------------------------------------------------
(***************************************************************************)
(* Services: side by side each part behaves as it does alone.              *)
(***************************************************************************)

LEMMA ServicesInitParts ==
  ServicesInit => InputInit /\ CameraInit /\ ZigbeeInit /\ FingerprintInit
BY DEF ServicesInit

LEMMA ServicesStepParts ==
  [ServicesNext]_servicesVars =>
    /\ [InputNext]_inputVars /\ [CameraNext]_camVars
    /\ [ZigbeeNext]_zigbeeVars /\ [FingerprintNext]_fpVars
<1> SUFFICES ASSUME [ServicesNext]_servicesVars
             PROVE  /\ [InputNext]_inputVars /\ [CameraNext]_camVars
                    /\ [ZigbeeNext]_zigbeeVars /\ [FingerprintNext]_fpVars
  OBVIOUS
<1>1. CASE InputOnly
  BY <1>1 DEF InputOnly
<1>2. CASE CameraOnly
  BY <1>2 DEF CameraOnly
<1>3. CASE ZigbeeOnly
  BY <1>3 DEF ZigbeeOnly
<1>4. CASE FingerprintOnly
  BY <1>4 DEF FingerprintOnly
<1>5. CASE UNCHANGED servicesVars
  BY <1>5 DEF servicesVars
<1>. QED BY <1>1, <1>2, <1>3, <1>4, <1>5 DEF ServicesNext

(* A behaviour of Services is one of each of its parts, fair as the part   *)
(* asks, so that what is proved of a part holds in Services.               *)
THEOREM ServicesImplementsParts ==
  ServicesSpec => InputSpec /\ CameraSpec /\ ZigbeeFairSpec /\ FingerprintSpec
BY ServicesInitParts, ServicesStepParts, PTL
   DEF ServicesSpec, InputSpec, CameraSpec, ZigbeeFairSpec, ZigbeeSpec, FingerprintSpec
=============================================================================
