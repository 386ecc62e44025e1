---------------------------- MODULE UartProtocol ----------------------------
(***************************************************************************)
(* zigbee/protocol/uart_protocol.c: packets with a length, a sequence      *)
(* number and a checksum, framed by two 0xFE bytes, every later 0xFE       *)
(* escaped by a 0x5A behind it; and the parser that finds the packets      *)
(* again in a ring buffer filled chunk by chunk, as zb_poll does it        *)
(* (receive, then handle).  The bytes that uart_pro_send writes are the    *)
(* bytes that arrive, in the chunks that the serial port happens to return.*)
(*                                                                         *)
(* read, write and p_read are kept masked: rbuf_len divides 2^16 and only  *)
(* the masked values are ever used.  Allocation failures are left out.     *)
(***************************************************************************)
EXTENDS Integers, Sequences, SequencesExt

CONSTANTS RbufLen,      (* rbuf_len                                        *)
          Payload,      (* the payloads sent                               *)
          FirstSn,      (* the values of sn when the first packet is sent  *)
          Garbage,      (* what malloc leaves in the ring                  *)
          StartAt,      (* where the cursors stand: init leaves them where *)
                        (* an earlier session left them                    *)
          MaxChunk,     (* bound: bytes returned by one read of the port   *)
          Noise,        (* stray bytes that may precede a packet           *)
          MaxPackets,   (* bound: packets and stray bytes sent             *)
          SplitAfterFE  (* may a chunk end with a 0xFE?                    *)

Byte == 0 .. 255
FE == 254
TA == 90           (* UART_TRANS_5A *)
Cmd == 64          (* UART_CMD_DATA_REPORT *)
U16 == 65536       (* the values of a uint16_t *)

ASSUME UartProtocolAssumption ==
  /\ RbufLen \in Nat \ {0} /\ MaxChunk \in 1 .. RbufLen - 1 /\ MaxPackets \in Nat
  /\ SplitAfterFE \in BOOLEAN /\ Noise \subseteq Seq(Byte)
  /\ Payload \subseteq Seq(Byte) /\ FirstSn \subseteq Byte /\ Garbage \subseteq Byte
  /\ StartAt \subseteq 0 .. RbufLen - 1

VARIABLES
  sn, sent, wire,      (* gen_sn's counter; the packets sent, as <<cmd,    *)
                       (* payload>>; their bytes that have not arrived     *)
  ring, read, write,   (* rbuf                                             *)
  pc,                  (* "idle" or "scan" (in extract_pro_pkg)            *)
  p, status, recvLen, slen,       (* the locals of extract_pro_pkg         *)
  noise,               (* stray bytes sent, counted                        *)
  handled              (* the packets handed to the callback               *)

sendVars == <<sn, sent, wire, noise>>
scanVars == <<pc, p, status, recvLen, slen>>
uartVars == <<sendVars, ring, read, write, scanVars, handled>>

Mask(i) == i % RbufLen
Cell(i) == ring[Mask(i)]
FreeSize == IF write >= read THEN RbufLen - write + read - 1 ELSE read - write - 1

(* The sums of the first bytes of s, in 16 bits. *)
Sums(s) ==
  LET sum[n \in 0 .. Len(s)] == IF n = 0 THEN 0 ELSE (sum[n - 1] + s[n]) % U16
  IN  sum
Checksum(s) == Sums(s)[Len(s)]

-----------------------------------------------------------------------------
(* Sending.                                                                *)

(* Mutant: the checksum is left unescaped. *)
PackTranslateNoTail(s) ==
  FoldLeftDomain(LAMBDA acc, i : acc \o (IF i > 2 /\ i <= Len(s) - 2 /\ s[i] = FE
                                           THEN <<FE, TA>> ELSE <<s[i]>>), <<>>, s)

(* pack_translate: 0x5A behind every 0xFE but the two that open the packet.*)
(* What the first n bytes of s become:                                     *)
Escaped(s) ==
  LET out[n \in 0 .. Len(s)] ==
        IF n = 0 THEN <<>>
        ELSE out[n - 1] \o (IF n > 2 /\ s[n] = FE THEN <<FE, TA>> ELSE <<s[n]>>)
  IN  out
PackTranslate(s) == Escaped(s)[Len(s)]

(* pack_build: the length counts cmd, sn, payload and checksum. *)
PackBuild(cmd, pl, n) ==
  LET len  == Len(pl) + 4
      body == <<FE, FE, (len \div 256) % 256, len % 256, cmd, n>> \o pl
  IN  body \o <<Checksum(body) \div 256, Checksum(body) % 256>>

(* Mutant: the sequence number does not wrap. *)
SendNoWrap(pl) ==
  /\ noise + Len(sent) < MaxPackets
  /\ wire' = wire \o PackTranslate(PackBuild(Cmd, pl, sn))
  /\ sn' = sn + 1
  /\ sent' = Append(sent, <<Cmd, pl>>)
  /\ UNCHANGED <<noise, ring, read, write, scanVars, handled>>

(* uart_pro_send; gen_sn skips 0. *)
Send(pl) ==
  /\ noise + Len(sent) < MaxPackets
  /\ LET n == IF sn = 0 THEN 1 ELSE sn
     IN  /\ wire' = wire \o PackTranslate(PackBuild(Cmd, pl, n))
         /\ sn' = (n + 1) % 256
  /\ sent' = Append(sent, <<Cmd, pl>>)
  /\ UNCHANGED <<noise, ring, read, write, scanVars, handled>>

(* Stray bytes on the line. *)
Disturb(s) ==
  /\ noise + Len(sent) < MaxPackets
  /\ noise' = noise + 1
  /\ wire' = wire \o s
  /\ UNCHANGED <<sn, sent, ring, read, write, scanVars, handled>>

-----------------------------------------------------------------------------
(* Receiving.                                                              *)

(* One byte goes into the ring; when the ring is full the rest of the      *)
(* chunk is dropped.                                                       *)
Put(buffer, b) ==
  IF buffer.full THEN buffer
  ELSE LET w == Mask(buffer.write + 1)
       IN  [cells |-> [buffer.cells EXCEPT ![buffer.write] = b], write |-> w,
            full |-> Mask(read - w - 1) = 0]

(* The ring after the first bytes of a chunk. *)
Filled(chunk) ==
  LET after[k \in 0 .. Len(chunk)] ==
        IF k = 0 THEN [cells |-> ring, write |-> write, full |-> FALSE]
        ELSE Put(after[k - 1], chunk[k])
  IN  after

(* extract_pro_pkg is called: its locals are set. *)
ExtractStarts(r) ==
  /\ pc' = "scan" /\ p' = r /\ status' = "SYNC1" /\ recvLen' = 0 /\ slen' = 0

(* uart_pro_receive of a chunk of n bytes, then uart_pro_handle. *)
Receive(n) ==
  /\ pc = "idle"
  /\ n <= Len(wire)
  /\ SplitAfterFE \/ wire[n] # FE
  /\ LET after == Filled(SubSeq(wire, 1, n))[n]
     IN  ring' = after.cells /\ write' = after.write
  /\ wire' = SubSeq(wire, n + 1, Len(wire))
  /\ ExtractStarts(read)
  /\ UNCHANGED <<sn, sent, noise, read, handled>>

(* extract_pro_pkg has come to the end of the ring: -1, and handle returns *)
ScanEnds ==
  /\ pc = "scan"
  /\ p = write
  /\ pc' = "idle"
  /\ UNCHANGED <<sendVars, ring, read, write, p, status, recvLen, slen, handled>>

(* extract_trans_char: is this 0xFE the first or second of a packet, an    *)
(* escaped byte, or illegal?  It looks at both neighbours, arrived or not. *)
ExtractTransChar(data) ==
  CASE data # FE -> [status |-> status, p |-> p, read |-> read, legal |-> TRUE]
    [] data = FE /\ Cell(p + 1) = FE ->
         [status |-> "SYNC1", p |-> p, read |-> p, legal |-> TRUE]
    [] data = FE /\ Cell(p + 1) # FE /\ Cell(p - 1) = FE ->
         [status |-> "SYNC2", p |-> p, read |-> Mask(p - 1), legal |-> TRUE]
    [] data = FE /\ FE \notin {Cell(p + 1), Cell(p - 1)} /\ Cell(p + 1) = TA
       /\ status \in {"LEN_L", "PL"} ->
         [status |-> status, p |-> Mask(p + 1), read |-> read, legal |-> TRUE]
    [] OTHER ->
         [status |-> "SYNC1", p |-> Mask(p + 1), read |-> Mask(p + 1), legal |-> FALSE]

(* Mutant: the escapes are read out as well. *)
ReadOutEscapes(from, n) ==
  FoldLeft(LAMBDA acc, i :
             IF acc.empty \/ acc.read = write THEN [acc EXCEPT !.empty = TRUE]
             ELSE [empty |-> FALSE, bytes |-> Append(acc.bytes, Cell(acc.read)),
                   read |-> Mask(acc.read + 1)],
           [empty |-> FALSE, bytes |-> <<>>, read |-> from],
           [i \in 1 .. n |-> i])

(* Reading n bytes out of the ring from read on, without the escapes. *)
TakeByte(acc, i) ==
  IF acc.empty \/ acc.read = write THEN [acc EXCEPT !.empty = TRUE]
  ELSE LET b == Cell(acc.read)
       IN  [empty |-> FALSE, bytes |-> Append(acc.bytes, b),
            read |-> Mask(acc.read + (IF i > 2 /\ b = FE THEN 2 ELSE 1))]
ReadOuts(from, n) ==
  LET after[i \in 0 .. n] ==
        IF i = 0 THEN [empty |-> FALSE, bytes |-> <<>>, read |-> from]
        ELSE TakeByte(after[i - 1], i)
  IN  after
ReadOut(from, n) == ReadOuts(from, n)[n]

(* pack_handle: a packet whose checksum is right goes to the callback. *)
PackHandle(s) ==
  LET len == Len(s)
  IN  IF Checksum(SubSeq(s, 1, len - 2)) = s[len - 1] * 256 + s[len]
        THEN handled' = Append(handled, <<s[5], SubSeq(s, 7, len - 2)>>)
        ELSE UNCHANGED handled

(* One turn of the loop of extract_pro_pkg: a 0xFE that is illegal. *)
ScanIllegal ==
  /\ pc = "scan"
  /\ p # write
  /\ LET c == ExtractTransChar(Cell(p))
     IN  /\ ~c.legal
         /\ status' = c.status /\ p' = c.p /\ read' = c.read
  /\ UNCHANGED <<sendVars, ring, write, pc, recvLen, slen, handled>>

(* The parser's states up to the length. *)
ScanHead ==
  /\ pc = "scan"
  /\ p # write
  /\ LET data == Cell(p)
         c == ExtractTransChar(data)
         Go(s, n, cut) ==
           /\ status' = s /\ recvLen' = n % U16 /\ read' = Mask(c.read + cut)
           /\ p' = Mask(c.p + 1)
     IN  /\ c.legal
         /\ \/ c.status = "SYNC1" /\ data = FE /\ Go("SYNC2", 1, 0) /\ UNCHANGED slen
            \/ c.status = "SYNC1" /\ data # FE /\ Go("SYNC1", recvLen, 1) /\ UNCHANGED slen
            \/ /\ c.status = "SYNC2"
               /\ IF data = FE THEN Go("LEN_H", recvLen + 1, 0) ELSE Go("SYNC1", 0, 2)
               /\ UNCHANGED slen
            \/ c.status = "LEN_H" /\ Go("LEN_L", recvLen + 1, 0) /\ slen' = data
            \/ /\ c.status = "LEN_L"
               /\ Go("PL", recvLen + 1, 0)
               /\ slen' = (slen % 256) * 256 + data
  /\ UNCHANGED <<sendVars, ring, write, pc, handled>>

(* A byte of the packet that is not its last. *)
ScanBody ==
  /\ pc = "scan"
  /\ p # write
  /\ LET c == ExtractTransChar(Cell(p))
     IN  /\ c.legal /\ c.status = "PL"
         /\ (recvLen + 1) % U16 # slen + 4
         /\ status' = "PL" /\ recvLen' = (recvLen + 1) % U16 /\ read' = c.read /\ p' = Mask(c.p + 1)
  /\ UNCHANGED <<sendVars, ring, write, pc, slen, handled>>

(* The last: the packet is read out and handled, and the next one looked   *)
(* for.                                                                    *)
ScanComplete ==
  /\ pc = "scan"
  /\ p # write
  /\ LET c == ExtractTransChar(Cell(p))
         packet == ReadOut(c.read, recvLen + 1)
     IN  /\ c.legal /\ c.status = "PL"
         /\ (recvLen + 1) % U16 = slen + 4
         /\ read' = packet.read
         /\ \/ /\ ~packet.empty
               /\ PackHandle(packet.bytes)
               /\ ExtractStarts(packet.read)
            \/ /\ packet.empty
               /\ pc' = "idle"
               /\ UNCHANGED <<p, status, recvLen, slen, handled>>
  /\ UNCHANGED <<sendVars, ring, write>>

-----------------------------------------------------------------------------
(* What uart_pro_handle does once a chunk is in the ring. *)
Handle == ScanEnds \/ ScanIllegal \/ ScanHead \/ ScanBody \/ ScanComplete

UartInit ==
  /\ sn \in FirstSn /\ sent = <<>> /\ wire = <<>>
  /\ \E b \in Garbage : ring = [i \in 0 .. RbufLen - 1 |-> b]
  /\ read \in StartAt /\ write = read
  /\ pc = "idle" /\ p = 0 /\ status = "SYNC1" /\ recvLen = 0 /\ slen = 0
  /\ handled = <<>> /\ noise = 0

UartNext ==
  \/ \E pl \in Payload : Send(pl)
  \/ \E s \in Noise : Disturb(s)
  \/ \E n \in 1 .. MaxChunk : Receive(n)
  \/ Handle

UartSpec == UartInit /\ [][UartNext]_uartVars
-----------------------------------------------------------------------------
(* Properties *)

Cursor == 0 .. RbufLen - 1

UartTypeOK ==
  /\ sn \in Byte /\ wire \in Seq(Byte) /\ ring \in [Cursor -> Byte]
  /\ read \in Cursor /\ write \in Cursor /\ p \in Cursor
  /\ pc \in {"idle", "scan"}
  /\ status \in {"SYNC1", "SYNC2", "LEN_H", "LEN_L", "PL"}
  /\ recvLen \in 0 .. U16 - 1 /\ slen \in 0 .. U16 - 1

(* What the protocol relies on: no chunk ends with a 0xFE, nor do stray    *)
(* bytes or a chain of 0xFEs among them, and a packet that has arrived but *)
(* for its end leaves room for the next chunk.  In the code the ring has   *)
(* 1024 bytes, a packet with its escapes 256, and a chunk at most 128.     *)
UartFits ==
  /\ ~SplitAfterFE
  /\ FE \notin Garbage
  /\ \A s \in Noise : \A k \in 1 .. Len(s) : s[k] = FE => k < Len(s) /\ s[k + 1] # FE
  /\ \A pl \in Payload : \A n \in Byte :
       /\ Len(pl) + 4 < FE * 256
       /\ Len(PackTranslate(PackBuild(Cmd, pl, n))) + MaxChunk <= RbufLen

(* The callback sees the packets that were sent, unaltered and in order,   *)
(* whatever stray bytes lie between them.                                  *)
HandledInOrder == IsPrefix(handled, sent)

(* Once every byte has arrived and handle has returned every packet has    *)
(* been handed to the callback, and the ring is empty: complete packets    *)
(* are notified through the callback (uart_protocol.h:80).                 *)
AllHandled == pc = "idle" /\ wire = <<>> => handled = sent /\ read = write

=============================================================================
