----------------------------- MODULE MCDevices -----------------------------
(* Model checking of the modules that Devices puts side by side.           *)
EXTENDS Devices

(* Payloads that need every escape, sequence numbers before 0xFE and the   *)
(* wrap, and 190, with which the checksum of an empty payload ends in      *)
(* 0xFE.                                                                   *)
MCPayload == {<<>>, <<FE>>, <<TA>>, <<FE, TA>>, <<FE, FE>>}
MCFirstSn == {1, 190, 253, 255}

(* Not FE: in front of a stray 0xFE it would pass for a packet's first.    *)
MCGarbage == {0, TA}

(* A lone byte, and a lone 0xFE in front of two kinds of byte. *)
MCNoise == {<<1>>, <<FE, 1>>, <<FE, TA>>}

(* A partition of one block and one of three; ranges of calls that begin   *)
(* in the middle of a block and end in the middle of the next, fill one,   *)
(* and reach the end of the device.                                        *)
MCPartitions == <<1, 3>>
MCRanges == {<<1, 2>>, <<3, 2>>, <<4, 4>>}

(* After a race of inits or deinits the properties of the serial ports     *)
(* claim nothing: those states are not followed.  No other part races.     *)
UntilRaced == ~raced

(* These payloads, stray bytes and chunks keep what the theorems about     *)
(* UartProtocol assume.                                                    *)
ASSUME MCUartFits == UartFits
=============================================================================
