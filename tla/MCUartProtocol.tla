--------------------------- MODULE MCUartProtocol ---------------------------
(* Model checking of UartProtocol: payloads that need every escape,        *)
(* sequence numbers before 0xFE and the wrap, and 190, with which the      *)
(* checksum of an empty payload ends in 0xFE.                              *)
EXTENDS UartProtocol

MCPayload == {<<>>, <<FE>>, <<TA>>, <<FE, TA>>, <<FE, FE>>}
MCFirstSn == {1, 190, 253, 255}

(* Not FE: in front of a stray 0xFE it would pass for a packet's first.    *)
MCGarbage == {0, TA}

(* A lone byte, and a lone 0xFE in front of two kinds of byte. *)
MCNoise == {<<1>>, <<FE, 1>>, <<FE, TA>>}
=============================================================================
