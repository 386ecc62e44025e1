------------------------------ MODULE MCFlash ------------------------------
(* Model checking of Flash: a partition of one block and one of three, and *)
(* calls that begin in the middle of a block, fill it, or reach the end of *)
(* the device.                                                             *)
EXTENDS Flash

MCPartitions == <<1, 3>>
MCRanges == {<<1, 2>>, <<3, 2>>, <<4, 4>>}
=============================================================================
