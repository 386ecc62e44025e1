------------------------------- MODULE Lists -------------------------------
(***************************************************************************)
(* The walk over a list that takes entries out, as the managers write it   *)
(* with list_for_each_safe and list_del (include/utils/list.h).            *)
(***************************************************************************)
EXTENDS Integers, Sequences

(* What is left of the first n entries when those in T are taken out. *)
Left(s, T) ==
  LET left[n \in 0 .. Len(s)] ==
        IF n = 0 THEN <<>>
        ELSE IF s[n] \in T THEN left[n - 1] ELSE Append(left[n - 1], s[n])
  IN  left

Without(s, T) == Left(s, T)[Len(s)]
=============================================================================
