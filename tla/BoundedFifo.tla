---------------------------- MODULE BoundedFifo -----------------------------
(***************************************************************************)
(* What a ring buffer promises: the bytes pushed come out of pop once and  *)
(* in order, at most cap of them are kept, and a push that finds too little*)
(* room keeps the front of its data.                                       *)
(***************************************************************************)
EXTENDS Integers, Sequences

CONSTANTS Capacity,  (* the capacities a buffer can be given               *)
          Data       (* the sequences of bytes that can be pushed          *)

VARIABLES cap,      (* how many bytes fit; 0 while there is no buffer      *)
          content,  (* the bytes pushed and not yet popped, oldest first   *)
          out       (* what the last pop returned                          *)

fvars == <<cap, content, out>>

Least(a, b) == IF a < b THEN a ELSE b

Init == cap = 0 /\ content = <<>> /\ out = <<>>

Create(c) ==
  /\ cap = 0
  /\ cap' = c
  /\ content' = <<>>
  /\ UNCHANGED out

Push(d) ==
  /\ Len(d) < cap
  /\ content' = content \o SubSeq(d, 1, Least(cap - Len(content), Len(d)))
  /\ UNCHANGED <<cap, out>>

(* A push of no less than the capacity replaces what was there. *)
Replace(d) ==
  /\ cap > 0
  /\ Len(d) >= cap
  /\ cap' = Len(d)
  /\ content' = d
  /\ UNCHANGED out

Pop(n) ==
  /\ cap > 0
  /\ LET k == Least(Len(content), n)
     IN  /\ out' = SubSeq(content, 1, k)
         /\ content' = SubSeq(content, k + 1, Len(content))
  /\ UNCHANGED cap

Destroy ==
  /\ cap > 0
  /\ cap' = 0
  /\ content' = <<>>
  /\ out' = <<>>

Next ==
  \/ \E c \in Capacity : Create(c)
  \/ \E d \in Data : Push(d) \/ Replace(d)
  \/ \E n \in 0 .. cap : Pop(n)
  \/ Destroy

Spec == Init /\ [][Next]_fvars
=============================================================================
