----------------------------- MODULE RingBuffer -----------------------------
(***************************************************************************)
(* ring_buffer/ring_buffer.c: one struct ring_buffer and the calls of its  *)
(* only user (callers share it under a lock of their own).                 *)
(***************************************************************************)
EXTENDS Integers, Sequences

CONSTANTS RingByte,   (* what a cell holds                                 *)
          Zero,       (* what calloc leaves in a cell                      *)
          MaxCap,     (* bound: the capacity set                           *)
          MaxPush     (* bound: bytes in one push                          *)

ASSUME RingBufferAssumption ==
  /\ Zero \in RingByte
  /\ MaxCap \in Nat \ {0}
  /\ MaxPush \in Nat

VARIABLES
  capacity, head, tail,
  available,   (* available_size: the bytes that can be popped             *)
  buffer,      (* the cells 0 .. capacity - 1                              *)
  out,         (* what the last pop copied out                             *)
  lag          (* how far head is behind the first free cell               *)

ringVars == <<capacity, head, tail, available, buffer, out, lag>>

Data == UNION {[1 .. n -> RingByte] : n \in 0 .. MaxPush}

MIN(a, b) == IF a < b THEN a ELSE b

(* _new: calloc and construct_ring_buffer *)
RingInit ==
  /\ capacity = 0
  /\ head = 0
  /\ tail = 0
  /\ available = 0
  /\ buffer = <<>>
  /\ out = <<>>
  /\ lag = 0

(* set_capacity: once, on a buffer without one. *)
SetCapacity(c) ==
  /\ capacity = 0
  /\ capacity' = c
  /\ buffer' = [i \in 0 .. c - 1 |-> Zero]
  /\ head' = 0
  /\ tail' = 0
  /\ UNCHANGED <<available, out, lag>>

(* Mutant: a grown buffer keeps its old tail. *)
PushWholeKeepsTail(data) ==
  /\ capacity > 0
  /\ Len(data) >= capacity
  /\ capacity' = Len(data)
  /\ head' = Len(data) - 1
  /\ available' = Len(data)
  /\ buffer' = [i \in 0 .. Len(data) - 1 |-> data[i + 1]]
  /\ lag' = IF Len(data) = 1 THEN 0 ELSE 1
  /\ UNCHANGED <<tail, out>>

(* push of at least a whole buffer: the data replaces what was there, in a *)
(* buffer that grows to hold it.                                           *)
PushWhole(data) ==
  /\ capacity > 0
  /\ Len(data) >= capacity
  /\ capacity' = Len(data)
  /\ tail' = 0
  /\ head' = Len(data) - 1
  /\ available' = Len(data)
  /\ buffer' = [i \in 0 .. Len(data) - 1 |-> data[i + 1]]
  /\ lag' = IF Len(data) = 1 THEN 0 ELSE 1
  /\ UNCHANGED out

(* Mutant: a push that does not fit writes all of its data. *)
PushOverrun(data) ==
  /\ Len(data) < capacity
  /\ LET count == Len(data)
     IN  /\ buffer' = [i \in 0 .. capacity - 1 |->
                         LET k == (i - head) % capacity
                         IN  IF k < count THEN data[k + 1] ELSE buffer[i]]
         /\ head' = (head + count) % capacity
         /\ available' = MIN(available + count, capacity)
  /\ UNCHANGED <<capacity, tail, out, lag>>

(* push of less: the loop writes what fits from head on. *)
Push(data) ==
  /\ Len(data) < capacity
  /\ LET count == MIN(capacity - available, Len(data))
     IN  /\ buffer' = [i \in 0 .. capacity - 1 |->
                         LET k == (i - head) % capacity
                         IN  IF k < count THEN data[k + 1] ELSE buffer[i]]
         /\ head' = (head + count) % capacity
         /\ available' = MIN(available + count, capacity)
  /\ UNCHANGED <<capacity, tail, out, lag>>

(* pop: the loop reads what there is from tail on. *)
Pop(size) ==
  /\ capacity > 0
  /\ size <= capacity
  /\ LET count == MIN(available, size)
     IN  /\ out' = [i \in 1 .. count |-> buffer[(tail + i - 1) % capacity]]
         /\ tail' = (tail + count) % capacity
         /\ available' = available - count
  /\ UNCHANGED <<capacity, head, buffer, lag>>

(* _delete: destruct_ring_buffer and free; the next user makes a new one. *)
Delete ==
  /\ capacity > 0
  /\ capacity' = 0
  /\ head' = 0
  /\ tail' = 0
  /\ available' = 0
  /\ buffer' = <<>>
  /\ out' = <<>>
  /\ lag' = 0

RingNext ==
  \/ \E c \in 1 .. MaxCap : SetCapacity(c)
  \/ \E data \in Data : Push(data) \/ PushWhole(data)
  \/ \E size \in 0 .. capacity : Pop(size)
  \/ Delete

RingSpec == RingInit /\ [][RingNext]_ringVars
-----------------------------------------------------------------------------
(* Properties *)

RingTypeOK ==
  /\ capacity \in Nat
  /\ lag \in {0, 1}
  /\ capacity = 0 =>
       head = 0 /\ tail = 0 /\ available = 0 /\ lag = 0 /\ buffer = <<>>
  /\ capacity > 0 =>
       /\ head \in 0 .. capacity - 1
       /\ tail \in 0 .. capacity - 1
       /\ available \in 0 .. capacity
       /\ buffer \in [0 .. capacity - 1 -> RingByte]
  /\ out \in Seq(RingByte)

(* The three cursors agree: head is the cell after the available bytes, or *)
(* after a whole-buffer push (which leaves head at size - 1 and not at 0)  *)
(* exactly one cell behind it, whatever is pushed and popped later.        *)
CursorsAgree ==
  capacity > 0 => head = (tail + available - lag) % capacity

(* The bytes pop will return. *)
Content == [i \in 1 .. available |-> buffer[(tail + i - 1) % capacity]]

(* While head lags the buffer is no FIFO queue: its next push overwrites a *)
(* byte.  The abstract queue is then gone, until the buffer is deleted.    *)
Fifo == lag = 0

BF == INSTANCE BoundedFifo WITH
        Capacity <- 1 .. MaxCap,
        cap <- IF Fifo THEN capacity ELSE 0,
        content <- IF Fifo THEN Content ELSE <<>>,
        out <- IF Fifo THEN out ELSE <<>>

(* Until the first whole-buffer push of more than one byte the ring buffer *)
(* is a bounded FIFO queue of bytes: nothing is lost, repeated or          *)
(* reordered when head and tail wrap round.                                *)
ImplementsFifo == BF!Spec

=============================================================================
