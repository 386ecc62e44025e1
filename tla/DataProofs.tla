---------------------------- MODULE DataProofs ------------------------------
(***************************************************************************)
(* Proofs about RingBuffer and Flash, where data must come back in the     *)
(* order in which it was put.                                              *)
(***************************************************************************)
EXTENDS RingBuffer, Flash, ListsProofs, SequenceTheorems, TLAPS

-----------------------------------------------------------------------------
(***************************************************************************)
(* RingBuffer, for every capacity and every set of bytes.                  *)
(***************************************************************************)

(* Where head is, from tail, the available bytes and the lag. *)
LEMMA HeadTurn ==
  ASSUME NEW c \in Nat \ {0}, NEW t \in 0 .. c - 1, NEW v \in 0 .. c,
         NEW l \in {0, 1}
  PROVE  (t + v - l) % c = Turn(c, t + v - l)
<1> DEFINE a == t + v - l
<1>1. a \in Int /\ -c <= a /\ a - c < c
  OBVIOUS
<1> HIDE DEF a
<1>2. a % c = Turn(c, a)
  BY <1>1, ModTurn
<1>. QED BY <1>2 DEF a

-----------------------------------------------------------------------------
(* The inductive invariant: the types, and the agreement of the cursors.   *)
(* In a buffer of one cell head cannot lag.                                *)
IInv ==
  /\ RingTypeOK
  /\ CursorsAgree
  /\ capacity = 1 => lag = 0

LEMMA DataType ==
  ASSUME NEW data \in Data
  PROVE  /\ Len(data) \in Nat
         /\ \A i \in 1 .. Len(data) : data[i] \in RingByte
         /\ data \in Seq(RingByte)
<1>1. PICK n \in 0 .. MaxPush : data \in [1 .. n -> RingByte]
  BY DEF Data
<1>2. n \in Nat
  BY <1>1, RingBufferAssumption
<1>. QED BY <1>1, <1>2

LEMMA InitIInv == RingInit => IInv
BY DEF RingInit, IInv, RingTypeOK, CursorsAgree

(* A new buffer is empty. *)
LEMMA SetCapacityIInv ==
  ASSUME IInv, NEW c \in 1 .. MaxCap, SetCapacity(c)
  PROVE  IInv'
<1>1. c \in Nat \ {0} /\ available = 0 /\ lag = 0
  BY RingBufferAssumption DEF SetCapacity, IInv, RingTypeOK
<1>2. RingTypeOK'
  BY <1>1, RingBufferAssumption DEF SetCapacity, IInv, RingTypeOK
<1>3. CursorsAgree'
  BY <1>1 DEF SetCapacity, CursorsAgree
<1>. QED BY <1>1, <1>2, <1>3 DEF SetCapacity, IInv

(* A whole-buffer push starts afresh, with head one cell behind. *)
LEMMA PushWholeIInv ==
  ASSUME IInv, NEW data \in Data, PushWhole(data)
  PROVE  IInv'
<1> DEFINE n == Len(data)
<1>1. n \in Nat \ {0} /\ \A i \in 1 .. n : data[i] \in RingByte
  BY DataType DEF PushWhole, IInv, RingTypeOK
<1>2. RingTypeOK'
  BY <1>1 DEF PushWhole, IInv, RingTypeOK
<1>3. CursorsAgree'
  <2>1. CASE n = 1
    <3>1. head' = 0 /\ tail' + available' - lag' = 1 /\ capacity' = 1
      BY <2>1 DEF PushWhole
    <3>. QED BY <3>1 DEF CursorsAgree
  <2>2. CASE n # 1
    <3>1. head' = n - 1 /\ tail' + available' - lag' = n - 1 /\ capacity' = n
      BY <1>1, <2>2 DEF PushWhole
    <3>. QED BY <1>1, <3>1 DEF CursorsAgree
  <2>. QED BY <2>1, <2>2
<1>. QED BY <1>1, <1>2, <1>3 DEF PushWhole, IInv

(* A smaller push moves head and available by the same count. *)
LEMMA PushIInv ==
  ASSUME IInv, NEW data \in Data, Push(data)
  PROVE  IInv'
<1> DEFINE count == MIN(capacity - available, Len(data))
<1>1. Len(data) \in Nat /\ \A i \in 1 .. Len(data) : data[i] \in RingByte
  BY DataType
<1>2. Len(data) < capacity /\ UNCHANGED <<capacity, tail, out, lag>>
  BY DEF Push
<1>3. /\ capacity \in Nat \ {0}
      /\ head \in 0 .. capacity - 1 /\ tail \in 0 .. capacity - 1
      /\ available \in 0 .. capacity /\ lag \in {0, 1}
      /\ buffer \in [0 .. capacity - 1 -> RingByte]
  BY <1>1, <1>2 DEF IInv, RingTypeOK
<1>4. /\ head' = (head + count) % capacity
      /\ available' = MIN(available + count, capacity)
      /\ buffer' = [i \in 0 .. capacity - 1 |->
                      IF (i - head) % capacity < count
                      THEN data[((i - head) % capacity) + 1] ELSE buffer[i]]
  BY DEF Push
<1>5. count \in 0 .. capacity - available /\ count <= Len(data)
  BY <1>1, <1>3 DEF MIN
<1> HIDE DEF count
<1>6. available' = available + count
  <2>1. MIN(available + count, capacity) = available + count
    BY <1>3, <1>5 DEF MIN
  <2>. QED BY <1>4, <2>1
<1>7. buffer' \in [0 .. capacity - 1 -> RingByte]
  <2>1. ASSUME NEW i \in 0 .. capacity - 1, (i - head) % capacity < count
        PROVE  data[((i - head) % capacity) + 1] \in RingByte
    <3> DEFINE k == (i - head) % capacity
    <3>1. k \in 0 .. capacity - 1 /\ k < count
      BY <1>3, <2>1, Distance
    <3> HIDE DEF k
    <3>2. k + 1 \in 1 .. Len(data)
      BY <1>1, <1>3, <1>5, <3>1
    <3>3. data[k + 1] \in RingByte
      BY <1>1, <3>2
    <3>. QED BY <3>3 DEF k
  <2>. QED BY <1>3, <1>4, <2>1
<1>8. count \in 0 .. capacity
  BY <1>3, <1>5
<1>9. head' \in 0 .. capacity - 1 /\ head' = Turn(capacity, head + count)
  BY <1>3, <1>4, <1>8, Advance
<1>10. RingTypeOK'
  <2>1. capacity' = capacity /\ tail' \in 0 .. capacity - 1 /\ lag' \in {0, 1}
        /\ available' \in 0 .. capacity
    BY <1>2, <1>3, <1>5, <1>6
  <2>2. out' \in Seq(RingByte)
    BY <1>2 DEF IInv, RingTypeOK
  <2>. QED BY <1>3, <1>7, <1>9, <2>1, <2>2 DEF RingTypeOK
<1>11. CursorsAgree'
  <2>1. head = (tail + available - lag) % capacity
    BY <1>3 DEF IInv, CursorsAgree
  <2>2. head = Turn(capacity, tail + available - lag)
    BY <1>3, <2>1, HeadTurn
  <2>3. available + count \in 0 .. capacity
    BY <1>3, <1>5
  <2>4. (tail + (available + count) - lag) % capacity
          = Turn(capacity, tail + (available + count) - lag)
    BY <1>3, <2>3, HeadTurn
  <2>5. Turn(capacity, head + count) = Turn(capacity, tail + (available + count) - lag)
    BY <1>3, <1>5, <2>2 DEF Turn
  <2>6. head' = (tail + (available + count) - lag) % capacity
    BY <1>9, <2>4, <2>5
  <2>. QED BY <1>2, <1>6, <2>6 DEF CursorsAgree
<1>. QED BY <1>2, <1>10, <1>11 DEF IInv

(* A pop moves tail forward and available back by the same count. *)
LEMMA PopIInv ==
  ASSUME IInv, NEW size \in 0 .. capacity, Pop(size)
  PROVE  IInv'
<1> DEFINE count == MIN(available, size)
<1>1. /\ capacity \in Nat \ {0} /\ size \in 0 .. capacity
      /\ head \in 0 .. capacity - 1 /\ tail \in 0 .. capacity - 1
      /\ available \in 0 .. capacity /\ lag \in {0, 1}
      /\ buffer \in [0 .. capacity - 1 -> RingByte]
  BY DEF Pop, IInv, RingTypeOK
<1>2. /\ available' = available - count
      /\ tail' = (tail + count) % capacity
      /\ out' = [i \in 1 .. count |-> buffer[(tail + i - 1) % capacity]]
  BY DEF Pop
<1>3. UNCHANGED <<capacity, head, buffer, lag>>
  BY DEF Pop
<1>4. count \in 0 .. available
  BY <1>1 DEF MIN
<1> HIDE DEF count
<1>5. count \in 0 .. capacity /\ available - count \in 0 .. capacity
  BY <1>1, <1>4
<1>6. tail' \in 0 .. capacity - 1 /\ tail' = Turn(capacity, tail + count)
  BY <1>1, <1>2, <1>5, Advance
<1>7. out' \in Seq(RingByte)
  <2>1. ASSUME NEW i \in 1 .. count PROVE buffer[(tail + i - 1) % capacity] \in RingByte
    <3> DEFINE n == i - 1
    <3>1. n \in 0 .. capacity /\ tail + i - 1 = tail + n
      BY <1>1, <1>5
    <3> HIDE DEF n
    <3>2. (tail + n) % capacity \in 0 .. capacity - 1
      BY <1>1, <3>1, Advance
    <3>. QED BY <1>1, <3>1, <3>2
  <2>2. \A i \in 1 .. count : out'[i] \in RingByte
    BY <1>2, <2>1
  <2>3. DOMAIN out' = 1 .. count /\ count \in Nat
    BY <1>2, <1>5
  <2>4. out' \in [1 .. count -> RingByte]
    BY <1>2, <2>2, <2>3
  <2>. QED BY <2>3, <2>4
<1>8. RingTypeOK'
  BY <1>1, <1>2, <1>3, <1>5, <1>6, <1>7 DEF RingTypeOK
<1>9. CursorsAgree'
  <2>1. head = (tail + available - lag) % capacity
    BY <1>1 DEF IInv, CursorsAgree
  <2>2. head = Turn(capacity, tail + available - lag)
    BY <1>1, <2>1, HeadTurn
  <2>3. (tail' + (available - count) - lag) % capacity
          = Turn(capacity, tail' + (available - count) - lag)
    BY <1>1, <1>5, <1>6, HeadTurn
  <2>4. Turn(capacity, tail + available - lag)
          = Turn(capacity, Turn(capacity, tail + count) + (available - count) - lag)
    BY <1>1, <1>4 DEF Turn
  <2>5. head' = (tail' + available' - lag') % capacity'
    BY <1>2, <1>3, <1>6, <2>2, <2>3, <2>4
  <2>. QED BY <2>5 DEF CursorsAgree
<1>. QED BY <1>3, <1>8, <1>9 DEF IInv

(* Every step preserves the invariant. *)
LEMMA StepIInv == IInv /\ [RingNext]_ringVars => IInv'
<1> SUFFICES ASSUME IInv, [RingNext]_ringVars PROVE IInv'
  OBVIOUS
<1>1. ASSUME NEW c \in 1 .. MaxCap, SetCapacity(c) PROVE IInv'
  BY <1>1, SetCapacityIInv
<1>2. ASSUME NEW data \in Data, Push(data) \/ PushWhole(data) PROVE IInv'
  BY <1>2, PushIInv, PushWholeIInv
<1>3. ASSUME NEW size \in 0 .. capacity, Pop(size) PROVE IInv'
  BY <1>3, PopIInv
<1>4. CASE Delete
  BY <1>4 DEF Delete, IInv, RingTypeOK, CursorsAgree
<1>5. CASE UNCHANGED ringVars
  BY <1>5 DEF ringVars, IInv, RingTypeOK, CursorsAgree
<1>. QED BY <1>1, <1>2, <1>3, <1>4, <1>5 DEF RingNext

(* The cursors of the ring buffer agree and stay inside the buffer, for    *)
(* every capacity and every sequence of push and pop calls.                *)
THEOREM RingInvariant == RingSpec => []IInv
<1>. QED BY InitIInv, StepIInv, PTL DEF RingSpec

(* head is where the available bytes end, or one cell behind it. *)
THEOREM CursorsAlwaysAgree == RingSpec => [](RingTypeOK /\ CursorsAgree)
<1>1. IInv => RingTypeOK /\ CursorsAgree
  BY DEF IInv
<1>. QED BY <1>1, RingInvariant, PTL
-----------------------------------------------------------------------------
(* The refinement of BoundedFifo. *)

(* Content lists the cells that hold the available bytes, oldest first. *)
ContentInv ==
  capacity > 0 =>
    /\ Content \in Seq(RingByte)
    /\ Len(Content) = available
    /\ \A i \in 1 .. available :
         /\ Content[i] = buffer[(tail + (i - 1)) % capacity]
         /\ (tail + (i - 1)) % capacity \in 0 .. capacity - 1

LEMMA ContentType == IInv => ContentInv
<1> SUFFICES ASSUME IInv, capacity > 0 PROVE ContentInv
  BY DEF ContentInv
<1>1. /\ capacity \in Nat \ {0} /\ tail \in 0 .. capacity - 1
      /\ available \in 0 .. capacity
      /\ buffer \in [0 .. capacity - 1 -> RingByte]
  BY DEF IInv, RingTypeOK
<1>2. ASSUME NEW i \in 1 .. available
      PROVE  (tail + (i - 1)) % capacity \in 0 .. capacity - 1
  <2>1. i - 1 \in 0 .. capacity
    BY <1>1
  <2>. QED BY <1>1, <2>1, Advance
<1>3. \A i \in 1 .. available : tail + i - 1 = tail + (i - 1)
  BY <1>1
<1>4. Content = [i \in 1 .. available |-> buffer[(tail + (i - 1)) % capacity]]
  BY <1>3 DEF Content
<1>5. Content \in [1 .. available -> RingByte]
  BY <1>1, <1>2, <1>4
<1>6. Content \in Seq(RingByte) /\ DOMAIN Content = 1 .. available
  BY <1>1, <1>5
<1>7. Len(Content) = available
  BY <1>1, <1>6
<1>8. \A i \in 1 .. available : Content[i] = buffer[(tail + (i - 1)) % capacity]
  BY <1>4
<1>. QED BY <1>2, <1>6, <1>7, <1>8 DEF ContentInv

(* A push that fits in part appends the front of its data. *)
LEMMA PushRefines ==
  ASSUME IInv, NEW data \in Data, Push(data), lag = 0
  PROVE  BF!Push(data)
<1> DEFINE count == MIN(capacity - available, Len(data))
           front == SubSeq(data, 1, count)
<1>1. data \in Seq(RingByte) /\ Len(data) \in Nat
  BY DataType
<1>2. Len(data) < capacity /\ UNCHANGED <<capacity, tail, out, lag>>
  BY DEF Push
<1>3. /\ capacity \in Nat \ {0} /\ tail \in 0 .. capacity - 1
      /\ available \in 0 .. capacity /\ capacity > 0
  BY <1>1, <1>2 DEF IInv, RingTypeOK
<1>4. count \in 0 .. capacity - available /\ count <= Len(data)
  BY <1>1, <1>3 DEF MIN
<1>5. IInv'
  BY PushIInv
<1>6. available' = available + count
  <2>1. MIN(available + count, capacity) = available + count
    BY <1>3, <1>4 DEF MIN
  <2>. QED BY <2>1 DEF Push
<1>7. /\ Content' \in Seq(RingByte) /\ Len(Content') = available + count
      /\ \A i \in 1 .. available + count :
           /\ Content'[i] = buffer'[(tail + (i - 1)) % capacity]
           /\ (tail + (i - 1)) % capacity \in 0 .. capacity - 1
  <2>1. capacity' > 0
    BY <1>2, <1>3
  <2>2. ContentInv'
    BY <1>5, ContentType, PTL
  <2>. QED BY <1>2, <1>6, <2>1, <2>2 DEF ContentInv
<1>8. /\ Content \in Seq(RingByte) /\ Len(Content) = available
      /\ \A i \in 1 .. available : Content[i] = buffer[(tail + (i - 1)) % capacity]
  BY <1>3, ContentType DEF ContentInv
<1>9. /\ front \in Seq(RingByte) /\ Len(front) = count
      /\ \A i \in 1 .. count : front[i] = data[i]
  BY <1>1, <1>4
<1>10. head = (tail + available) % capacity
  <2>1. tail + available - lag = tail + available
    BY <1>3
  <2>. QED BY <1>3, <2>1 DEF IInv, CursorsAgree
<1>11. buffer' = [i \in 0 .. capacity - 1 |->
                    IF (i - head) % capacity < count
                    THEN data[((i - head) % capacity) + 1] ELSE buffer[i]]
  BY DEF Push
<1>12. BF!Least(capacity - available, Len(data)) = count
  BY DEF BF!Least, MIN
<1> HIDE DEF count, front
<1>13. /\ Content \o front \in Seq(RingByte)
       /\ Len(Content \o front) = available + count
       /\ \A i \in 1 .. available + count :
            (Content \o front)[i] = IF i <= available THEN Content[i]
                                    ELSE front[i - available]
  <2>1. Content \in Seq(RingByte) /\ front \in Seq(RingByte)
    BY <1>8, <1>9
  <2>2. /\ Content \o front \in Seq(RingByte)
        /\ Len(Content \o front) = Len(Content) + Len(front)
        /\ \A i \in 1 .. Len(Content) + Len(front) :
             (Content \o front)[i] = IF i <= Len(Content) THEN Content[i]
                                     ELSE front[i - Len(Content)]
    BY <2>1, ConcatProperties
  <2>3. Len(Content) = available /\ Len(front) = count
    BY <1>8, <1>9
  <2>. QED BY <2>2, <2>3
<1>14. ASSUME NEW i \in 1 .. available + count
       PROVE  Content'[i] = (Content \o front)[i]
  <2> DEFINE j == i - 1
             x == (tail + j) % capacity
  <2>1. j \in 0 .. capacity - 1
    BY <1>3, <1>4
  <2>2. (x - head) % capacity
          = IF j < available THEN capacity - available + j ELSE j - available
    BY <1>3, <1>10, <2>1, Between
  <2>3. x \in 0 .. capacity - 1 /\ Content'[i] = buffer'[x]
    BY <1>7
  <2> HIDE DEF x
  <2>4. CASE i <= available
    <3>1. ~ ((x - head) % capacity < count)
      BY <1>3, <1>4, <2>2, <2>4
    <3>2. buffer'[x] = buffer[x]
      BY <1>11, <2>3, <3>1
    <3>3. Content[i] = buffer[x]
      <4>1. i \in 1 .. available
        BY <1>3, <2>4
      <4>2. Content[i] = buffer[(tail + (i - 1)) % capacity]
        BY <1>8, <4>1
      <4>. QED BY <4>2 DEF x
    <3>. QED BY <1>13, <2>3, <2>4, <3>2, <3>3
  <2>5. CASE ~ (i <= available)
    <3>1. (x - head) % capacity = i - available - 1
      BY <1>3, <2>2, <2>5
    <3>2. i - available \in 1 .. count
      BY <1>3, <1>4, <2>5
    <3>3. (x - head) % capacity < count
      BY <1>3, <1>4, <3>1, <3>2
    <3>4. buffer'[x] = data[((x - head) % capacity) + 1]
      BY <1>11, <2>3, <3>3
    <3>5. ((x - head) % capacity) + 1 = i - available
      BY <1>3, <1>4, <3>1
    <3>6. buffer'[x] = front[i - available]
      BY <1>9, <3>2, <3>4, <3>5
    <3>. QED BY <1>13, <2>3, <2>5, <3>6
  <2>. QED BY <2>4, <2>5
<1>15. Content' = Content \o front
  BY <1>3, <1>4, <1>7, <1>13, <1>14, SeqEqual
<1>16. Content' = Content \o SubSeq(data, 1, BF!Least(capacity - Len(Content), Len(data)))
  BY <1>8, <1>12, <1>15 DEF front
<1>. QED BY <1>2, <1>16 DEF BF!Push, Fifo

(* A pop takes the front of the content and leaves the rest. *)
LEMMA PopRefines ==
  ASSUME IInv, NEW size \in 0 .. capacity, Pop(size), lag = 0
  PROVE  BF!Pop(size)
<1> DEFINE count == MIN(available, size)
           remaining == SubSeq(Content, count + 1, available)
           front == SubSeq(Content, 1, count)
<1>1. /\ capacity > 0 /\ UNCHANGED <<capacity, buffer, lag>>
      /\ available' = available - count
      /\ tail' = (tail + count) % capacity
      /\ out' = [i \in 1 .. count |-> buffer[(tail + i - 1) % capacity]]
  BY DEF Pop
<1>2. /\ capacity \in Nat \ {0} /\ size \in 0 .. capacity
      /\ tail \in 0 .. capacity - 1 /\ available \in 0 .. capacity
  BY <1>1 DEF IInv, RingTypeOK
<1>3. count \in 0 .. available
  BY <1>2 DEF MIN
<1>4. ContentInv /\ capacity > 0
  BY <1>1, ContentType
<1>5. ContentInv'
  <2>1. IInv'
    BY PopIInv
  <2>. QED BY <2>1, ContentType, PTL
<1>6. Content \in Seq(RingByte) /\ Len(Content) = available
  BY <1>4 DEF ContentInv
<1>7. BF!Least(Len(Content), size) = count
  BY <1>6 DEF BF!Least, MIN
<1>8. \A i \in 1 .. available : Content[i] \in RingByte
  BY <1>6
<1> HIDE DEF count
<1>9. /\ front \in Seq(RingByte) /\ Len(front) = count
      /\ \A i \in 1 .. count : front[i] = Content[i]
  <2>1. \A i \in 1 .. count : Content[i] \in RingByte
    BY <1>2, <1>3, <1>8
  <2>2. 1 \in Int /\ count \in Int /\ count >= 0
    BY <1>3
  <2>3. /\ SubSeq(Content, 1, count) \in Seq(RingByte)
        /\ Len(SubSeq(Content, 1, count)) = IF 1 <= count THEN count - 1 + 1 ELSE 0
        /\ \A i \in 1 .. count - 1 + 1 : SubSeq(Content, 1, count)[i] = Content[1 + i - 1]
    BY <2>1, <2>2, SubSeqProperties
  <2>. QED BY <2>2, <2>3
<1>10. /\ remaining \in Seq(RingByte) /\ Len(remaining) = available - count
       /\ \A i \in 1 .. available - count : remaining[i] = Content[count + i]
  <2>1. \A i \in count + 1 .. available : Content[i] \in RingByte
    BY <1>2, <1>3, <1>8
  <2>2. count \in Nat /\ count + 1 \in Int /\ available \in Nat /\ count <= available
    BY <1>2, <1>3
  <2> DEFINE m == count + 1
  <2>3. m \in Int
    BY <2>2
  <2> HIDE DEF m
  <2>4. /\ SubSeq(Content, m, available) \in Seq(RingByte)
        /\ Len(SubSeq(Content, m, available))
             = IF m <= available THEN available - m + 1 ELSE 0
        /\ \A i \in 1 .. available - m + 1 :
             SubSeq(Content, m, available)[i] = Content[m + i - 1]
    BY <2>1, <2>2, <2>3, SubSeqProperties DEF m
  <2>5. m = count + 1
    BY DEF m
  <2>6. \A i \in 1 .. available - count :
          SubSeq(Content, m, available)[i] = Content[count + i]
    <3>1. \A i \in 1 .. available - count : i \in 1 .. available - m + 1
      BY <2>2, <2>5
    <3>2. \A i \in 1 .. available - count : m + i - 1 = count + i
      BY <2>2, <2>5
    <3>. QED BY <2>4, <3>1, <3>2
  <2>7. Len(SubSeq(Content, m, available)) = available - count
    BY <2>2, <2>4, <2>5
  <2>. QED BY <2>4, <2>5, <2>6, <2>7
<1>11. out' = front
  <2>1. ASSUME NEW i \in 1 .. count
        PROVE  out'[i] = front[i]
    <3>1. i \in 1 .. available /\ tail + i - 1 = tail + (i - 1)
      BY <1>2, <1>3
    <3>2. front[i] = Content[i] /\ Content[i] = buffer[(tail + (i - 1)) % capacity]
      BY <1>4, <1>9, <3>1 DEF ContentInv
    <3>. QED BY <1>1, <3>1, <3>2
  <2>2. out' \in Seq(RingByte)
    BY PopIInv DEF IInv, RingTypeOK
  <2>3. Len(out') = count
    BY <1>1, <1>3, <2>2
  <2>. QED BY <1>9, <2>1, <2>2, <2>3, SeqEqual
<1>12. Content' = remaining
  <2>1. /\ Content' \in Seq(RingByte) /\ Len(Content') = available - count
        /\ \A i \in 1 .. available - count :
             Content'[i] = buffer[(tail' + (i - 1)) % capacity]
    BY <1>1, <1>2, <1>5 DEF ContentInv
  <2>2. ASSUME NEW i \in 1 .. available - count
        PROVE  Content'[i] = remaining[i]
    <3>1. count + i \in 1 .. available /\ i - 1 \in 0 .. capacity
          /\ count \in 0 .. capacity /\ count + (i - 1) <= capacity
      BY <1>2, <1>3
    <3> DEFINE j == i - 1
    <3> HIDE DEF j
    <3>2. j \in 0 .. capacity /\ count + j <= capacity
      BY <3>1 DEF j
    <3>3. (((tail + count) % capacity) + j) % capacity = (tail + (count + j)) % capacity
      BY <1>2, <3>1, <3>2, TwoSteps
    <3>4. Content[count + i] = buffer[(tail + (count + j)) % capacity]
      <4>1. Content[count + i] = buffer[(tail + ((count + i) - 1)) % capacity]
        BY <1>4, <3>1 DEF ContentInv
      <4>2. (count + i) - 1 = count + j
        BY <1>3 DEF j
      <4>. QED BY <4>1, <4>2
    <3>5. Content'[i] = buffer[(tail' + j) % capacity]
      BY <2>1 DEF j
    <3>. QED BY <1>1, <1>10, <3>3, <3>4, <3>5
  <2>. QED BY <1>2, <1>3, <1>10, <2>1, <2>2, SeqEqual
<1>13. /\ out' = SubSeq(Content, 1, BF!Least(Len(Content), size))
       /\ Content' = SubSeq(Content, BF!Least(Len(Content), size) + 1, Len(Content))
  BY <1>6, <1>7, <1>11, <1>12
<1>. QED BY <1>1, <1>13 DEF BF!Pop, Fifo

(* The data of a whole-buffer push becomes the content, unless head is     *)
(* then one cell behind: the queue is gone.                                *)
LEMMA PushWholeRefines ==
  ASSUME IInv, NEW data \in Data, PushWhole(data)
  PROVE  BF!Replace(data) \/ BF!Destroy \/ UNCHANGED BF!fvars
<1>1. /\ capacity > 0 /\ Len(data) >= capacity
      /\ capacity' = Len(data) /\ tail' = 0 /\ available' = Len(data)
      /\ buffer' = [i \in 0 .. Len(data) - 1 |-> data[i + 1]]
      /\ lag' = IF Len(data) = 1 THEN 0 ELSE 1
      /\ UNCHANGED out
  BY DEF PushWhole
<1>2. capacity \in Nat \ {0} /\ lag \in {0, 1} /\ (capacity = 1 => lag = 0)
  BY <1>1 DEF IInv, RingTypeOK
<1>3. data \in Seq(RingByte) /\ Len(data) \in Nat
  BY DataType
<1>4. CASE Len(data) = 1
  <2>1. capacity = 1 /\ lag = 0 /\ lag' = 0
    BY <1>1, <1>2, <1>3, <1>4
  <2>2. Content' = data
    <3>1. IInv'
      BY PushWholeIInv
    <3>2. ContentInv'
      BY <3>1, ContentType, PTL
    <3>3. /\ Content' \in Seq(RingByte) /\ Len(Content') = 1
          /\ Content'[1] = buffer'[(0 + (1 - 1)) % 1]
      BY <1>1, <1>4, <3>2 DEF ContentInv
    <3>4. (0 + (1 - 1)) % 1 = 0
      OBVIOUS
    <3>5. buffer'[0] = data[1]
      BY <1>1, <1>4
    <3>6. \A i \in 1 .. 1 : Content'[i] = data[i]
      BY <3>3, <3>4, <3>5
    <3>. QED BY <1>3, <1>4, <3>3, <3>6, SeqEqual
  <2>. QED BY <1>1, <2>1, <2>2 DEF BF!Replace, Fifo
<1>5. CASE Len(data) # 1 /\ lag = 0
  BY <1>1, <1>5 DEF BF!Destroy, Fifo
<1>6. CASE Len(data) # 1 /\ lag = 1
  BY <1>1, <1>6 DEF BF!fvars, Fifo
<1>. QED BY <1>2, <1>4, <1>5, <1>6

LEMMA SetCapacityRefines ==
  ASSUME IInv, NEW c \in 1 .. MaxCap, SetCapacity(c)
  PROVE  BF!Create(c)
<1>1. lag = 0 /\ available = 0 /\ capacity = 0
  BY DEF SetCapacity, IInv, RingTypeOK
<1>2. lag' = 0 /\ available' = 0 /\ capacity' = c /\ out' = out
  BY <1>1 DEF SetCapacity
<1>3. Content' = <<>>
  BY <1>2 DEF Content
<1>. QED BY <1>1, <1>2, <1>3 DEF BF!Create, Fifo

LEMMA DeleteRefines ==
  ASSUME IInv, Delete
  PROVE  BF!Destroy \/ UNCHANGED BF!fvars
<1>1. /\ capacity > 0 /\ capacity' = 0 /\ available' = 0
      /\ lag' = 0 /\ out' = <<>>
  BY DEF Delete
<1>2. Content' = <<>>
  BY <1>1 DEF Content
<1>. QED BY <1>1, <1>2 DEF BF!Destroy, BF!fvars, Fifo

(* Every step of the ring buffer is a step of the queue or leaves it be. *)
LEMMA StepRefines ==
  IInv /\ [RingNext]_ringVars => [BF!Next]_BF!fvars
<1> SUFFICES ASSUME IInv, [RingNext]_ringVars PROVE [BF!Next]_BF!fvars
  OBVIOUS
<1>1. ASSUME NEW c \in 1 .. MaxCap, SetCapacity(c) PROVE BF!Next
  BY <1>1, SetCapacityRefines DEF BF!Next
<1>2. ASSUME NEW data \in Data, PushWhole(data) PROVE [BF!Next]_BF!fvars
  BY <1>2, PushWholeRefines DEF BF!Next
<1>3. ASSUME NEW data \in Data, Push(data) PROVE [BF!Next]_BF!fvars
  <2>1. lag \in {0, 1}
    BY DEF IInv, RingTypeOK
  <2>2. CASE lag = 0
    BY <1>3, <2>2, PushRefines DEF BF!Next
  <2>3. CASE lag = 1
    BY <1>3, <2>3 DEF Push, BF!fvars, Fifo
  <2>. QED BY <2>1, <2>2, <2>3
<1>4. ASSUME NEW size \in 0 .. capacity, Pop(size) PROVE [BF!Next]_BF!fvars
  <2>1. lag \in {0, 1}
    BY DEF IInv, RingTypeOK
  <2>2. CASE lag = 0
    <3>1. BF!Pop(size)
      BY <1>4, <2>2, PopRefines
    <3>2. (IF Fifo THEN capacity ELSE 0) = capacity
      BY <2>2 DEF Fifo
    <3>. QED BY <3>1, <3>2 DEF BF!Next
  <2>3. CASE lag = 1
    BY <1>4, <2>3 DEF Pop, BF!fvars, Fifo
  <2>. QED BY <2>1, <2>2, <2>3
<1>5. CASE Delete
  BY <1>5, DeleteRefines DEF BF!Next
<1>6. CASE UNCHANGED ringVars
  BY <1>6 DEF ringVars, BF!fvars, Fifo, Content
<1>. QED BY <1>1, <1>2, <1>3, <1>4, <1>5, <1>6 DEF RingNext

LEMMA InitRefines == RingInit => BF!Init
BY DEF RingInit, BF!Init, Fifo, Content

(* Until its first whole-buffer push of more than one byte the ring buffer *)
(* is a bounded FIFO queue: nothing is lost, repeated or reordered when    *)
(* the cursors wrap round.                                                 *)
THEOREM RingImplementsFifo == RingSpec => ImplementsFifo
<1>1. RingSpec => []IInv
  BY RingInvariant
<1>. QED BY <1>1, InitRefines, StepRefines, PTL DEF RingSpec, ImplementsFifo, BF!Spec
-----------------------------------------------------------------------------
(***************************************************************************)
(* Flash, for every size of a block, all partitions, ranges and numbers of *)
(* bad blocks.  First the arithmetic of pages and blocks.                  *)
(***************************************************************************)

LEMMA Blocks ==
  ASSUME NEW o \in Nat
  PROVE  Eb(o) \in Nat /\ Eb(o) * EbSize <= o /\ o < Eb(o) * EbSize + EbSize
<1>1. EbSize \in Nat \ {0}
  BY FlashAssumption
<1>. QED BY <1>1 DEF Eb

LEMMA Times ==
  ASSUME NEW a \in Nat, NEW b \in Nat
  PROVE  /\ a * EbSize \in Nat
         /\ (a + 1) * EbSize = a * EbSize + EbSize
         /\ a <= b => a * EbSize <= b * EbSize
         /\ a * EbSize < b * EbSize => a < b
         /\ a <= b => (b - a) * EbSize = b * EbSize - a * EbSize
<1>1. EbSize \in Nat \ {0}
  BY FlashAssumption
<1>2. a * EbSize \in Nat /\ b * EbSize \in Nat
  BY <1>1
<1>3. a <= b => a * EbSize <= b * EbSize
  <2>1. ASSUME a <= b PROVE a * EbSize <= b * EbSize
    <3>1. PICK d \in Nat : b = a + d
      <4>1. b - a \in Nat /\ b = a + (b - a)
        BY <2>1
      <4>. QED BY <4>1
    <3>2. (a + d) * EbSize = a * EbSize + d * EbSize
      BY <1>1, <3>1
    <3>3. d * EbSize \in Nat
      BY <1>1, <3>1
    <3>. QED BY <1>2, <3>1, <3>2, <3>3
  <2>. QED BY <2>1
<1>4. a * EbSize < b * EbSize => a < b
  <2>1. ASSUME b <= a PROVE b * EbSize <= a * EbSize
    <3>1. PICK d \in Nat : a = b + d
      <4>1. a - b \in Nat /\ a = b + (a - b)
        BY <2>1
      <4>. QED BY <4>1
    <3>2. (b + d) * EbSize = b * EbSize + d * EbSize
      BY <1>1, <3>1
    <3>3. d * EbSize \in Nat
      BY <1>1, <3>1
    <3>. QED BY <1>2, <3>1, <3>2, <3>3
  <2>. QED BY <1>2, <2>1
<1>5. (a + 1) * EbSize = a * EbSize + EbSize
  BY <1>1
<1>6. (b - a) * EbSize = b * EbSize - a * EbSize
  BY <1>1
<1>. QED BY <1>2, <1>3, <1>4, <1>5, <1>6

(* A page lies in one block only. *)
LEMMA OneBlock ==
  ASSUME NEW o \in Nat, NEW c \in Nat, c * EbSize <= o, o < c * EbSize + EbSize
  PROVE  Eb(o) = c
<1>0. EbSize \in Nat
  BY FlashAssumption
<1>1. Eb(o) \in Nat /\ Eb(o) * EbSize <= o /\ o < Eb(o) * EbSize + EbSize
  BY Blocks
<1>2. c * EbSize \in Nat /\ (c + 1) * EbSize = c * EbSize + EbSize
  BY Times
<1>3. Eb(o) * EbSize \in Nat /\ (Eb(o) + 1) * EbSize = Eb(o) * EbSize + EbSize
  BY <1>1, Times
<1>4. Eb(o) < c + 1
  <2>1. Eb(o) * EbSize < (c + 1) * EbSize
    BY <1>0, <1>1, <1>2, <1>3
  <2>. QED BY <1>1, <2>1, Times
<1>5. c < Eb(o) + 1
  <2>1. c * EbSize < (Eb(o) + 1) * EbSize
    BY <1>0, <1>1, <1>2, <1>3
  <2>. QED BY <1>1, <2>1, Times
<1>. QED BY <1>1, <1>4, <1>5

LEMMA BlockOrder ==
  ASSUME NEW o \in Nat, NEW n \in Nat
  PROVE  /\ o < n * EbSize => Eb(o) < n
         /\ o <= n => Eb(o) <= Eb(n)
         /\ Eb(n * EbSize) = n
         /\ o < n * EbSize => o < Eb(o) * EbSize + EbSize /\ Eb(o) * EbSize + EbSize <= n * EbSize
<1>0. EbSize \in Nat \ {0}
  BY FlashAssumption
<1>1. /\ Eb(o) \in Nat /\ Eb(o) * EbSize <= o /\ o < Eb(o) * EbSize + EbSize
      /\ Eb(n) \in Nat /\ Eb(n) * EbSize <= n /\ n < Eb(n) * EbSize + EbSize
  BY Blocks
<1>2. /\ Eb(o) * EbSize \in Nat /\ (Eb(o) + 1) * EbSize = Eb(o) * EbSize + EbSize
      /\ Eb(n) * EbSize \in Nat /\ (Eb(n) + 1) * EbSize = Eb(n) * EbSize + EbSize
      /\ n * EbSize \in Nat
  BY <1>1, Times
<1>3. ASSUME o < n * EbSize PROVE Eb(o) < n
  <2>1. Eb(o) * EbSize < n * EbSize
    BY <1>1, <1>2, <1>3
  <2>. QED BY <1>1, <2>1, Times
<1>4. ASSUME o <= n PROVE Eb(o) <= Eb(n)
  <2>1. Eb(o) * EbSize < (Eb(n) + 1) * EbSize
    BY <1>0, <1>1, <1>2, <1>4
  <2>2. Eb(o) < Eb(n) + 1
    BY <1>1, <2>1, Times
  <2>. QED BY <1>1, <2>2
<1>5. Eb(n * EbSize) = n
  <2>1. n * EbSize < n * EbSize + EbSize
    BY <1>0, <1>2
  <2>. QED BY <1>2, <2>1, OneBlock
<1>6. ASSUME o < n * EbSize PROVE Eb(o) * EbSize + EbSize <= n * EbSize
  <2>1. Eb(o) + 1 <= n
    BY <1>1, <1>3, <1>6
  <2>2. (Eb(o) + 1) * EbSize <= n * EbSize
    BY <1>1, <2>1, Times
  <2>. QED BY <1>2, <2>2
<1>. QED BY <1>1, <1>3, <1>4, <1>5, <1>6

(* There is a function that adds the sizes up, so Ends is one.             *)
LEMMA EndsDef ==
  Ends = [n \in 0 .. Len(Partitions) |-> IF n = 0 THEN 0 ELSE Ends[n - 1] + Size(n)]
<1>0. Len(Partitions) \in Nat
  BY FlashAssumption
<1> DEFINE Is(f, m) == f = [n \in 0 .. m |-> IF n = 0 THEN 0 ELSE f[n - 1] + Size(n)]
           G == {m \in Nat : \E f : Is(f, m)}
<1>1. 0 \in G
  <2>1. Is([n \in 0 .. 0 |-> 0], 0)
    OBVIOUS
  <2>. QED BY <2>1
<1>2. ASSUME NEW m \in Nat, m \in G PROVE m + 1 \in G
  <2>1. PICK f : Is(f, m)
    BY <1>2
  <2> DEFINE g == [n \in 0 .. m + 1 |-> IF n = m + 1 THEN f[m] + Size(n) ELSE f[n]]
  <2>2. Is(g, m + 1)
    <3>1. ASSUME NEW n \in 0 .. m + 1 PROVE g[n] = IF n = 0 THEN 0 ELSE g[n - 1] + Size(n)
      <4>1. n # 0 => g[n - 1] = f[n - 1]
        OBVIOUS
      <4>2. n \in 0 .. m => f[n] = IF n = 0 THEN 0 ELSE f[n - 1] + Size(n)
        BY <2>1
      <4>. QED BY <4>1, <4>2
    <3>. QED BY <3>1
  <2> HIDE DEF Is, g
  <2>. QED BY <2>2
<1>3. \E f : Is(f, Len(Partitions))
  <2> HIDE DEF G
  <2>1. Len(Partitions) \in G
    BY <1>0, <1>1, <1>2, NatSetInduction
  <2>. QED BY <2>1 DEF G
<1>4. Ends = CHOOSE f : Is(f, Len(Partitions))
  BY DEF Ends
<1> HIDE DEF Is
<1>5. Is(Ends, Len(Partitions))
  BY <1>3, <1>4
<1>. QED BY <1>5 DEF Is

LEMMA PartSizes ==
  ASSUME NEW p \in Part
  PROVE  /\ EbCnt(p) \in Nat \ {0} /\ Size(p) \in Nat \ {0}
         /\ Size(p) = EbCnt(p) * EbSize
         /\ Ends[p] = Start(p) + Size(p)
<1>1. p \in 1 .. Len(Partitions) /\ EbCnt(p) \in Nat \ {0} /\ EbSize \in Nat \ {0}
  BY FlashAssumption DEF Part, EbCnt
<1>2. Size(p) \in Nat \ {0}
  BY <1>1 DEF Size
<1>3. Ends[p] = Ends[p - 1] + Size(p)
  BY <1>1, EndsDef
<1>. QED BY <1>1, <1>2, <1>3 DEF Size, Start

(* The partitions follow each other and cover the device.                  *)
LEMMA Covered ==
  /\ \A n \in 0 .. Len(Partitions) : Ends[n] \in Nat
  /\ \A n \in 0 .. Len(Partitions) : \A o \in Nat :
       o < Ends[n] => \E p \in Part : Start(p) <= o /\ o < Ends[p]
<1> DEFINE P(n) == /\ Ends[n] \in Nat
                   /\ \A o \in Nat : o < Ends[n] => \E p \in Part : Start(p) <= o /\ o < Ends[p]
           G == {n \in Nat : n <= Len(Partitions) => P(n)}
<1>0. Len(Partitions) \in Nat
  BY FlashAssumption
<1>1. 0 \in G
  <2>1. Ends[0] = 0
    BY <1>0, EndsDef
  <2>. QED BY <2>1
<1>2. ASSUME NEW n \in Nat, n \in G PROVE n + 1 \in G
  <2>1. SUFFICES ASSUME n + 1 <= Len(Partitions) PROVE P(n + 1)
    OBVIOUS
  <2>2. P(n) /\ n + 1 \in Part /\ (n + 1) - 1 = n
    BY <1>0, <1>2, <2>1 DEF Part
  <2>3. Ends[n + 1] = Ends[n] + Size(n + 1) /\ Size(n + 1) \in Nat /\ Start(n + 1) = Ends[n]
    BY <2>2, PartSizes DEF Start
  <2>4. Ends[n + 1] \in Nat
    BY <2>2, <2>3
  <2>5. ASSUME NEW o \in Nat, o < Ends[n + 1]
        PROVE  \E p \in Part : Start(p) <= o /\ o < Ends[p]
    <3>1. CASE o < Ends[n]
      BY <2>2, <3>1
    <3>2. CASE Ends[n] <= o
      BY <2>2, <2>3, <2>5, <3>2
    <3>. QED BY <2>2, <3>1, <3>2
  <2>. QED BY <2>4, <2>5
<1> HIDE DEF P
<1>3. \A n \in Nat : n \in G
  <2> HIDE DEF G
  <2>. QED BY <1>1, <1>2, NatSetInduction
<1>4. ASSUME NEW n \in 0 .. Len(Partitions) PROVE P(n)
  <2>1. n \in Nat /\ n <= Len(Partitions)
    BY <1>0
  <2>. QED BY <1>3, <2>1
<1>. QED BY <1>4 DEF P

LEMMA StartType ==
  ASSUME NEW p \in Part
  PROVE  Start(p) \in Nat
<1>1. p - 1 \in 0 .. Len(Partitions)
  BY FlashAssumption DEF Part
<1>. QED BY <1>1, Covered DEF Start

LEMMA PartFound ==
  ASSUME NEW o \in Nat, o < Capacity
  PROVE  /\ PartOf(o) \in Part
         /\ o - Start(PartOf(o)) \in 0 .. Size(PartOf(o)) - 1
<1>0. Len(Partitions) \in Nat
  BY FlashAssumption
<1>1. \E p \in Part : Start(p) <= o /\ o < Ends[p]
  BY <1>0, Covered DEF Capacity
<1>2. PartOf(o) \in Part /\ Start(PartOf(o)) <= o /\ o < Ends[PartOf(o)]
  BY <1>1 DEF PartOf
<1> DEFINE p == PartOf(o)
<1> HIDE DEF p
<1>3. p \in Part /\ Start(p) <= o /\ o < Ends[p]
  BY <1>2 DEF p
<1>4. Ends[p] = Start(p) + Size(p) /\ Size(p) \in Nat
  BY <1>3, PartSizes
<1>5. Start(p) \in Nat
  BY <1>3, StartType
<1>6. o - Start(p) \in 0 .. Size(p) - 1
  BY <1>3, <1>4, <1>5
<1>. QED BY <1>3, <1>6 DEF p

-----------------------------------------------------------------------------
(* The place in its partition at which the call begins.                    *)
Rel == from - Start(part)

OpenTypes ==
  /\ initCalled \in 0 .. 1 /\ blkMgr \in BOOLEAN /\ blockLock \in BOOLEAN
  /\ opened \subseteq Part

DeviceTypes ==
  /\ nand \in BOOLEAN
  /\ bad \in [Part -> SUBSET Nat]
  /\ \A p \in Part : bad[p] \subseteq 0 .. EbCnt(p) - 1
  /\ ~nand => \A p \in Part : bad[p] = {}
  /\ DOMAIN flashPage = Part
  /\ \A p \in Part : flashPage[p] \in [0 .. Size(p) - 1 -> Int]

CallTypes ==
  /\ call \in {"none", "erase", "write", "read"}
  /\ part \in Part
  /\ from \in 0 .. Capacity - 1 /\ length \in 0 .. Capacity
  /\ off \in 0 .. Size(part) /\ rest \in 0 .. Size(part) \cup 0 .. length
  /\ blockstart \in -1 .. EbCnt(part) - 1
  /\ call = "none" => off = 0 /\ rest = 0 /\ blockstart = -1
  /\ call # "none" =>
       part = PartOf(from) /\ Rel \in 0 .. Size(part) - 1 /\ length > 0
  /\ call \in {"erase", "write"} => wrote = <<>>
  /\ fresh \in BOOLEAN /\ lossless \in BOOLEAN

(* The erase stands at block c with k still to erase: it has erased the    *)
(* good blocks it has passed.                                              *)
First == Eb(Rel)
Asked == Eb(Rel + length + EbSize - 1) - First
EraseCursor ==
  call = "erase" =>
    \E c \in First .. EbCnt(part), k \in 0 .. EbCnt(part) :
      /\ off = c * EbSize /\ rest = k * EbSize
      /\ erasedNow = (First .. c - 1) \ bad[part]
      /\ Cardinality(erasedNow) + k = Asked

(* The pages from a up to, but not including, o that are in no block of b; *)
(* and that they hold, in contents f, the buffer from its begin on.        *)
GoodPages(b, a, o) == {x \in a .. o - 1 : Eb(x) \notin b}
Laid(f, b, a, o) ==
  \A x \in a .. o - 1 : Eb(x) \notin b => f[x] = Cardinality(GoodPages(b, a, x)) + 1

(* A write or read uses no page of a bad block.                            *)
PageCursor ==
  call \in {"write", "read"} =>
    /\ off \in Rel .. Size(part) /\ rest \in 0 .. length
    /\ blockstart <= Eb(off)
    /\ blockstart = Eb(off) => Eb(off) \notin bad[part]

WriteCursor ==
  call = "write" =>
    /\ Rel + length <= Size(part)
    /\ lossless => length - rest = Cardinality(GoodPages(bad[part], Rel, off))
    /\ lossless /\ fresh => Laid(flashPage[part], bad[part], Rel, off)

(* What the last write left: the first good pages of its range, as many as *)
(* its length or all there are.                                            *)
LeftBy(f, b, a, n, size) ==
  \A x \in a .. size - 1 : Cardinality(GoodPages(b, a, x)) < n => Laid(f, b, a, x + 1)
Written ==
  wrote # <<>> =>
    \E p \in Part, o \in Nat, n \in Nat :
      /\ wrote = <<o, n>> /\ p = PartOf(o)
      /\ o - Start(p) \in 0 .. Size(p) - 1 /\ o - Start(p) + n <= Size(p)
      /\ fresh /\ lossless => LeftBy(flashPage[p], bad[p], o - Start(p), n, Size(p))

ReadCursor ==
  call = "read" /\ wrote = <<from, length>> /\ fresh /\ lossless =>
    /\ length - rest = Cardinality(GoodPages(bad[part], Rel, off))
    /\ got = [i \in 1 .. length - rest |-> i]

FlashInv ==
  /\ OpenTypes /\ DeviceTypes /\ CallTypes
  /\ EraseCursor /\ ErasesExactly
  /\ PageCursor /\ WriteCursor /\ Written /\ ReadCursor /\ ReadsBack

-----------------------------------------------------------------------------
LEMMA RangeTypes ==
  ASSUME NEW r \in Ranges
  PROVE  r[1] \in Nat /\ r[2] \in Nat \ {0}
BY FlashAssumption

LEMMA CapacityType == Capacity \in Nat
BY FlashAssumption, Covered DEF Capacity

(* What every call begins with.                                            *)
LEMMA Begins ==
  ASSUME NEW o \in Nat, NEW n \in Nat \ {0}, Begin(o, n)
  PROVE  /\ call = "none" /\ part' \in Part /\ part' = PartOf(o) /\ from' = o /\ length' = n
         /\ Rel' = o - Start(PartOf(o)) /\ Rel' \in 0 .. Size(part') - 1
         /\ o \in 0 .. Capacity - 1 /\ n \in 0 .. Capacity
         /\ result' = NoResult /\ got' = <<>> /\ erasedNow' = {}
         /\ UNCHANGED <<openVars, bad>>
<1>1. /\ call = "none" /\ part' = PartOf(o) /\ from' = o /\ length' = n
      /\ o + n <= Capacity
      /\ result' = NoResult /\ got' = <<>> /\ erasedNow' = {}
      /\ UNCHANGED <<openVars, bad>>
  BY DEF Begin, Idle
<1>2. o \in 0 .. Capacity - 1 /\ n \in 0 .. Capacity /\ o < Capacity
  BY <1>1, CapacityType
<1>3. PartOf(o) \in Part /\ o - Start(PartOf(o)) \in 0 .. Size(PartOf(o)) - 1
  BY <1>2, PartFound
<1>4. Rel' = o - Start(PartOf(o))
  BY <1>1 DEF Rel
<1>. QED BY <1>1, <1>2, <1>3, <1>4

(* Where the cursor of a call goes when it turns to the next block.        *)
LEMMA Turns ==
  ASSUME CallTypes, off < Size(part)
  PROVE  /\ off \in Nat /\ Eb(off) \in 0 .. EbCnt(part) - 1
         /\ (Eb(off) + 1) * EbSize \in off + 1 .. Size(part)
         /\ (Eb(off) + 1) * EbSize = Eb(off) * EbSize + EbSize
         /\ Eb((Eb(off) + 1) * EbSize) = Eb(off) + 1
<1>1. off \in Nat /\ part \in Part
  <2>1. off \in 0 .. Size(part) /\ part \in Part
    BY DEF CallTypes
  <2>. QED BY <2>1
<1>2. Size(part) = EbCnt(part) * EbSize /\ EbCnt(part) \in Nat /\ Size(part) \in Nat
  BY <1>1, PartSizes
<1>3. Eb(off) \in Nat /\ (Eb(off) + 1) * EbSize = Eb(off) * EbSize + EbSize
  BY <1>1, Blocks, Times
<1>4. /\ Eb(off) < EbCnt(part) /\ off < Eb(off) * EbSize + EbSize
      /\ Eb(off) * EbSize + EbSize <= EbCnt(part) * EbSize
  BY <1>1, <1>2, BlockOrder
<1>5. Eb((Eb(off) + 1) * EbSize) = Eb(off) + 1
  BY <1>3, BlockOrder
<1>6. Eb(off) * EbSize + EbSize \in Int
  BY <1>3, FlashAssumption
<1>. QED BY <1>1, <1>2, <1>3, <1>4, <1>5, <1>6

(* A block found good is not bad, on a NOR flash either.                   *)
LEMMA GoodBlock ==
  ASSUME DeviceTypes, part \in Part
  PROVE  IsBad <=> Eb(off) \in bad[part]
BY DEF DeviceTypes, IsBad

LEMMA SameErase ==
  ASSUME UNCHANGED <<part, from, length>>
  PROVE  Rel' = Rel /\ First' = First /\ Asked' = Asked
BY DEF Rel, First, Asked

LEMMA BeginEraseKeepsCursor ==
  ASSUME NEW o \in Nat, NEW n \in Nat \ {0}, BeginErase(o, n)
  PROVE  EraseCursor'
<1>1. /\ part' \in Part /\ part' = PartOf(o) /\ length' = n
      /\ Rel' = o - Start(PartOf(o)) /\ Rel' \in 0 .. Size(part') - 1
      /\ erasedNow' = {}
  BY Begins DEF BeginErase
<1> DEFINE a == Rel'
           c == Eb(a)
           e == Eb(a + n + EbSize - 1)
           cnt == EbCnt(part')
<1>2. off' = c * EbSize /\ rest' = e * EbSize - c * EbSize
  BY <1>1 DEF BeginErase
<1>3. a + n <= cnt * EbSize /\ Size(part') = cnt * EbSize /\ cnt \in Nat
  <2>1. o + n <= Ends[part']
    BY <1>1 DEF BeginErase, Fits
  <2>2. Ends[part'] = Start(part') + Size(part') /\ Size(part') = cnt * EbSize /\ cnt \in Nat
    BY <1>1, PartSizes
  <2>3. Start(part') \in Int
    BY <1>1, StartType
  <2>4. Size(part') \in Nat
    BY <1>1, PartSizes
  <2>. QED BY <1>1, <2>1, <2>2, <2>3, <2>4
<1>4. a \in Nat /\ EbSize \in Nat \ {0} /\ a < cnt * EbSize
  BY <1>1, <1>3, FlashAssumption
<1>5. First' = c /\ Asked' = e - c
  BY <1>1 DEF First, Asked
<1> HIDE DEF a, c, e, cnt
<1>6. c \in Nat /\ c < cnt
  BY <1>3, <1>4, Blocks, BlockOrder DEF c
<1>7. e \in Nat /\ c <= e /\ e <= cnt
  <2>1. a + n + EbSize - 1 \in Nat /\ a <= a + n + EbSize - 1
    BY <1>4
  <2>2. (cnt + 1) * EbSize = cnt * EbSize + EbSize /\ cnt + 1 \in Nat /\ cnt * EbSize \in Nat
    BY <1>3, Times
  <2>3. a + n + EbSize - 1 < (cnt + 1) * EbSize
    BY <1>3, <1>4, <2>2
  <2>4. e < cnt + 1
    BY <2>1, <2>2, <2>3, BlockOrder DEF e
  <2>5. c <= e /\ e \in Nat
    BY <1>4, <2>1, BlockOrder, Blocks DEF c, e
  <2>. QED BY <1>3, <2>4, <2>5
<1>8. rest' = (e - c) * EbSize
  BY <1>2, <1>6, <1>7, Times
<1>9. erasedNow' = (c .. c - 1) \ bad'[part'] /\ Cardinality(erasedNow') = 0
  BY <1>1, <1>6, FS_EmptySet
<1>10. c \in First' .. cnt /\ e - c \in 0 .. cnt /\ 0 + (e - c) = Asked'
  BY <1>3, <1>5, <1>6, <1>7
<1>. QED BY <1>2, <1>5, <1>8, <1>9, <1>10 DEF EraseCursor, cnt

LEMMA EraseStepKeepsCursor ==
  ASSUME DeviceTypes, CallTypes, EraseCursor, EraseSkip \/ EraseBlock \/ EraseEIO
  PROVE  EraseCursor'
<1>0. /\ call = "erase" /\ rest > 0 /\ off < Size(part) /\ off' = (Eb(off) + 1) * EbSize
      /\ UNCHANGED <<part, from, length>>
  BY DEF EraseSkip, EraseBlock, EraseEIO, Going, Running, NextBlock, SameCall, callVars
<1>1. part \in Part /\ part' = part /\ bad \in [Part -> SUBSET Nat]
  BY <1>0 DEF CallTypes, DeviceTypes
<1>2. PICK c \in First .. EbCnt(part), k \in 0 .. EbCnt(part) :
        /\ off = c * EbSize /\ rest = k * EbSize
        /\ erasedNow = (First .. c - 1) \ bad[part]
        /\ Cardinality(erasedNow) + k = Asked
  BY <1>0 DEF EraseCursor
<1>3. EbCnt(part) \in Nat /\ First \in Nat
  <2>1. Rel \in 0 .. Size(part) - 1
    BY <1>0 DEF CallTypes
  <2>. QED BY <1>1, <2>1, PartSizes, Blocks DEF First
<1>4. c \in Nat /\ Eb(off) = c /\ c < EbCnt(part)
  <2>1. c \in Nat
    BY <1>3
  <2>2. Eb(off) = c
    BY <1>2, <2>1, BlockOrder
  <2>. QED BY <1>0, <2>1, <2>2, <1>3, Turns
<1>5. First' = First /\ Asked' = Asked
  BY <1>0, SameErase
<1>6. off' = (c + 1) * EbSize /\ c + 1 \in First .. EbCnt(part)
  BY <1>0, <1>3, <1>4
<1>7. CASE EraseSkip \/ EraseEIO
  <2>1. erasedNow' = erasedNow /\ rest' = rest
    BY <1>7 DEF EraseSkip, EraseEIO, ghostVars
  <2>2. c \in bad'[part] /\ \A x \in First .. c - 1 : x \in bad'[part] <=> x \in bad[part]
    <3>1. CASE EraseSkip
      BY <1>1, <1>4, <3>1, GoodBlock DEF EraseSkip, deviceVars
    <3>2. CASE EraseEIO
      <4>1. bad' = [bad EXCEPT ![part] = @ \cup {c}]
        BY <1>4, <3>2 DEF EraseEIO, MarkBad
      <4>2. bad'[part] = bad[part] \cup {c}
        BY <1>1, <4>1
      <4>. QED BY <1>3, <1>4, <4>2
    <3>. QED BY <1>7, <3>1, <3>2
  <2>3. erasedNow = (First .. (c + 1) - 1) \ bad'[part]
    BY <1>2, <1>3, <1>4, <2>2
  <2>. QED BY <1>0, <1>2, <1>5, <1>6, <2>1, <2>3 DEF EraseCursor
<1>8. CASE EraseBlock
  <2>1. /\ erasedNow' = erasedNow \cup {c} /\ rest' = rest - EbSize
        /\ bad' = bad /\ c \notin bad[part]
    BY <1>1, <1>4, <1>8, GoodBlock DEF EraseBlock
  <2>2. k # 0
    BY <1>0, <1>2, FlashAssumption
  <2>3. k - 1 \in 0 .. EbCnt(part) /\ rest' = (k - 1) * EbSize
    <3>1. k - 1 \in Nat /\ (k - 1) + 1 = k
      BY <1>3, <2>2
    <3>2. k * EbSize = (k - 1) * EbSize + EbSize /\ (k - 1) * EbSize \in Nat
      BY <3>1, Times
    <3>3. rest' = k * EbSize - EbSize
      BY <1>2, <2>1
    <3> DEFINE y == k * EbSize
               z == (k - 1) * EbSize
    <3>4. y = z + EbSize /\ z \in Nat /\ rest' = y - EbSize
      BY <3>2, <3>3
    <3> HIDE DEF y, z
    <3>5. rest' = z
      BY <3>4, FlashAssumption
    <3>6. k - 1 \in 0 .. EbCnt(part)
      BY <1>3, <3>1
    <3>. QED BY <3>5, <3>6 DEF z
  <2>4. erasedNow' = (First .. (c + 1) - 1) \ bad'[part]
    BY <1>2, <1>3, <1>4, <2>1
  <2>5. IsFiniteSet(erasedNow) /\ c \notin erasedNow
    <3>1. IsFiniteSet(First .. c - 1)
      BY <1>3, <1>4, FS_Interval
    <3>2. erasedNow \in SUBSET (First .. c - 1)
      BY <1>2
    <3>3. c \notin First .. c - 1
      BY <1>3, <1>4
    <3>. QED BY <3>1, <3>2, <3>3, FS_Subset
  <2>6. Cardinality(erasedNow') = Cardinality(erasedNow) + 1 /\ Cardinality(erasedNow) \in Nat
    BY <2>1, <2>5, FS_AddElement, FS_CardinalityType
  <2>7. Cardinality(erasedNow') + (k - 1) = Asked
    BY <1>2, <2>6
  <2>. QED BY <1>0, <1>5, <1>6, <2>3, <2>4, <2>7 DEF EraseCursor
<1>. QED BY <1>7, <1>8

LEMMA LeastOfTwo ==
  ASSUME NEW a \in Int, NEW b \in Int
  PROVE  Min({a, b}) = IF a <= b THEN a ELSE b
<1>1. \E x \in {a, b} : \A y \in {a, b} : x <= y
  OBVIOUS
<1>. QED BY <1>1 DEF Min

(* When the loop ends the erase has done what it was asked.                *)
LEMMA EraseEndsExactly ==
  ASSUME DeviceTypes, CallTypes, EraseCursor, EraseEnds
  PROVE  ErasesExactly'
<1>0. /\ call = "erase" /\ ~(rest > 0 /\ off < Size(part))
      /\ UNCHANGED <<part, from, length, bad, erasedNow>>
  BY DEF EraseEnds, Running, Return, callVars, deviceVars, ghostVars
<1>1. part \in Part /\ EbCnt(part) \in Nat /\ Size(part) = EbCnt(part) * EbSize
  BY PartSizes DEF CallTypes
<1>2. PICK c \in First .. EbCnt(part), k \in 0 .. EbCnt(part) :
        /\ off = c * EbSize /\ rest = k * EbSize
        /\ erasedNow = (First .. c - 1) \ bad[part]
        /\ Cardinality(erasedNow) + k = Asked
  BY <1>0 DEF EraseCursor
<1>3. First \in Nat
  <2>1. Rel \in 0 .. Size(part) - 1
    BY <1>0 DEF CallTypes
  <2>. QED BY <1>1, <2>1, PartSizes, Blocks DEF First
<1> DEFINE good == (First .. EbCnt(part) - 1) \ bad[part]
<1>4. c \in Nat /\ (k = 0 \/ c = EbCnt(part))
  <2>1. c \in Nat /\ k \in Nat
    BY <1>1, <1>3
  <2>2. CASE rest > 0
    <3>1. ~(c * EbSize < EbCnt(part) * EbSize)
      BY <1>0, <1>1, <1>2, <2>2
    <3>2. c * EbSize \in Nat /\ EbCnt(part) * EbSize \in Nat
      BY <1>1, <2>1, Times
    <3>3. ASSUME c < EbCnt(part) PROVE FALSE
      <4>1. c + 1 <= EbCnt(part)
        BY <1>1, <2>1, <3>3
      <4>2. (c + 1) * EbSize <= EbCnt(part) * EbSize /\ (c + 1) * EbSize = c * EbSize + EbSize
        BY <1>1, <2>1, <4>1, Times
      <4>. QED BY <3>1, <3>2, <4>2, FlashAssumption
    <3>. QED BY <1>1, <2>1, <3>3
  <2>3. CASE ~(rest > 0)
    <3>1. k # 0 => EbSize <= k * EbSize
      <4>1. ASSUME k # 0 PROVE EbSize <= k * EbSize
        <5>1. k - 1 \in Nat /\ (k - 1) + 1 = k
          BY <2>1, <4>1
        <5>2. k * EbSize = (k - 1) * EbSize + EbSize /\ (k - 1) * EbSize \in Nat
          BY <5>1, Times
        <5>. QED BY <5>2, FlashAssumption
      <4>. QED BY <4>1
    <3>2. k * EbSize \in Nat
      BY <2>1, Times
    <3>. QED BY <1>2, <2>1, <2>3, <3>1, <3>2, FlashAssumption
  <2>. QED BY <2>1, <2>2, <2>3
<1>5. erasedNow \subseteq good
  BY <1>1, <1>2, <1>3, <1>4
<1>6. \A b \in good \ erasedNow, e \in erasedNow : e < b
  BY <1>1, <1>2, <1>3, <1>4
<1>7. Cardinality(erasedNow) = Min({Asked, Cardinality(good)})
  <2>1. IsFiniteSet(good)
    <3>1. IsFiniteSet(First .. EbCnt(part) - 1)
      BY <1>1, <1>3, FS_Interval
    <3>. QED BY <3>1, FS_Difference
  <2>2. /\ Cardinality(good) \in Nat /\ Cardinality(erasedNow) \in Nat
        /\ Cardinality(erasedNow) <= Cardinality(good)
    BY <1>5, <2>1, FS_Subset, FS_CardinalityType
  <2>3. c = EbCnt(part) => erasedNow = good
    BY <1>2
  <2>4. Asked = Cardinality(erasedNow) + k /\ k \in Nat
    BY <1>1, <1>2
  <2> HIDE DEF good
  <2>5. Min({Asked, Cardinality(good)}) = IF Asked <= Cardinality(good) THEN Asked ELSE Cardinality(good)
    <3>1. Asked \in Int /\ Cardinality(good) \in Int
      BY <2>2, <2>4
    <3>. QED BY <3>1, LeastOfTwo
  <2>. QED BY <1>4, <2>2, <2>3, <2>4, <2>5
<1> HIDE DEF good
<1>8. Succeeded("erase")' =>
        /\ erasedNow \subseteq good
        /\ \A b \in good \ erasedNow, e \in erasedNow : e < b
        /\ Cardinality(erasedNow) = Min({Asked, Cardinality(good)})
  BY <1>5, <1>6, <1>7
<1>. QED BY <1>0, <1>8 DEF ErasesExactly, good, First, Asked, Rel

-----------------------------------------------------------------------------
(* Counting good pages.                                                    *)

LEMMA CountType ==
  ASSUME NEW b, NEW a \in Nat, NEW o \in Nat
  PROVE  IsFiniteSet(GoodPages(b, a, o)) /\ Cardinality(GoodPages(b, a, o)) \in Nat
<1>1. IsFiniteSet(a .. o - 1)
  BY FS_Interval
<1>2. GoodPages(b, a, o) \in SUBSET (a .. o - 1)
  BY DEF GoodPages
<1>. QED BY <1>1, <1>2, FS_Subset, FS_CardinalityType

LEMMA CountGrows ==
  ASSUME NEW b, NEW a \in Nat, NEW x \in Nat, NEW o \in Nat, x <= o
  PROVE  Cardinality(GoodPages(b, a, x)) <= Cardinality(GoodPages(b, a, o))
<1>1. GoodPages(b, a, x) \in SUBSET GoodPages(b, a, o)
  BY DEF GoodPages
<1>2. IsFiniteSet(GoodPages(b, a, o))
  BY CountType
<1>. QED BY <1>1, <1>2, FS_Subset

(* Good pages in a row count one by one.                                   *)
LEMMA CountRow ==
  ASSUME NEW b, NEW a \in Nat, NEW o \in Nat, NEW n \in Nat, a <= o,
         \A x \in o .. o + n - 1 : Eb(x) \notin b
  PROVE  Cardinality(GoodPages(b, a, o + n)) = Cardinality(GoodPages(b, a, o)) + n
<1> DEFINE S == GoodPages(b, a, o)
           T == o .. o + n - 1
<1>1. GoodPages(b, a, o + n) = S \cup T /\ S \cap T = {}
  BY DEF GoodPages
<1>2. IsFiniteSet(S) /\ Cardinality(S) \in Nat
  BY CountType
<1>3. IsFiniteSet(T) /\ Cardinality(T) = n
  BY FS_Interval
<1> HIDE DEF S, T
<1>4. Cardinality(S \cup T) = Cardinality(S) + Cardinality(T) - Cardinality(S \cap T)
  BY <1>2, <1>3, FS_Union
<1>5. Cardinality(S \cap T) = 0
  BY <1>1, FS_EmptySet
<1>6. Cardinality(S \cup T) = Cardinality(S) + n
  BY <1>2, <1>3, <1>4, <1>5
<1>. QED BY <1>1, <1>6 DEF S

LEMMA CountNone ==
  ASSUME NEW b, NEW a \in Nat
  PROVE  Cardinality(GoodPages(b, a, a)) = 0
<1>1. GoodPages(b, a, a) = {}
  BY DEF GoodPages
<1>. QED BY <1>1, FS_EmptySet

(* Bad pages in a row do not count, and nothing is to be laid there.       *)
LEMMA CountSkip ==
  ASSUME NEW f, NEW b, NEW a \in Nat, NEW o \in Nat, NEW y \in Nat, a <= o, o <= y,
         \A x \in o .. y - 1 : Eb(x) \in b
  PROVE  /\ GoodPages(b, a, y) = GoodPages(b, a, o)
         /\ Laid(f, b, a, o) => Laid(f, b, a, y)
<1>1. \A x \in a .. y - 1 : Eb(x) \notin b => x \in a .. o - 1
  BY DEF GoodPages
<1>2. \A x \in a .. o - 1 : x \in a .. y - 1
  OBVIOUS
<1>. QED BY <1>1, <1>2 DEF GoodPages, Laid

(* The pages of the block in which the cursor stands.                      *)
LEMMA BlockPages ==
  ASSUME CallTypes, off < Size(part),
         NEW x \in Nat, off <= x, x < (Eb(off) + 1) * EbSize
  PROVE  Eb(x) = Eb(off)
<1>1. off \in Nat /\ Eb(off) \in Nat
  <2>1. Eb(off) \in 0 .. EbCnt(part) - 1 /\ EbCnt(part) \in Nat
    BY Turns, PartSizes DEF CallTypes
  <2>. QED BY <2>1, Turns
<1>2. Eb(off) * EbSize <= off /\ (Eb(off) + 1) * EbSize = Eb(off) * EbSize + EbSize
  BY <1>1, Blocks, Turns
<1>3. Eb(off) * EbSize \in Nat
  BY <1>1, Times
<1>. QED BY <1>1, <1>2, <1>3, OneBlock

LEMMA CallFacts ==
  ASSUME CallTypes, call # "none"
  PROVE  /\ part \in Part /\ Rel \in Nat /\ Size(part) \in Nat /\ EbCnt(part) \in Nat
         /\ Rel < Size(part) /\ off \in Nat /\ off <= Size(part)
         /\ length \in Nat /\ length > 0 /\ part = PartOf(from)
<1>1. /\ part \in Part /\ Rel \in 0 .. Size(part) - 1 /\ off \in 0 .. Size(part)
      /\ length \in 0 .. Capacity /\ length > 0 /\ part = PartOf(from)
  BY DEF CallTypes
<1>2. Size(part) \in Nat /\ EbCnt(part) \in Nat
  BY <1>1, PartSizes
<1>. QED BY <1>1, <1>2, CapacityType

(* How a step of a write or read moves the cursor.                         *)
Moves(c) ==
  \/ Enter(c)
  \/ c = "write" /\ (WritePage \/ WriteEIO)
  \/ c = "read" /\ ReadBlock

LEMMA MoveFacts ==
  ASSUME NEW c \in {"write", "read"}, Moves(c), CallTypes
  PROVE  /\ call = c /\ rest > 0 /\ off < Size(part)
         /\ UNCHANGED <<nand, call, callVars, result, wrote>>
         /\ Rel' = Rel
<1>1. /\ call = c /\ rest > 0 /\ off < Size(part)
      /\ UNCHANGED <<nand, call, callVars, result, wrote>>
  BY DEF Moves, Enter, WritePage, WriteEIO, ReadBlock, Going, Running, SameCall, openVars,
         ghostVars
<1>. QED BY <1>1 DEF Rel, callVars

(* What is read at once: pages of one block, one at least.                 *)
LEMMA ReadAmount ==
  ASSUME CallTypes, PageCursor, call = "read", rest > 0, off < Size(part)
  PROVE  \E n \in Nat :
           /\ n = Min({rest, (Eb(off) + 1) * EbSize - off})
           /\ n >= 1 /\ n <= rest /\ off + n <= (Eb(off) + 1) * EbSize
           /\ off + n <= Size(part)
<1>1. rest \in Nat /\ rest >= 1 /\ off \in Nat /\ Size(part) \in Nat
  <2>1. rest \in 0 .. length
    BY DEF PageCursor
  <2>. QED BY <2>1, CallFacts
<1>2. (Eb(off) + 1) * EbSize \in off + 1 .. Size(part)
  BY Turns
<1> DEFINE z == (Eb(off) + 1) * EbSize - off
<1>3. z \in Nat /\ z >= 1 /\ off + z = (Eb(off) + 1) * EbSize /\ off + z <= Size(part)
  BY <1>1, <1>2
<1> HIDE DEF z
<1>4. Min({rest, z}) = IF rest <= z THEN rest ELSE z
  BY <1>1, <1>3, LeastOfTwo
<1>5. LET n == Min({rest, z})
      IN  n \in Nat /\ n >= 1 /\ n <= rest /\ off + n <= off + z /\ off + n <= Size(part)
  BY <1>1, <1>3, <1>4
<1>. QED BY <1>3, <1>5 DEF z

LEMMA MoveKeepsPageCursor ==
  ASSUME NEW c \in {"write", "read"}, Moves(c), DeviceTypes, CallTypes, PageCursor
  PROVE  PageCursor'
<1>0. /\ call = c /\ rest > 0 /\ off < Size(part)
      /\ UNCHANGED <<nand, call, callVars, result, wrote>> /\ Rel' = Rel
      /\ part' = part /\ length' = length
  BY MoveFacts DEF callVars
<1>1. /\ off \in Rel .. Size(part) /\ rest \in 0 .. length
      /\ blockstart <= Eb(off) /\ (blockstart = Eb(off) => Eb(off) \notin bad[part])
  BY <1>0 DEF PageCursor
<1>2. /\ part \in Part /\ Rel \in Nat /\ Size(part) \in Nat /\ EbCnt(part) \in Nat
      /\ off \in Nat /\ length \in Nat /\ blockstart \in Int
  <2>1. blockstart \in -1 .. EbCnt(part) - 1
    BY DEF CallTypes
  <2>. QED BY <1>0, <2>1, CallFacts
<1> DEFINE z == (Eb(off) + 1) * EbSize
<1>3. z \in off + 1 .. Size(part) /\ Eb(z) = Eb(off) + 1 /\ Eb(off) \in Nat
  <2>1. Eb(off) \in 0 .. EbCnt(part) - 1
    BY <1>0, Turns
  <2>. QED BY <1>0, <1>2, <2>1, Turns
<1> HIDE DEF z
<1>4. CASE Enter(c) /\ ~IsBad
  <2>1. /\ blockstart' = Eb(off) /\ off' = off /\ rest' = rest /\ bad' = bad
    BY <1>4 DEF Enter, deviceVars
  <2>2. Eb(off) \notin bad[part]
    BY <1>2, <1>4, GoodBlock
  <2>. QED BY <1>0, <1>1, <1>3, <2>1, <2>2 DEF PageCursor
<1>5. CASE (Enter(c) /\ IsBad) \/ WriteEIO
  <2>1. blockstart' = blockstart /\ off' = z /\ rest' = rest
    BY <1>5 DEF Enter, WriteEIO, NextBlock, z
  <2>2. blockstart < Eb(z)
    BY <1>1, <1>2, <1>3
  <2>. QED BY <1>0, <1>1, <1>2, <1>3, <2>1, <2>2 DEF PageCursor
<1>6. CASE WritePage
  <2>1. /\ blockstart' = blockstart /\ blockstart = Eb(off) /\ off' = off + 1
        /\ rest' = rest - 1 /\ bad' = bad
    BY <1>6 DEF WritePage, Entering
  <2>2. Eb(off) <= Eb(off + 1)
    BY <1>2, BlockOrder
  <2>. QED BY <1>0, <1>1, <1>2, <2>1, <2>2 DEF PageCursor
<1>7. CASE ReadBlock
  <2>0. call = "read"
    BY <1>7 DEF ReadBlock, Going, Running
  <2>1. PICK n \in Nat :
           /\ n = Min({rest, (Eb(off) + 1) * EbSize - off})
           /\ n >= 1 /\ n <= rest /\ off + n <= (Eb(off) + 1) * EbSize
           /\ off + n <= Size(part)
    BY <1>0, <2>0, ReadAmount
  <2>2. /\ blockstart' = blockstart /\ blockstart = Eb(off) /\ off' = off + n
        /\ rest' = rest - n /\ bad' = bad
    BY <1>7, <2>1 DEF ReadBlock, Entering, deviceVars
  <2>3. Eb(off) <= Eb(off + n)
    BY <1>2, BlockOrder
  <2>. QED BY <1>0, <1>1, <1>2, <2>1, <2>2, <2>3 DEF PageCursor
<1>. QED BY <1>4, <1>5, <1>6, <1>7 DEF Moves

-----------------------------------------------------------------------------
(* A block turn in a write or read: the pages of a bad block do not count. *)
LEMMA EnterCounts ==
  ASSUME NEW c \in {"write", "read"}, Enter(c), DeviceTypes, CallTypes, PageCursor
  PROVE  /\ UNCHANGED <<bad, flashPage, rest, got, ghostVars>>
         /\ GoodPages(bad[part], Rel, off') = GoodPages(bad[part], Rel, off)
         /\ Laid(flashPage[part], bad[part], Rel, off) =>
              Laid(flashPage[part], bad[part], Rel, off')
<1>0. call = c /\ off < Size(part)
  BY MoveFacts DEF Moves
<1>1. UNCHANGED <<bad, flashPage, rest, got, ghostVars>>
  BY DEF Enter, deviceVars
<1>2. CASE off' = off
  BY <1>1, <1>2
<1>3. CASE IsBad /\ off' = (Eb(off) + 1) * EbSize
  <2>1. /\ part \in Part /\ Rel \in Nat /\ off \in Nat /\ Size(part) \in Nat
    BY <1>0, CallFacts
  <2>2. off \in Rel .. Size(part)
    BY <1>0 DEF PageCursor
  <2> DEFINE z == (Eb(off) + 1) * EbSize
  <2>3. z \in off + 1 .. Size(part)
    BY <1>0, Turns
  <2>4. \A x \in off .. z - 1 : Eb(x) \in bad[part]
    <3>1. Eb(off) \in bad[part]
      BY <1>3, <2>1, GoodBlock
    <3>2. ASSUME NEW x \in off .. z - 1 PROVE Eb(x) = Eb(off)
      <4>1. x \in Nat /\ off <= x /\ x < z
        BY <2>1, <2>3
      <4>. QED BY <1>0, <4>1, BlockPages
    <3>. QED BY <3>1, <3>2
  <2> HIDE DEF z
  <2>5. z \in Nat /\ Rel <= off /\ off <= z
    BY <2>1, <2>2, <2>3
  <2>6. /\ GoodPages(bad[part], Rel, z) = GoodPages(bad[part], Rel, off)
        /\ Laid(flashPage[part], bad[part], Rel, off) => Laid(flashPage[part], bad[part], Rel, z)
    BY <2>1, <2>4, <2>5, CountSkip
  <2>7. off' = z
    BY <1>3 DEF z
  <2>. QED BY <1>1, <2>6, <2>7
<1>. QED BY <1>2, <1>3 DEF Enter, NextBlock

(* A page programmed is the next good one.                                 *)
LEMMA PageLaid ==
  ASSUME NEW f, NEW b, NEW a \in Nat, NEW o \in Nat, a <= o, NEW v,
         o \in DOMAIN f, Laid(f, b, a, o), v = Cardinality(GoodPages(b, a, o)) + 1
  PROVE  Laid([f EXCEPT ![o] = v], b, a, o + 1)
<1> DEFINE g == [f EXCEPT ![o] = v]
<1>1. g[o] = v /\ \A x : x # o => g[x] = f[x]
  OBVIOUS
<1> HIDE DEF g
<1>2. ASSUME NEW x \in a .. (o + 1) - 1, Eb(x) \notin b
      PROVE  g[x] = Cardinality(GoodPages(b, a, x)) + 1
  <2>1. CASE x = o
    BY <1>1, <2>1
  <2>2. CASE x # o
    <3>1. x \in a .. o - 1
      BY <2>2
    <3>. QED BY <1>1, <1>2, <2>2, <3>1 DEF Laid
  <2>. QED BY <2>1, <2>2
<1>. QED BY <1>2 DEF Laid, g

LEMMA WriteKeepsCursor ==
  ASSUME Moves("write"), DeviceTypes, CallTypes, PageCursor, WriteCursor
  PROVE  WriteCursor'
<1>0. /\ call = "write" /\ rest > 0 /\ off < Size(part) /\ Rel' = Rel /\ part' = part
      /\ length' = length
  BY MoveFacts DEF callVars
<1>1. /\ Rel + length <= Size(part)
      /\ lossless => length - rest = Cardinality(GoodPages(bad[part], Rel, off))
      /\ lossless /\ fresh => Laid(flashPage[part], bad[part], Rel, off)
  BY <1>0 DEF WriteCursor
<1>2. CASE Enter("write")
  <2>1. /\ UNCHANGED <<bad, flashPage, rest, fresh, lossless>>
        /\ GoodPages(bad[part], Rel, off') = GoodPages(bad[part], Rel, off)
        /\ Laid(flashPage[part], bad[part], Rel, off) =>
              Laid(flashPage[part], bad[part], Rel, off')
    BY <1>2, EnterCounts DEF ghostVars
  <2>. QED BY <1>0, <1>1, <2>1 DEF WriteCursor
<1>3. CASE WritePage
  <2>1. /\ part \in Part /\ Rel \in Nat /\ off \in Nat /\ length \in Nat
        /\ off \in Rel .. Size(part) /\ rest \in 0 .. length /\ Size(part) \in Nat
    BY <1>0, CallFacts DEF PageCursor
  <2>2. /\ blockstart = Eb(off) /\ off' = off + 1 /\ rest' = rest - 1
        /\ bad' = bad /\ lossless' = lossless
        /\ fresh' = (fresh /\ flashPage[part][off] = Erased)
        /\ fresh' => flashPage' = [flashPage EXCEPT ![part][off] = length - rest + 1]
    BY <1>3 DEF WritePage, Entering
  <2>3. Eb(off) \notin bad[part]
    BY <1>0, <2>2 DEF PageCursor
  <2>4. Cardinality(GoodPages(bad[part], Rel, off + 1)) = Cardinality(GoodPages(bad[part], Rel, off)) + 1
    <3>1. \A x \in off .. off + 1 - 1 : Eb(x) \notin bad[part]
      BY <2>1, <2>3
    <3>. QED BY <2>1, <3>1, CountRow
  <2>5. lossless => length - (rest - 1) = Cardinality(GoodPages(bad[part], Rel, off + 1))
    <3>1. Cardinality(GoodPages(bad[part], Rel, off)) \in Nat
      BY <2>1, CountType
    <3>. QED BY <1>1, <2>1, <2>4, <3>1
  <2>6. ASSUME lossless, fresh' PROVE Laid(flashPage'[part], bad[part], Rel, off + 1)
    <3> DEFINE f == flashPage[part]
               v == length - rest + 1
    <3>1. DOMAIN flashPage = Part /\ f \in [0 .. Size(part) - 1 -> Int]
      BY <2>1 DEF DeviceTypes
    <3>2. flashPage'[part] = [f EXCEPT ![off] = v]
      BY <2>1, <2>2, <2>6, <3>1
    <3>3. off \in DOMAIN f
      BY <1>0, <2>1, <3>1
    <3>4. fresh /\ Laid(f, bad[part], Rel, off) /\ v = Cardinality(GoodPages(bad[part], Rel, off)) + 1
      BY <1>1, <2>2, <2>6
    <3> HIDE DEF f, v
    <3>. QED BY <2>1, <3>2, <3>3, <3>4, PageLaid
  <2>. QED BY <1>0, <1>1, <2>2, <2>5, <2>6 DEF WriteCursor
<1>4. CASE WriteEIO
  <2>1. lossless' = FALSE
    BY <1>4 DEF WriteEIO
  <2>. QED BY <1>0, <1>1, <2>1 DEF WriteCursor
<1>. QED BY <1>2, <1>3, <1>4 DEF Moves

LEMMA BeginWriteKeepsCursor ==
  ASSUME NEW o \in Nat, NEW n \in Nat \ {0}, BeginWrite(o, n)
  PROVE  WriteCursor'
<1>1. /\ part' \in Part /\ part' = PartOf(o) /\ length' = n /\ bad' = bad
      /\ Rel' = o - Start(PartOf(o)) /\ Rel' \in 0 .. Size(part') - 1
  BY Begins DEF BeginWrite
<1>2. off' = Rel' /\ rest' = n /\ call' = "write"
  BY <1>1 DEF BeginWrite
<1>3. Rel' + length' <= Size(part')
  <2>1. o + n <= Ends[PartOf(o)]
    BY DEF BeginWrite, Fits
  <2>2. Ends[PartOf(o)] = Start(PartOf(o)) + Size(PartOf(o)) /\ Start(PartOf(o)) \in Nat
        /\ Size(PartOf(o)) \in Nat
    BY <1>1, PartSizes, StartType
  <2>. QED BY <1>1, <2>1, <2>2
<1>4. Rel' \in Nat
  BY <1>1
<1> DEFINE a == Rel'
           b == bad'[part']
           f == flashPage'[part']
<1> HIDE DEF a, b, f
<1>5. Cardinality(GoodPages(b, a, a)) = 0 /\ Laid(f, b, a, a)
  <2>1. a \in Nat
    BY <1>4 DEF a
  <2>. QED BY <2>1, CountNone DEF Laid
<1>6. length' - rest' = 0
  BY <1>1, <1>2
<1>. QED BY <1>2, <1>3, <1>5, <1>6 DEF WriteCursor, a, b, f

LEMMA WriteEndsWritten ==
  ASSUME WriteEnds, CallTypes, PageCursor, WriteCursor
  PROVE  Written'
<1>0. /\ call = "write" /\ ~(rest > 0 /\ off < Size(part))
      /\ UNCHANGED <<bad, flashPage, fresh, lossless>>
      /\ wrote' = <<from, length>>
  BY DEF WriteEnds, Running, Return, deviceVars
<1>1. /\ part \in Part /\ Rel \in Nat /\ Size(part) \in Nat /\ Rel < Size(part)
      /\ off \in Nat /\ length \in Nat /\ part = PartOf(from)
      /\ off \in Rel .. Size(part) /\ rest \in 0 .. length
  BY <1>0, CallFacts DEF PageCursor
<1>2. from \in Nat
  BY CapacityType DEF CallTypes
<1> DEFINE a == Rel
           b == bad[part]
           f == flashPage[part]
<1>3. /\ a + length <= Size(part)
      /\ lossless => length - rest = Cardinality(GoodPages(b, a, off))
      /\ lossless /\ fresh => Laid(f, b, a, off)
  BY <1>0 DEF WriteCursor
<1>4. ASSUME fresh, lossless PROVE LeftBy(f, b, a, length, Size(part))
  <2> SUFFICES ASSUME NEW x \in a .. Size(part) - 1, Cardinality(GoodPages(b, a, x)) < length
               PROVE  Laid(f, b, a, x + 1)
    BY DEF LeftBy
  <2> HIDE DEF a, b, f
  <2>1. a \in Nat /\ x \in Nat
    BY <1>1 DEF a
  <2>2. x < off
    <3>1. ASSUME off <= x PROVE FALSE
      <4>1. rest = 0
        BY <1>0, <1>1, <2>1, <3>1
      <4>2. Cardinality(GoodPages(b, a, off)) = length
        BY <1>1, <1>3, <1>4, <4>1
      <4>3. Cardinality(GoodPages(b, a, off)) <= Cardinality(GoodPages(b, a, x))
        BY <1>1, <2>1, <3>1, CountGrows
      <4>4. Cardinality(GoodPages(b, a, x)) \in Nat
        BY <2>1, CountType
      <4>. QED BY <1>1, <4>2, <4>3, <4>4
    <3>. QED BY <1>1, <2>1, <3>1
  <2>3. \A y \in a .. (x + 1) - 1 : y \in a .. off - 1
    BY <1>1, <2>1, <2>2
  <2>. QED BY <1>3, <1>4, <2>3 DEF Laid
<1>5. a = from - Start(part)
  BY DEF Rel
<1>6. a \in 0 .. Size(part) - 1
  BY <1>1
<1> HIDE DEF a
<1>7. \E p \in Part, o \in Nat, n \in Nat :
      /\ wrote' = <<o, n>> /\ p = PartOf(o)
      /\ o - Start(p) \in 0 .. Size(p) - 1 /\ o - Start(p) + n <= Size(p)
      /\ fresh /\ lossless => LeftBy(flashPage[p], bad[p], o - Start(p), n, Size(p))
  BY <1>0, <1>1, <1>2, <1>3, <1>4, <1>5, <1>6
<1>. QED BY <1>0, <1>7 DEF Written

-----------------------------------------------------------------------------
(* What is read next continues what was read.                              *)
LEMMA CountOn ==
  ASSUME NEW m \in Nat, NEW n \in Nat, NEW s, NEW g,
         s = [i \in 1 .. m |-> i], g = [i \in 1 .. n |-> m + i]
  PROVE  s \o g = [i \in 1 .. m + n |-> i]
<1>1. s \in Seq(Int) /\ Len(s) = m /\ g \in Seq(Int) /\ Len(g) = n
  OBVIOUS
<1>2. s \o g \in Seq(Int) /\ Len(s \o g) = m + n
  BY <1>1, ConcatProperties
<1>3. ASSUME NEW i \in 1 .. m + n PROVE (s \o g)[i] = i
  <2>1. (s \o g)[i] = IF i <= m THEN s[i] ELSE g[i - m]
    BY <1>1, <1>3, ConcatProperties
  <2>2. CASE i <= m
    BY <2>1, <2>2
  <2>3. CASE ~(i <= m)
    <3>1. i - m \in 1 .. n /\ m + (i - m) = i
      BY <2>3
    <3>. QED BY <2>1, <2>3, <3>1
  <2>. QED BY <2>2, <2>3
<1>4. DOMAIN (s \o g) = 1 .. m + n
  BY <1>2
<1>. QED BY <1>2, <1>3, <1>4

LEMMA ReadKeepsCursor ==
  ASSUME Moves("read"), DeviceTypes, CallTypes, PageCursor, Written, ReadCursor
  PROVE  ReadCursor'
<1>0. /\ call = "read" /\ rest > 0 /\ off < Size(part) /\ Rel' = Rel /\ part' = part
      /\ from' = from /\ length' = length /\ wrote' = wrote
  BY MoveFacts DEF callVars
<1>1. UNCHANGED <<bad, flashPage, fresh, lossless>>
  BY DEF Moves, Enter, ReadBlock, deviceVars, ghostVars
<1>2. SUFFICES ASSUME wrote = <<from, length>>, fresh, lossless
               PROVE  /\ length - rest' = Cardinality(GoodPages(bad[part], Rel, off'))
                      /\ got' = [i \in 1 .. length - rest' |-> i]
  BY <1>0, <1>1 DEF ReadCursor
<1>3. /\ length - rest = Cardinality(GoodPages(bad[part], Rel, off))
      /\ got = [i \in 1 .. length - rest |-> i]
  BY <1>0, <1>2 DEF ReadCursor
<1>4. CASE Enter("read")
  <2>1. /\ UNCHANGED <<rest, got>>
        /\ GoodPages(bad[part], Rel, off') = GoodPages(bad[part], Rel, off)
    BY <1>4, EnterCounts
  <2>. QED BY <1>3, <2>1
<1>5. CASE ReadBlock
  <2>1. PICK n \in Nat :
           /\ n = Min({rest, (Eb(off) + 1) * EbSize - off})
           /\ n >= 1 /\ n <= rest /\ off + n <= (Eb(off) + 1) * EbSize
           /\ off + n <= Size(part)
    BY <1>0, ReadAmount
  <2>2. /\ got' = got \o [i \in 1 .. n |-> flashPage[part][off + i - 1]]
        /\ off' = off + n /\ rest' = rest - n /\ blockstart = Eb(off)
    BY <1>5, <2>1 DEF ReadBlock, Entering
  <2>3. /\ part \in Part /\ Rel \in Nat /\ off \in Nat /\ length \in Nat
        /\ off \in Rel .. Size(part) /\ rest \in 0 .. length /\ Size(part) \in Nat
        /\ part = PartOf(from) /\ Eb(off) \notin bad[part]
    BY <1>0, <2>2, CallFacts DEF PageCursor
  <2> DEFINE a == Rel
             b == bad[part]
             f == flashPage[part]
             m == length - rest
  <2>4. LeftBy(f, b, a, length, Size(part))
    <3>1. PICK p \in Part, o \in Nat, k \in Nat :
            /\ wrote = <<o, k>> /\ p = PartOf(o)
            /\ LeftBy(flashPage[p], bad[p], o - Start(p), k, Size(p))
      BY <1>2 DEF Written
    <3>2. o = from /\ k = length /\ p = part
      BY <1>2, <2>3, <3>1
    <3>. QED BY <3>1, <3>2 DEF Rel
  <2>5. a \in Nat /\ m \in Nat /\ Rel <= off /\ m + rest = length /\ a <= off
    BY <2>3
  <2>6. m = Cardinality(GoodPages(b, a, off)) /\ got = [i \in 1 .. m |-> i]
    BY <1>3
  <2>7. \A x \in off .. off + n - 1 : Eb(x) \notin b
    <3>1. ASSUME NEW x \in off .. off + n - 1 PROVE Eb(x) = Eb(off)
      <4>1. (Eb(off) + 1) * EbSize \in off + 1 .. Size(part)
        BY <1>0, Turns
      <4>2. x \in Nat /\ off <= x /\ x < (Eb(off) + 1) * EbSize
        BY <2>1, <2>3, <4>1
      <4>. QED BY <1>0, <4>2, BlockPages
    <3>. QED BY <2>3, <3>1
  <2> HIDE DEF a, b, f, m
  <2>8. ASSUME NEW i \in 1 .. n PROVE f[off + i - 1] = m + i
    <3> DEFINE x == off + i - 1
    <3>1. x \in Nat /\ x = off + (i - 1) /\ i - 1 \in Nat /\ x <= Size(part) - 1 /\ a <= x
          /\ x < off + n
      BY <2>1, <2>3, <2>5
    <3> HIDE DEF x
    <3>2. Cardinality(GoodPages(b, a, x)) = m + (i - 1)
      <4>1. \A y \in off .. off + (i - 1) - 1 : Eb(y) \notin b
        BY <2>3, <2>7
      <4>2. Cardinality(GoodPages(b, a, off + (i - 1))) = Cardinality(GoodPages(b, a, off)) + (i - 1)
        BY <2>3, <2>5, <3>1, <4>1, CountRow
      <4>. QED BY <2>6, <3>1, <4>2
    <3>3. m + (i - 1) < length
      BY <2>1, <2>3, <2>5
    <3>4. Laid(f, b, a, x + 1)
      <4>1. x \in a .. Size(part) - 1
        BY <2>3, <2>5, <3>1
      <4>. QED BY <2>4, <3>2, <3>3, <4>1 DEF LeftBy
    <3>5. x \in a .. (x + 1) - 1 /\ Eb(x) \notin b
      <4>1. x \in off .. off + n - 1
        BY <2>3, <3>1
      <4>. QED BY <2>5, <2>7, <3>1, <4>1
    <3>6. f[x] = m + (i - 1) + 1
      BY <3>2, <3>4, <3>5 DEF Laid
    <3>7. f[x] = m + i
      BY <2>5, <3>6
    <3>. QED BY <3>7 DEF x
  <2>9. length - rest' = m + n
    BY <2>1, <2>2, <2>3 DEF m
  <2>10. Cardinality(GoodPages(b, a, off + n)) = m + n
    <3>1. Cardinality(GoodPages(b, a, off + n)) = Cardinality(GoodPages(b, a, off)) + n
      BY <2>3, <2>5, <2>7, CountRow
    <3>. QED BY <2>6, <3>1
  <2>11. got' = [i \in 1 .. m + n |-> i]
    <3>1. [i \in 1 .. n |-> f[off + i - 1]] = [i \in 1 .. n |-> m + i]
      BY <2>8
    <3>2. got' = [i \in 1 .. m |-> i] \o [i \in 1 .. n |-> m + i]
      BY <2>2, <2>6, <3>1 DEF f
    <3>. QED BY <2>5, <3>2, CountOn
  <2>. QED BY <2>2, <2>9, <2>10, <2>11 DEF a, b
<1>. QED BY <1>4, <1>5 DEF Moves

LEMMA BeginReadKeepsCursor ==
  ASSUME NEW o \in Nat, NEW n \in Nat \ {0}, BeginRead(o, n)
  PROVE  ReadCursor'
<1>1. /\ part' \in Part /\ part' = PartOf(o) /\ length' = n /\ bad' = bad
      /\ Rel' = o - Start(PartOf(o)) /\ Rel' \in 0 .. Size(part') - 1 /\ got' = <<>>
  BY Begins DEF BeginRead
<1>2. off' = Rel' /\ rest' = n
  BY <1>1 DEF BeginRead
<1>3. Rel' \in Nat /\ length' - rest' = 0
  BY <1>1, <1>2
<1> DEFINE a == Rel'
           b == bad'[part']
<1> HIDE DEF a, b
<1>4. Cardinality(GoodPages(b, a, a)) = 0
  <2>1. a \in Nat
    BY <1>3 DEF a
  <2>. QED BY <2>1, CountNone
<1>5. <<>> = [i \in 1 .. 0 |-> i]
  OBVIOUS
<1>. QED BY <1>1, <1>2, <1>3, <1>4, <1>5 DEF ReadCursor, a, b

(* A read that ends has read back what was written.                        *)
LEMMA ReadEndsBack ==
  ASSUME ReadEnds, DeviceTypes, CallTypes, PageCursor, Written, ReadCursor
  PROVE  ReadsBack'
<1>0. /\ call = "read" /\ ~(rest > 0 /\ off < Size(part))
      /\ UNCHANGED <<part, from, length, bad, wrote, fresh, lossless, got>>
  BY DEF ReadEnds, Running, Return, deviceVars, callVars, ghostVars
<1>1. SUFFICES ASSUME wrote = <<from, length>>, fresh, lossless
               PROVE  /\ got = [i \in 1 .. Len(got) |-> i]
                      /\ Len(got) < length => \E b \in bad[part] : b >= Eb(Rel)
  BY <1>0 DEF ReadsBack, Rel
<1>2. /\ part \in Part /\ Rel \in Nat /\ off \in Nat /\ length \in Nat
      /\ off \in Rel .. Size(part) /\ rest \in 0 .. length /\ Size(part) \in Nat
      /\ part = PartOf(from) /\ Rel < Size(part)
  BY <1>0, CallFacts DEF PageCursor
<1> DEFINE m == length - rest
<1>3. m = Cardinality(GoodPages(bad[part], Rel, off)) /\ got = [i \in 1 .. m |-> i]
  BY <1>0, <1>1 DEF ReadCursor
<1>4. m \in Nat /\ m + rest = length
  BY <1>2
<1> HIDE DEF m
<1>5. Len(got) = m
  BY <1>3, <1>4
<1>6. ASSUME m < length, \A b \in bad[part] : ~(b >= Eb(Rel)) PROVE FALSE
  <2>1. off = Size(part)
    BY <1>0, <1>2, <1>4, <1>6
  <2>2. Rel + length <= Size(part)
    <3>1. PICK p \in Part, o \in Nat, k \in Nat :
            wrote = <<o, k>> /\ p = PartOf(o) /\ o - Start(p) + k <= Size(p)
      BY <1>1 DEF Written
    <3>2. o = from /\ k = length /\ p = part
      BY <1>1, <1>2, <3>1
    <3>. QED BY <3>1, <3>2 DEF Rel
  <2>3. PICK d \in Nat : Size(part) = Rel + d
    <3>1. Size(part) - Rel \in Nat /\ Size(part) = Rel + (Size(part) - Rel)
      BY <1>2
    <3>. QED BY <3>1
  <2>4. \A x \in Rel .. Rel + d - 1 : Eb(x) \notin bad[part]
    <3>1. ASSUME NEW x \in Rel .. Rel + d - 1 PROVE Eb(Rel) <= Eb(x) /\ Eb(x) \in Nat /\ Eb(Rel) \in Nat
      <4>1. x \in Nat /\ Rel <= x
        BY <1>2
      <4>. QED BY <1>2, <4>1, BlockOrder, Blocks
    <3>2. ASSUME NEW x \in Rel .. Rel + d - 1 PROVE Eb(x) >= Eb(Rel)
      BY <3>1
    <3>. QED BY <1>6, <3>2
  <2>5. Cardinality(GoodPages(bad[part], Rel, Rel + d)) = Cardinality(GoodPages(bad[part], Rel, Rel)) + d
    BY <1>2, <2>3, <2>4, CountRow
  <2>6. Cardinality(GoodPages(bad[part], Rel, Rel)) = 0
    BY <1>2, CountNone
  <2>7. m = d
    BY <1>3, <2>1, <2>3, <2>5, <2>6
  <2>. QED BY <1>2, <1>6, <2>2, <2>3, <2>7
<1>. QED BY <1>3, <1>5, <1>6

-----------------------------------------------------------------------------
(* Each step keeps the invariant.                                          *)

LEMMA WrittenStays ==
  ASSUME Written, UNCHANGED <<bad, flashPage, wrote, fresh, lossless>>
  PROVE  Written'
BY DEF Written

(* Where the cursor is in range the types are right.                       *)
LEMMA CursorTypes ==
  ASSUME part' \in Part, length' \in Nat, Rel' \in Nat, call' \in {"erase", "write", "read"},
         EraseCursor', PageCursor'
  PROVE  off' \in 0 .. Size(part') /\ rest' \in 0 .. Size(part') \cup 0 .. length'
<1>1. /\ Size(part') = EbCnt(part') * EbSize /\ EbCnt(part') \in Nat /\ Size(part') \in Nat
  BY PartSizes
<1>2. CASE call' = "erase"
  <2>1. PICK c \in First' .. EbCnt(part'), k \in 0 .. EbCnt(part') :
          off' = c * EbSize /\ rest' = k * EbSize
    BY <1>2 DEF EraseCursor
  <2>2. First' \in Nat
    <3>1. \A x \in Nat : Eb(x) \in Nat
      BY Blocks
    <3>. QED BY <3>1 DEF First
  <2>3. c \in Nat /\ c <= EbCnt(part') /\ k \in Nat /\ k <= EbCnt(part')
    BY <1>1, <2>2
  <2>4. /\ c * EbSize \in Nat /\ c * EbSize <= EbCnt(part') * EbSize
        /\ k * EbSize \in Nat /\ k * EbSize <= EbCnt(part') * EbSize
    BY <1>1, <2>3, Times
  <2>. QED BY <1>1, <2>1, <2>4
<1>3. CASE call' \in {"write", "read"}
  <2>1. off' \in Rel' .. Size(part') /\ rest' \in 0 .. length'
    BY <1>3 DEF PageCursor
  <2>. QED BY <1>1, <2>1
<1>. QED BY <1>2, <1>3

LEMMA QuietKeeps ==
  ASSUME FlashInv, OpenTypes',
         UNCHANGED <<nand, deviceVars, call, callVars, off, rest, blockstart, got, result,
                     ghostVars>>
  PROVE  FlashInv'
<1> USE DEF deviceVars, callVars, ghostVars, FlashInv
<1>1. DeviceTypes'
  BY DEF DeviceTypes
<1>2. Rel' = Rel /\ First' = First /\ Asked' = Asked
  BY SameErase
<1>3. CallTypes'
  BY <1>2 DEF CallTypes
<1>4. EraseCursor'
  BY <1>2 DEF EraseCursor
<1>5. ErasesExactly'
  BY DEF ErasesExactly, Succeeded, Idle
<1>6. PageCursor' /\ WriteCursor' /\ ReadCursor'
  BY <1>2 DEF PageCursor, WriteCursor, ReadCursor
<1>7. Written'
  BY WrittenStays
<1>8. ReadsBack'
  BY DEF ReadsBack, Succeeded, Idle
<1>. QED BY <1>1, <1>3, <1>4, <1>5, <1>6, <1>7, <1>8

(* A call that returns.                                                    *)
LEMMA ReturnKeeps ==
  ASSUME FlashInv, call # "none", NEW ok, Return(ok), opened' \subseteq opened,
         UNCHANGED <<fresh, lossless>>
  PROVE  /\ OpenTypes' /\ DeviceTypes' /\ CallTypes'
         /\ EraseCursor' /\ PageCursor' /\ WriteCursor' /\ ReadCursor'
<1>0. /\ call' = "none" /\ off' = 0 /\ rest' = 0 /\ blockstart' = -1
      /\ UNCHANGED <<initCalled, blkMgr, blockLock, nand, part, from, length, bad, flashPage>>
  BY DEF Return, openVars, callVars, deviceVars
<1>1. OpenTypes'
  BY <1>0 DEF FlashInv, OpenTypes
<1>2. DeviceTypes'
  BY <1>0 DEF FlashInv, DeviceTypes
<1>3. CallTypes'
  <2>1. Size(part) \in Nat /\ EbCnt(part) \in Nat \ {0} /\ length \in Nat
    BY PartSizes, CapacityType DEF FlashInv, CallTypes
  <2>. QED BY <1>0, <2>1 DEF FlashInv, CallTypes
<1>. QED BY <1>0, <1>1, <1>2, <1>3 DEF EraseCursor, PageCursor, WriteCursor, ReadCursor

LEMMA OtherResult ==
  ASSUME NEW c, NEW d, NEW ok, [call |-> c, ok |-> ok] = [call |-> d, ok |-> TRUE]
  PROVE  c = d /\ ok = TRUE
<1>1. /\ [call |-> c, ok |-> ok].call = c /\ [call |-> d, ok |-> TRUE].call = d
      /\ [call |-> c, ok |-> ok].ok = ok /\ [call |-> d, ok |-> TRUE].ok = TRUE
  OBVIOUS
<1>. QED BY <1>1

(* An access that fails, or a partition that ends behind bad blocks.       *)
Fails == call # "none" /\ Closeall

LEMMA FailsKeeps ==
  ASSUME FlashInv, Fails
  PROVE  FlashInv'
<1>0. /\ call # "none" /\ Return(FALSE) /\ opened' \subseteq opened
      /\ UNCHANGED <<wrote, fresh, lossless, bad, flashPage>>
      /\ result' = [call |-> call, ok |-> FALSE]
  BY DEF Fails, Closeall, Return, ghostVars, deviceVars
<1>1. Written'
  BY <1>0, WrittenStays DEF FlashInv
<1>2. /\ OpenTypes' /\ DeviceTypes' /\ CallTypes'
      /\ EraseCursor' /\ PageCursor' /\ WriteCursor' /\ ReadCursor'
  BY <1>0, ReturnKeeps
<1>3. \A c : result' # [call |-> c, ok |-> TRUE]
  BY <1>0, OtherResult
<1>4. ErasesExactly' /\ ReadsBack'
  BY <1>3 DEF ErasesExactly, ReadsBack, Succeeded
<1>. QED BY <1>1, <1>2, <1>4 DEF FlashInv

LEMMA EndsKeep ==
  ASSUME FlashInv, EraseEnds \/ WriteEnds \/ ReadEnds
  PROVE  FlashInv'
<1>1. CASE EraseEnds
  <2>0. /\ call = "erase" /\ Return(Start(part) + off >= from + length) /\ opened' = opened
        /\ UNCHANGED <<wrote, fresh, lossless, bad, flashPage>>
        /\ result' = [call |-> "erase", ok |-> Start(part) + off >= from + length]
    BY <1>1 DEF EraseEnds, Return, ghostVars, deviceVars
  <2>1. Written'
    BY <2>0, WrittenStays DEF FlashInv
  <2>2. ErasesExactly'
    BY <1>1, EraseEndsExactly DEF FlashInv
  <2>3. ReadsBack'
    BY <2>0, OtherResult DEF ReadsBack, Succeeded
  <2>4. /\ OpenTypes' /\ DeviceTypes' /\ CallTypes'
        /\ EraseCursor' /\ PageCursor' /\ WriteCursor' /\ ReadCursor'
    BY <2>0, ReturnKeeps
  <2>. QED BY <2>1, <2>2, <2>3, <2>4 DEF FlashInv
<1>2. CASE WriteEnds
  <2>0. /\ call = "write" /\ Return(TRUE) /\ opened' = opened
        /\ wrote' = <<from, length>> /\ UNCHANGED <<fresh, lossless, bad, flashPage>>
        /\ result' = [call |-> "write", ok |-> TRUE]
    BY <1>2 DEF WriteEnds, Return, deviceVars
  <2>1. Written'
    BY <1>2, WriteEndsWritten DEF FlashInv
  <2>2. ErasesExactly' /\ ReadsBack'
    BY <2>0, OtherResult DEF ReadsBack, ErasesExactly, Succeeded
  <2>4. /\ OpenTypes' /\ DeviceTypes' /\ CallTypes'
        /\ EraseCursor' /\ PageCursor' /\ WriteCursor' /\ ReadCursor'
    BY <2>0, ReturnKeeps
  <2>. QED BY <2>1, <2>2, <2>4 DEF FlashInv
<1>3. CASE ReadEnds
  <2>0. /\ call = "read" /\ Return(Start(part) + off >= from + length) /\ opened' = opened
        /\ UNCHANGED <<wrote, fresh, lossless, bad, flashPage>>
        /\ result' = [call |-> "read", ok |-> Start(part) + off >= from + length]
    BY <1>3 DEF ReadEnds, Return, ghostVars, deviceVars
  <2>1. Written'
    BY <2>0, WrittenStays DEF FlashInv
  <2>2. ReadsBack'
    BY <1>3, ReadEndsBack DEF FlashInv
  <2>3. ErasesExactly'
    BY <2>0, OtherResult DEF ErasesExactly, Succeeded
  <2>4. /\ OpenTypes' /\ DeviceTypes' /\ CallTypes'
        /\ EraseCursor' /\ PageCursor' /\ WriteCursor' /\ ReadCursor'
    BY <2>0, ReturnKeeps
  <2>. QED BY <2>1, <2>2, <2>3, <2>4 DEF FlashInv
<1>. QED BY <1>1, <1>2, <1>3

(* A call that begins.                                                     *)
Starts(o, n) == BeginErase(o, n) \/ BeginWrite(o, n) \/ BeginRead(o, n)

LEMMA ForgetTypes ==
  ASSUME DeviceTypes, Forget, nand' = nand, bad' = bad
  PROVE  DeviceTypes'
<1>1. flashPage' = [p \in Part |-> [i \in DOMAIN flashPage[p] |->
                     IF flashPage[p][i] = Erased THEN Erased ELSE Old]]
  BY DEF Forget
<1>2. ASSUME NEW p \in Part PROVE flashPage'[p] \in [0 .. Size(p) - 1 -> Int]
  <2>1. DOMAIN flashPage[p] = 0 .. Size(p) - 1
    BY DEF DeviceTypes
  <2>. QED BY <1>1, <2>1 DEF Erased, Old
<1>. QED BY <1>1, <1>2 DEF DeviceTypes

LEMMA StartsKeep ==
  ASSUME FlashInv, NEW o \in Nat, NEW n \in Nat \ {0}, Starts(o, n)
  PROVE  FlashInv'
<1>0. Begin(o, n)
  BY DEF Starts, BeginErase, BeginWrite, BeginRead
<1>1. /\ call = "none" /\ part' \in Part /\ part' = PartOf(o) /\ from' = o /\ length' = n
      /\ Rel' = o - Start(PartOf(o)) /\ Rel' \in 0 .. Size(part') - 1
      /\ o \in 0 .. Capacity - 1 /\ n \in 0 .. Capacity
      /\ result' = NoResult /\ UNCHANGED <<openVars, bad>>
  BY <1>0, Begins
<1>2. /\ opened' = opened /\ blockstart' = -1
  BY DEF Starts, BeginErase, BeginWrite, BeginRead, FlashInv, CallTypes, Idle, Begin
<1>3. OpenTypes'
  BY <1>1, <1>2 DEF FlashInv, OpenTypes, openVars
<1>4. \/ Forget /\ call' \in {"erase", "write"} /\ wrote' = <<>> /\ fresh' \in BOOLEAN
         /\ lossless' \in BOOLEAN
      \/ call' = "read" /\ UNCHANGED <<flashPage, wrote, fresh, lossless>>
  BY DEF Starts, BeginErase, BeginWrite, BeginRead, Forget
<1>5. DeviceTypes'
  <2>1. nand' = nand /\ bad' = bad /\ DeviceTypes
    BY <1>1 DEF openVars, FlashInv
  <2>2. CASE Forget
    BY <2>1, <2>2, ForgetTypes
  <2>3. CASE flashPage' = flashPage
    BY <2>1, <2>3 DEF DeviceTypes
  <2>. QED BY <1>4, <2>2, <2>3
<1>6. Rel' \in Nat /\ Size(part') \in Nat /\ EbCnt(part') \in Nat \ {0}
  BY <1>1, PartSizes
<1>7. EraseCursor' /\ PageCursor' /\ WriteCursor' /\ ReadCursor'
  <2>0. blockstart' <= Eb(Rel') /\ blockstart' # Eb(Rel')
    <3>1. Eb(Rel') \in Nat
      BY <1>6, Blocks
    <3>. QED BY <1>2, <3>1
  <2>1. CASE BeginErase(o, n)
    <3>1. call' = "erase"
      BY <2>1 DEF BeginErase
    <3>. QED BY <2>1, <3>1, BeginEraseKeepsCursor DEF PageCursor, WriteCursor, ReadCursor
  <2>2. CASE BeginWrite(o, n)
    <3>1. call' = "write" /\ off' = Rel' /\ rest' = n
      BY <1>1, <2>2 DEF BeginWrite
    <3>2. PageCursor'
      BY <1>1, <1>6, <2>0, <3>1 DEF PageCursor
    <3>. QED BY <2>2, <3>1, <3>2, BeginWriteKeepsCursor DEF EraseCursor, ReadCursor
  <2>3. CASE BeginRead(o, n)
    <3>1. call' = "read" /\ off' = Rel' /\ rest' = n
      BY <1>1, <2>3 DEF BeginRead
    <3>2. PageCursor'
      BY <1>1, <1>6, <2>0, <3>1 DEF PageCursor
    <3>. QED BY <2>3, <3>1, <3>2, BeginReadKeepsCursor DEF EraseCursor, WriteCursor
  <2>. QED BY <2>1, <2>2, <2>3 DEF Starts
<1>8. CallTypes'
  <2>1. off' \in 0 .. Size(part') /\ rest' \in 0 .. Size(part') \cup 0 .. length'
    BY <1>1, <1>4, <1>6, <1>7, CursorTypes
  <2>2. fresh \in BOOLEAN /\ lossless \in BOOLEAN
    BY DEF FlashInv, CallTypes
  <2>. QED BY <1>1, <1>2, <1>4, <1>6, <2>1, <2>2 DEF CallTypes
<1>9. \A c : c \in {"erase", "read"} => result' # [call |-> c, ok |-> TRUE]
  BY <1>1, OtherResult DEF NoResult
<1>10. ErasesExactly' /\ ReadsBack'
  BY <1>9 DEF ErasesExactly, ReadsBack, Succeeded
<1>11. Written'
  <2>1. CASE wrote' = <<>>
    BY <2>1 DEF Written
  <2>2. CASE UNCHANGED <<flashPage, wrote, fresh, lossless>>
    BY <1>1, <2>2, WrittenStays DEF FlashInv
  <2>. QED BY <1>4, <2>1, <2>2
<1>. QED BY <1>3, <1>5, <1>7, <1>8, <1>10, <1>11 DEF FlashInv

LEMMA RefuseKeeps ==
  ASSUME FlashInv, NEW o \in Nat, NEW n \in Nat \ {0}, Refuse(o, n)
  PROVE  FlashInv'
<1>1. /\ call = "none" /\ part' \in Part /\ part' = PartOf(o) /\ from' = o /\ length' = n
      /\ Rel' \in 0 .. Size(part') - 1
      /\ o \in 0 .. Capacity - 1 /\ n \in 0 .. Capacity
      /\ result' = NoResult /\ UNCHANGED <<openVars, bad>>
  BY Begins DEF Refuse
<1>2. /\ opened' \subseteq opened
      /\ UNCHANGED <<flashPage, call, off, rest, blockstart, wrote, fresh, lossless>>
  BY DEF Refuse
<1>3. OpenTypes' /\ DeviceTypes'
  BY <1>1, <1>2 DEF FlashInv, OpenTypes, DeviceTypes, openVars
<1>4. off = 0 /\ rest = 0 /\ blockstart = -1
  BY <1>1 DEF FlashInv, CallTypes
<1>5. CallTypes'
  <2>1. Size(part') \in Nat /\ EbCnt(part') \in Nat \ {0}
    BY <1>1, PartSizes
  <2>. QED BY <1>1, <1>2, <1>4, <2>1 DEF FlashInv, CallTypes
<1>6. EraseCursor' /\ PageCursor' /\ WriteCursor' /\ ReadCursor'
  BY <1>1, <1>2 DEF EraseCursor, PageCursor, WriteCursor, ReadCursor
<1>7. \A c : c \in {"erase", "read"} => result' # [call |-> c, ok |-> TRUE]
  BY <1>1, OtherResult DEF NoResult
<1>8. ErasesExactly' /\ ReadsBack'
  BY <1>7 DEF ErasesExactly, ReadsBack, Succeeded
<1>9. Written'
  BY <1>1, <1>2, WrittenStays DEF FlashInv
<1>. QED BY <1>3, <1>5, <1>6, <1>8, <1>9 DEF FlashInv

(* A step inside a call: what it leaves alone, and the device.             *)
Inside == EraseSkip \/ EraseBlock \/ EraseEIO \/ Moves("write") \/ Moves("read")

LEMMA InsideFacts ==
  ASSUME Inside, CallTypes
  PROVE  /\ call \in {"erase", "write", "read"} /\ off < Size(part) /\ off \in Nat
         /\ part \in Part /\ Eb(off) \in 0 .. EbCnt(part) - 1
         /\ UNCHANGED <<openVars, opened, call, part, from, length, wrote>>
         /\ Rel' = Rel
         /\ fresh' \in BOOLEAN /\ lossless' \in BOOLEAN
         /\ (bad' = bad \/ (nand /\ MarkBad))
         /\ (blockstart' = blockstart \/ blockstart' = Eb(off))
         /\ call = "read" => UNCHANGED <<bad, flashPage, fresh, lossless>>
<1> USE DEF Going, Running, SameCall, callVars, deviceVars, ghostVars
<1>1. fresh \in BOOLEAN /\ lossless \in BOOLEAN
  BY DEF CallTypes
<1>2. CASE EraseSkip \/ EraseBlock \/ EraseEIO
  BY <1>1, <1>2, SameErase, Turns DEF EraseSkip, EraseBlock, EraseEIO, MayGoBad, CallTypes
<1>3. CASE Enter("write") \/ Enter("read")
  BY <1>1, <1>3, SameErase, Turns DEF Enter, CallTypes
<1>4. CASE WritePage
  BY <1>1, <1>4, SameErase, Turns DEF WritePage, CallTypes
<1>5. CASE WriteEIO
  BY <1>1, <1>5, SameErase, Turns DEF WriteEIO, MayGoBad, CallTypes
<1>6. CASE ReadBlock
  BY <1>1, <1>6, SameErase, Turns DEF ReadBlock, CallTypes
<1>. QED BY <1>2, <1>3, <1>4, <1>5, <1>6 DEF Inside, Moves

LEMMA InsideDevice ==
  ASSUME Inside, DeviceTypes, CallTypes, PageCursor
  PROVE  DeviceTypes'
<1>1. /\ off < Size(part) /\ off \in Nat /\ part \in Part /\ Eb(off) \in 0 .. EbCnt(part) - 1
      /\ nand' = nand
      /\ (bad' = bad \/ (nand /\ MarkBad))
  BY InsideFacts DEF openVars
<1>2. /\ nand \in BOOLEAN /\ bad \in [Part -> SUBSET Nat]
      /\ \A p \in Part : bad[p] \subseteq 0 .. EbCnt(p) - 1
      /\ ~nand => \A p \in Part : bad[p] = {}
      /\ DOMAIN flashPage = Part
      /\ \A p \in Part : flashPage[p] \in [0 .. Size(p) - 1 -> Int]
  BY DEF DeviceTypes
<1>3. /\ bad' \in [Part -> SUBSET Nat]
      /\ \A p \in Part : bad'[p] \subseteq 0 .. EbCnt(p) - 1
      /\ ~nand => \A p \in Part : bad'[p] = {}
  <2>1. CASE bad' = bad
    BY <1>2, <2>1
  <2>2. CASE nand /\ MarkBad
    <3>1. bad' = [bad EXCEPT ![part] = bad[part] \cup {Eb(off)}]
      BY <2>2 DEF MarkBad
    <3>2. EbCnt(part) \in Nat /\ Eb(off) \in Nat
      BY <1>1, PartSizes
    <3>3. ASSUME NEW p \in Part PROVE bad'[p] \subseteq 0 .. EbCnt(p) - 1
      <4>1. CASE p = part
        BY <1>1, <1>2, <3>1, <4>1
      <4>2. CASE p # part
        BY <1>1, <1>2, <3>1, <4>2
      <4>. QED BY <4>1, <4>2
    <3>4. bad' \in [Part -> SUBSET Nat]
      BY <1>1, <1>2, <3>1, <3>2
    <3>. QED BY <2>2, <3>3, <3>4
  <2>. QED BY <1>1, <2>1, <2>2
<1>4. /\ DOMAIN flashPage' = Part
      /\ \A p \in Part : flashPage'[p] \in [0 .. Size(p) - 1 -> Int]
  <2>1. CASE flashPage' = flashPage
    BY <1>2, <2>1
  <2>2. CASE \E g : flashPage' = [flashPage EXCEPT ![part] = g] /\ g \in [0 .. Size(part) - 1 -> Int]
    <3>1. PICK g : flashPage' = [flashPage EXCEPT ![part] = g] /\ g \in [0 .. Size(part) - 1 -> Int]
      BY <2>2
    <3>2. ASSUME NEW p \in Part PROVE flashPage'[p] \in [0 .. Size(p) - 1 -> Int]
      <4>1. CASE p = part
        BY <1>1, <1>2, <3>1, <4>1
      <4>2. CASE p # part
        BY <1>1, <1>2, <3>1, <4>2
      <4>. QED BY <4>1, <4>2
    <3>. QED BY <1>2, <3>1, <3>2
  <2>3. CASE EraseBlock
    <3> DEFINE f == flashPage[part]
               g == [o \in DOMAIN f |-> IF Eb(o) = Eb(off) THEN Erased ELSE f[o]]
    <3>1. f \in [0 .. Size(part) - 1 -> Int]
      BY <1>1, <1>2
    <3>2. g \in [0 .. Size(part) - 1 -> Int]
      <4> HIDE DEF f
      <4>. QED BY <3>1 DEF Erased
    <3>3. flashPage' = [flashPage EXCEPT ![part] = g]
      BY <1>1, <1>2, <2>3 DEF EraseBlock
    <3>. QED BY <2>2, <3>2, <3>3
  <2>4. CASE WritePage
    <3> DEFINE f == flashPage[part]
               v == IF f[off] = Erased THEN length - rest + 1 ELSE Old
               g == [f EXCEPT ![off] = v]
    <3>1. f \in [0 .. Size(part) - 1 -> Int]
      BY <1>1, <1>2
    <3>2. v \in Int
      <4>1. call = "write"
        BY <2>4 DEF WritePage, Going, Running
      <4>2. length \in Nat /\ rest \in 0 .. length
        BY <4>1, CapacityType DEF CallTypes, PageCursor
      <4>. QED BY <4>2 DEF Old
    <3>3. flashPage' = [flashPage EXCEPT ![part] = g]
      BY <1>1, <1>2, <2>4 DEF WritePage
    <3> HIDE DEF v, f
    <3>4. g \in [0 .. Size(part) - 1 -> Int]
      BY <3>1, <3>2
    <3>. QED BY <2>2, <3>3, <3>4
  <2>5. flashPage' = flashPage \/ EraseBlock \/ WritePage
    BY DEF Inside, Moves, EraseSkip, EraseEIO, Enter, WriteEIO, ReadBlock, deviceVars
  <2>. QED BY <2>1, <2>3, <2>4, <2>5
<1>5. nand' \in BOOLEAN /\ (~nand' => \A p \in Part : bad'[p] = {})
  <2>1. nand' = nand /\ nand \in BOOLEAN
    BY <1>1, <1>2
  <2>2. ~nand => \A p \in Part : bad'[p] = {}
    BY <1>3
  <2>. QED BY <2>1, <2>2
<1>. QED BY <1>3, <1>4, <1>5 DEF DeviceTypes

LEMMA InsideKeeps ==
  ASSUME FlashInv, Inside
  PROVE  FlashInv'
<1>0. /\ OpenTypes /\ DeviceTypes /\ CallTypes /\ EraseCursor /\ ErasesExactly
      /\ PageCursor /\ WriteCursor /\ Written /\ ReadCursor /\ ReadsBack
  BY DEF FlashInv
<1>1. /\ call \in {"erase", "write", "read"} /\ off < Size(part) /\ off \in Nat
      /\ part \in Part /\ Eb(off) \in 0 .. EbCnt(part) - 1
      /\ UNCHANGED <<openVars, opened, call, part, from, length, wrote>>
      /\ Rel' = Rel
      /\ fresh' \in BOOLEAN /\ lossless' \in BOOLEAN
      /\ (blockstart' = blockstart \/ blockstart' = Eb(off))
      /\ call = "read" => UNCHANGED <<bad, flashPage, fresh, lossless>>
  BY <1>0, InsideFacts
<1>2. OpenTypes'
  BY <1>0, <1>1 DEF OpenTypes, openVars
<1>3. DeviceTypes'
  BY <1>0, InsideDevice
<1>4. /\ EraseSkip \/ EraseBlock \/ EraseEIO => call = "erase"
      /\ Moves("write") => call = "write"
      /\ Moves("read") => call = "read"
  BY <1>0, MoveFacts DEF EraseSkip, EraseBlock, EraseEIO, Going, Running
<1>5. EraseCursor' /\ PageCursor' /\ WriteCursor' /\ ReadCursor'
  <2>1. CASE EraseSkip \/ EraseBlock \/ EraseEIO
    <3>1. call' = "erase"
      BY <1>1, <1>4, <2>1
    <3>2. EraseCursor'
      BY <1>0, <2>1, EraseStepKeepsCursor
    <3>. QED BY <3>1, <3>2 DEF PageCursor, WriteCursor, ReadCursor
  <2>2. CASE Moves("write")
    <3>1. call' = "write"
      BY <1>1, <1>4, <2>2
    <3>2. PageCursor' /\ WriteCursor'
      BY <1>0, <2>2, MoveKeepsPageCursor, WriteKeepsCursor
    <3>. QED BY <3>1, <3>2 DEF EraseCursor, ReadCursor
  <2>3. CASE Moves("read")
    <3>1. call' = "read"
      BY <1>1, <1>4, <2>3
    <3>2. PageCursor' /\ ReadCursor'
      BY <1>0, <2>3, MoveKeepsPageCursor, ReadKeepsCursor
    <3>. QED BY <3>1, <3>2 DEF EraseCursor, WriteCursor
  <2>. QED BY <2>1, <2>2, <2>3 DEF Inside
<1>6. CallTypes'
  <2>1. Rel \in Nat /\ Rel < Size(part) /\ length \in Nat /\ EbCnt(part) \in Nat
    BY <1>0, <1>1, CallFacts
  <2>2. off' \in 0 .. Size(part') /\ rest' \in 0 .. Size(part') \cup 0 .. length'
    BY <1>1, <1>5, <2>1, CursorTypes
  <2>3. blockstart' \in -1 .. EbCnt(part) - 1
    BY <1>0, <1>1, <2>1 DEF CallTypes
  <2>. QED BY <1>0, <1>1, <2>2, <2>3 DEF CallTypes
<1>7. call' # "none"
  BY <1>1
<1>8. ErasesExactly' /\ ReadsBack'
  BY <1>7 DEF ErasesExactly, ReadsBack, Succeeded, Idle
<1>9. Written'
  <2>1. CASE call = "read"
    BY <1>0, <1>1, <2>1, WrittenStays
  <2>2. CASE call \in {"erase", "write"}
    <3>1. wrote = <<>>
      BY <1>0, <2>2 DEF CallTypes
    <3>. QED BY <1>1, <3>1 DEF Written
  <2>. QED BY <1>1, <2>1, <2>2
<1>. QED BY <1>2, <1>3, <1>5, <1>6, <1>8, <1>9 DEF FlashInv

(* What a step is. *)
LEMMA Steps ==
  ASSUME FlashNext
  PROVE  \/ InitFlash \/ DeinitFlash
         \/ \E r \in Ranges : Starts(r[1], r[2]) \/ Refuse(r[1], r[2])
         \/ Fails \/ Inside
         \/ EraseEnds \/ WriteEnds \/ ReadEnds
<1>1. AccessFails => Fails
  BY DEF AccessFails, Running, Fails
<1>2. ASSUME NEW c \in {"write", "read"}, Overflow(c) PROVE Fails
  BY <1>2 DEF Overflow, Going, Running, Fails
<1>3. ASSUME NEW c \in {"write", "read"}, Enter(c) PROVE Inside
  BY <1>3 DEF Inside, Moves
<1>4. FlashStep => Fails \/ Inside \/ EraseEnds \/ WriteEnds \/ ReadEnds
  BY <1>1, <1>2, <1>3 DEF FlashStep, Inside, Moves
<1>. QED BY <1>4 DEF FlashNext, Starts

(* An erase that succeeds has erased what it was asked, and a read of the  *)
(* range written last finds what was written: mtd_basic_erase, _write and  *)
(* _read pass the same bad blocks, on every flash, for every sequence of   *)
(* calls.                                                                  *)
THEOREM FlashInvariant == FlashSpec => []FlashInv
<1>1. FlashInit => FlashInv
  <2> SUFFICES ASSUME FlashInit PROVE FlashInv
    OBVIOUS
  <2>1. /\ initCalled = 0 /\ blkMgr = FALSE /\ blockLock = FALSE /\ opened = {}
        /\ nand \in BOOLEAN
        /\ bad \in [Part -> SUBSET (0 .. Capacity \div EbSize - 1)]
        /\ \A p \in Part : bad[p] \subseteq 0 .. EbCnt(p) - 1 /\ (~nand => bad[p] = {})
        /\ flashPage = [p \in Part |-> [o \in 0 .. Size(p) - 1 |-> Old]]
        /\ call = "none" /\ part = 1 /\ from = 0 /\ length = 0 /\ off = 0 /\ rest = 0
        /\ blockstart = -1 /\ result = NoResult
        /\ wrote = <<>> /\ fresh = FALSE /\ lossless = FALSE
    BY DEF FlashInit
  <2>2. 1 \in Part /\ Len(Partitions) \in Nat \ {0}
    BY FlashAssumption DEF Part
  <2>3. Capacity \in Nat \ {0}
    <3>1. Len(Partitions) \in Part
      BY <2>2 DEF Part
    <3>2. Ends[Len(Partitions)] = Start(Len(Partitions)) + Size(Len(Partitions))
          /\ Size(Len(Partitions)) \in Nat \ {0} /\ Start(Len(Partitions)) \in Nat
      BY <3>1, PartSizes, StartType
    <3>. QED BY <3>2 DEF Capacity
  <2>4. Size(1) \in Nat /\ EbCnt(1) \in Nat \ {0}
    BY <2>2, PartSizes
  <2>5. OpenTypes
    <3>1. blkMgr \in BOOLEAN /\ blockLock \in BOOLEAN
      BY <2>1
    <3>2. initCalled \in 0 .. 1 /\ opened \subseteq Part
      BY <2>1
    <3>. QED BY <3>1, <3>2 DEF OpenTypes
  <2>6. DeviceTypes
    <3>1. bad \in [Part -> SUBSET Nat]
      <4>1. ASSUME NEW p \in Part PROVE bad[p] \subseteq Nat
        <5>1. bad[p] \subseteq 0 .. EbCnt(p) - 1
          BY <2>1
        <5>. QED BY <5>1
      <4>. QED BY <2>1, <4>1
    <3>2. \A p \in Part : flashPage[p] \in [0 .. Size(p) - 1 -> Int]
      BY <2>1 DEF Old
    <3>. QED BY <2>1, <3>1, <3>2 DEF DeviceTypes
  <2>7. CallTypes
    <3>1. fresh \in BOOLEAN /\ lossless \in BOOLEAN
      BY <2>1
    <3>2. /\ part \in Part /\ Size(part) \in Nat /\ EbCnt(part) \in Nat \ {0}
          /\ from \in 0 .. Capacity - 1 /\ length \in 0 .. Capacity
      BY <2>1, <2>2, <2>3, <2>4
    <3>3. /\ off \in 0 .. Size(part) /\ rest \in 0 .. length
          /\ blockstart \in -1 .. EbCnt(part) - 1
      BY <2>1, <3>2
    <3>4. call = "none" /\ off = 0 /\ rest = 0 /\ blockstart = -1
      BY <2>1
    <3>. QED BY <3>1, <3>2, <3>3, <3>4 DEF CallTypes
  <2>8. EraseCursor /\ PageCursor /\ WriteCursor /\ Written /\ ReadCursor
    BY <2>1 DEF EraseCursor, PageCursor, WriteCursor, Written, ReadCursor
  <2>9. \A c : c \in {"erase", "read"} => result # [call |-> c, ok |-> TRUE]
    BY <2>1, OtherResult DEF NoResult
  <2>10. ErasesExactly /\ ReadsBack
    BY <2>9 DEF ErasesExactly, ReadsBack, Succeeded
  <2>. QED BY <2>5, <2>6, <2>7, <2>8, <2>10 DEF FlashInv
<1>2. ASSUME FlashInv, [FlashNext]_flashVars PROVE FlashInv'
  <2>1. CASE UNCHANGED flashVars
    <3>1. OpenTypes'
      BY <1>2, <2>1 DEF FlashInv, OpenTypes, flashVars, openVars
    <3>. QED BY <1>2, <2>1, <3>1, QuietKeeps DEF flashVars, openVars
  <2>2. CASE InitFlash \/ DeinitFlash
    <3>1. OpenTypes'
      <4>1. /\ initCalled \in 0 .. 1 /\ opened \subseteq Part
            /\ blkMgr \in BOOLEAN /\ blockLock \in BOOLEAN
        BY <1>2 DEF FlashInv, OpenTypes
      <4>2. initCalled' \in 0 .. 1 /\ opened' \subseteq Part
        BY <2>2, <4>1 DEF InitFlash, DeinitFlash
      <4>3. blkMgr' \in BOOLEAN
        BY <2>2, <4>1 DEF InitFlash, DeinitFlash
      <4>4. blockLock' \in BOOLEAN
        BY <2>2, <4>1 DEF InitFlash, DeinitFlash
      <4>. QED BY <4>2, <4>3, <4>4 DEF OpenTypes
    <3>. QED BY <1>2, <2>2, <3>1, QuietKeeps DEF InitFlash, DeinitFlash
  <2>3. ASSUME NEW r \in Ranges, Starts(r[1], r[2]) \/ Refuse(r[1], r[2]) PROVE FlashInv'
    BY <1>2, <2>3, RangeTypes, StartsKeep, RefuseKeeps
  <2>4. CASE Fails
    BY <1>2, <2>4, FailsKeeps
  <2>5. CASE Inside
    BY <1>2, <2>5, InsideKeeps
  <2>6. CASE EraseEnds \/ WriteEnds \/ ReadEnds
    BY <1>2, <2>6, EndsKeep
  <2>. QED BY <1>2, <2>1, <2>2, <2>3, <2>4, <2>5, <2>6, Steps
<1>. QED BY <1>1, <1>2, PTL DEF FlashSpec

(* The calls of the flash manager keep the types of the device and of the  *)
(* call under way.                                                         *)
THEOREM FlashTypesAlways == FlashSpec => []FlashTypeOK
<1>1. FlashInv => FlashTypeOK
  BY DEF FlashInv, FlashTypeOK, OpenTypes, DeviceTypes, CallTypes
<1>. QED BY <1>1, FlashInvariant, PTL

(* A successful erase has erased the good blocks from its offset on, as    *)
(* many as its length holds or all there are, and no other, whatever       *)
(* blocks are bad or turn bad under it.                                    *)
THEOREM ErasesExactlyAlways == FlashSpec => []ErasesExactly
<1>1. FlashInv => ErasesExactly
  BY DEF FlashInv
<1>. QED BY <1>1, FlashInvariant, PTL

(* A read of the range written last finds that write's data, page by page, *)
(* when the pages were erased before and no block was lost under way: both *)
(* calls pass the same bad blocks.                                         *)
THEOREM ReadsBackAlways == FlashSpec => []ReadsBack
<1>1. FlashInv => ReadsBack
  BY DEF FlashInv
<1>. QED BY <1>1, FlashInvariant, PTL

============================================================================
