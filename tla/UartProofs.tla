----------------------------- MODULE UartProofs -----------------------------
(***************************************************************************)
(* Proofs about UartProtocol: whatever the payloads, the stray bytes and   *)
(* the chunks, the parser finds the packets that were sent.                *)
(***************************************************************************)
EXTENDS UartProtocol, ListsProofs, SequenceTheorems, TLAPS

LEMMA UartConstants ==
  /\ RbufLen \in Nat /\ RbufLen >= 2 /\ MaxChunk \in 1 .. RbufLen - 1
  /\ FE \in Byte /\ TA \in Byte /\ Cmd \in Byte /\ FE # TA /\ Cmd # FE
BY UartProtocolAssumption DEF FE, TA, Cmd, Byte

(* The limit of a 16-bit word. *)
LEMMA Wide == U16 \in Nat \ {0} /\ U16 = 256 * 256
BY SMTT(10) DEF U16

-----------------------------------------------------------------------------
(* The bytes of a packet.                                                  *)

Word == {w \in Nat : w < U16}

LEMMA ByteNat == \A b \in Byte : b \in Nat /\ b < 256
BY DEF Byte

LEMMA ModRange ==
  ASSUME NEW x \in Nat, NEW m \in Nat \ {0}
  PROVE  x % m \in Nat /\ x % m < m
OBVIOUS

LEMMA SumsType ==
  ASSUME NEW s \in Seq(Byte)
  PROVE  Checksum(s) \in Word
<1> DEFINE T == 1 .. Len(s)
           F == [x \in Word \X T |-> (x[1] + s[x[2]]) % U16]
<1>1. Len(s) \in Nat /\ 0 \in Word
  BY Wide DEF Word
<1>2. ASSUME NEW c \in Word, NEW n \in T PROVE (c + s[n]) % U16 \in Word
  <2>1. s[n] \in Byte
    OBVIOUS
  <2>3. c + s[n] \in Nat
    <3>1. s[n] \in Nat
      BY <2>1, ByteNat
    <3>2. c \in Nat
      BY DEF Word
    <3>. QED BY <3>1, <3>2
  <2>2. (c + s[n]) % U16 \in Nat /\ (c + s[n]) % U16 < U16
    BY <2>3, ModRange, Wide
  <2>. QED BY <2>2 DEF Word
<1>3. F \in [Word \X T -> Word]
  <2> HIDE DEF T
  <2>. QED BY <1>2
<1>3a. \E f \in [0 .. Len(s) -> Word] : Stages(Len(s), 0, F, f)
  <2> HIDE DEF F
  <2>. QED BY <1>1, <1>3, RecDef, ZenonT(10)
<1>4. PICK f \in [0 .. Len(s) -> Word] :
        f[0] = 0 /\ \A n \in T : f[n] = F[<<f[n - 1], n>>]
  <2> HIDE DEF F
  <2>. QED BY <1>3a DEF Stages
<1> DEFINE Is(g) == g = [n \in 0 .. Len(s) |-> IF n = 0 THEN 0 ELSE (g[n - 1] + s[n]) % U16]
<1>5. Is(f)
  <2>1. ASSUME NEW n \in T PROVE f[n] = (f[n - 1] + s[n]) % U16
    <3>1. n - 1 \in 0 .. Len(s)
      BY <1>1
    <3>2. f[n - 1] \in Word
      BY <1>4, <3>1
    <3> HIDE DEF T
    <3>. QED BY <1>4, <3>2
  <2>2. \A n \in 0 .. Len(s) : n # 0 => n \in T
    BY <1>1
  <2>3. f = [n \in 0 .. Len(s) |-> f[n]]
    BY <1>4
  <2> HIDE DEF T
  <2>. QED BY <1>4, <2>1, <2>2, <2>3
<1>6. Sums(s) = CHOOSE g : Is(g)
  BY DEF Sums
<1> HIDE DEF Is
<1>7. Is(Sums(s))
  BY <1>5, <1>6
<1> DEFINE g == Sums(s)
<1>8. g = [n \in 0 .. Len(s) |-> IF n = 0 THEN 0 ELSE (g[n - 1] + s[n]) % U16]
  BY <1>7 DEF Is
<1> HIDE DEF g
<1>9. g[0] \in Word /\ \A n \in T : g[n - 1] \in Word => g[n] \in Word
  <2>1. g[0] = 0
    BY <1>1, <1>8
  <2>2. ASSUME NEW n \in T, g[n - 1] \in Word PROVE g[n] \in Word
    <3>1. g[n] = (g[n - 1] + s[n]) % U16
      BY <1>1, <1>8
    <3>. QED BY <1>2, <2>2, <3>1
  <2>. QED BY <1>1, <2>1, <2>2
<1>10. \A n \in 0 .. Len(s) : g[n] \in Word
  BY <1>1, <1>9, StagesStay
<1>. QED BY <1>1, <1>10 DEF Checksum, g

(* What byte n of a packet becomes. *)
Esc(s, n) == IF n > 2 /\ s[n] = FE THEN <<FE, TA>> ELSE <<s[n]>>

LEMMA EscType ==
  ASSUME NEW s \in Seq(Byte), NEW n \in 1 .. Len(s)
  PROVE  Esc(s, n) \in Seq(Byte) /\ Len(Esc(s, n)) \in {1, 2}
<1>1. s[n] \in Byte /\ FE \in Byte /\ TA \in Byte
  BY UartConstants
<1>. QED BY <1>1 DEF Esc

LEMMA EscapedDef ==
  ASSUME NEW s \in Seq(Byte)
  PROVE  /\ Escaped(s) \in [0 .. Len(s) -> Seq(Byte)] /\ Escaped(s)[0] = <<>>
         /\ \A n \in 1 .. Len(s) : Escaped(s)[n] = Escaped(s)[n - 1] \o Esc(s, n)
<1> DEFINE W == Seq(Byte)
           T == 1 .. Len(s)
           F == [x \in W \X T |-> x[1] \o Esc(s, x[2])]
<1>1. Len(s) \in Nat /\ <<>> \in W
  OBVIOUS
<1>2. ASSUME NEW c \in W, NEW n \in T PROVE c \o Esc(s, n) \in W
  BY EscType, ConcatProperties
<1>3. F \in [W \X T -> W]
  <2> HIDE DEF W, T
  <2>. QED BY <1>2
<1>3a. \E f \in [0 .. Len(s) -> W] : Stages(Len(s), <<>>, F, f)
  <2> HIDE DEF F, W
  <2>. QED BY <1>1, <1>3, RecDef, ZenonT(10)
<1>4. PICK f \in [0 .. Len(s) -> W] :
        f[0] = <<>> /\ \A n \in T : f[n] = F[<<f[n - 1], n>>]
  <2> HIDE DEF F, W
  <2>. QED BY <1>3a DEF Stages
<1> DEFINE Is(g) == g = [n \in 0 .. Len(s) |-> IF n = 0 THEN <<>> ELSE g[n - 1] \o Esc(s, n)]
<1>5. Is(f)
  <2>1. ASSUME NEW n \in T PROVE f[n] = f[n - 1] \o Esc(s, n)
    <3>1. n - 1 \in 0 .. Len(s)
      BY <1>1
    <3>2. f[n - 1] \in W
      BY <1>4, <3>1
    <3> HIDE DEF T, W
    <3>. QED BY <1>4, <3>2
  <2>2. \A n \in 0 .. Len(s) : n # 0 => n \in T
    BY <1>1
  <2>3. f = [n \in 0 .. Len(s) |-> f[n]]
    BY <1>4
  <2> HIDE DEF T, W
  <2>. QED BY <1>4, <2>1, <2>2, <2>3
<1>6. Escaped(s) = CHOOSE g : Is(g)
  BY DEF Escaped, Esc
<1> HIDE DEF Is
<1>7. Is(Escaped(s))
  BY <1>5, <1>6
<1> DEFINE g == Escaped(s)
<1>8. g = [n \in 0 .. Len(s) |-> IF n = 0 THEN <<>> ELSE g[n - 1] \o Esc(s, n)]
  BY <1>7 DEF Is
<1> HIDE DEF g
<1>9. g[0] = <<>> /\ \A n \in T : g[n] = g[n - 1] \o Esc(s, n)
  <2>1. \A n \in T : n \in 0 .. Len(s) /\ n # 0
    BY <1>1
  <2>2. 0 \in 0 .. Len(s)
    BY <1>1
  <2> HIDE DEF T
  <2>. QED BY <1>8, <2>1, <2>2
<1>10. \A n \in 0 .. Len(s) : g[n] \in W
  <2>1. g[0] \in W /\ \A n \in T : g[n - 1] \in W => g[n] \in W
    <3> HIDE DEF W
    <3>. QED BY <1>1, <1>2, <1>9
  <2> HIDE DEF W
  <2>. QED BY <1>1, <2>1, StagesStay
<1>11. g \in [0 .. Len(s) -> W]
  <2>1. g = [n \in 0 .. Len(s) |-> g[n]]
    BY <1>8
  <2> HIDE DEF W
  <2>. QED BY <1>10, <2>1
<1>. QED BY <1>9, <1>11 DEF g

(* How many bytes the first n become. *)
Off(s, n) == Len(Escaped(s)[n])

LEMMA OffStep ==
  ASSUME NEW s \in Seq(Byte)
  PROVE  /\ Off(s, 0) = 0 /\ \A n \in 0 .. Len(s) : Off(s, n) \in Nat
         /\ \A n \in 1 .. Len(s) :
              Off(s, n) = Off(s, n - 1) + IF n > 2 /\ s[n] = FE THEN 2 ELSE 1
<1>1. \A n \in 0 .. Len(s) : Escaped(s)[n] \in Seq(Byte)
  BY EscapedDef
<1>2. Off(s, 0) = 0 /\ \A n \in 0 .. Len(s) : Off(s, n) \in Nat
  BY <1>1, EscapedDef DEF Off
<1>3. ASSUME NEW n \in 1 .. Len(s)
      PROVE  Off(s, n) = Off(s, n - 1) + IF n > 2 /\ s[n] = FE THEN 2 ELSE 1
  <2> DEFINE e == Esc(s, n)
             g == Escaped(s)[n - 1]
  <2>1. g \in Seq(Byte) /\ e \in Seq(Byte) /\ Escaped(s)[n] = g \o e
    BY <1>1, EscapedDef, EscType
  <2>2. Len(e) = IF n > 2 /\ s[n] = FE THEN 2 ELSE 1
    BY DEF Esc
  <2> HIDE DEF e, g
  <2>3. Len(g \o e) = Len(g) + Len(e)
    BY <2>1, ConcatProperties
  <2>. QED BY <2>1, <2>2, <2>3 DEF Off, g
<1>. QED BY <1>2, <1>3

(* What the first n bytes become stands at the front of what more become.  *)
LEMMA EscapedGrows ==
  ASSUME NEW s \in Seq(Byte), NEW n \in 0 .. Len(s)
  PROVE  \A m \in n .. Len(s) :
           /\ Off(s, m) - Off(s, n) >= m - n
           /\ \A k \in 1 .. Off(s, n) : Escaped(s)[m][k] = Escaped(s)[n][k]
<1> DEFINE E(m) == Escaped(s)[m]
           P(m) == /\ Off(s, m) - Off(s, n) >= m - n
                   /\ \A k \in 1 .. Off(s, n) : E(m)[k] = E(n)[k]
           G == {m \in Nat : m >= n /\ m <= Len(s) => P(m)}
<1>0. \A m \in 0 .. Len(s) : E(m) \in Seq(Byte) /\ Off(s, m) \in Nat /\ Len(E(m)) = Off(s, m)
  BY EscapedDef, OffStep DEF Off
<1> HIDE DEF E
<1>1. 0 \in G
  BY <1>0
<1>2. ASSUME NEW m \in Nat, m \in G PROVE m + 1 \in G
  <2> SUFFICES ASSUME m + 1 >= n, m + 1 <= Len(s) PROVE P(m + 1)
    OBVIOUS
  <2>1. CASE n = m + 1
    BY <1>0, <2>1
  <2>2. CASE n # m + 1
    <3>1. m >= n /\ m \in 0 .. Len(s) /\ m + 1 \in 1 .. Len(s) /\ (m + 1) - 1 = m
      BY <2>2
    <3>2. P(m)
      BY <1>2, <3>1
    <3>3. Off(s, m + 1) >= Off(s, m) + 1
      <4>1. Off(s, m + 1) = Off(s, m) + IF m + 1 > 2 /\ s[m + 1] = FE THEN 2 ELSE 1
        BY <3>1, OffStep
      <4>. QED BY <1>0, <3>1, <4>1
    <3>4. Off(s, m + 1) - Off(s, n) >= (m + 1) - n
      BY <1>0, <3>1, <3>2, <3>3
    <3>5. E(m + 1) = E(m) \o Esc(s, m + 1) /\ Esc(s, m + 1) \in Seq(Byte)
      BY <3>1, EscapedDef, EscType DEF E
    <3>6. \A k \in 1 .. Len(E(m)) : E(m + 1)[k] = E(m)[k]
      BY <1>0, <3>1, <3>5, ConcatProperties
    <3>7. \A k \in 1 .. Off(s, n) : k \in 1 .. Len(E(m))
      BY <1>0, <3>1, <3>2
    <3>8. \A k \in 1 .. Off(s, n) : E(m + 1)[k] = E(n)[k]
      BY <3>2, <3>6, <3>7
    <3>. QED BY <3>4, <3>8
  <2>. QED BY <2>1, <2>2
<1>3. \A m \in Nat : m \in G
  <2> HIDE DEF G
  <2>. QED BY <1>1, <1>2, NatSetInduction
<1>. QED BY <1>3 DEF E

(* Where byte n stands in what the packet becomes, and its escape.         *)
LEMMA EscapedAt ==
  ASSUME NEW s \in Seq(Byte), NEW n \in 1 .. Len(s)
  PROVE  LET t == PackTranslate(s)
         IN  /\ t \in Seq(Byte) /\ Len(t) = Off(s, Len(s)) /\ Off(s, n) <= Len(t)
             /\ t[Off(s, n - 1) + 1] = s[n]
             /\ n > 2 /\ s[n] = FE => t[Off(s, n - 1) + 2] = TA
<1> DEFINE t == PackTranslate(s)
           e == Escaped(s)[n]
           g == Escaped(s)[n - 1]
<1>1. Len(s) \in Nat /\ n - 1 \in 0 .. Len(s) /\ n \in 0 .. Len(s) /\ Len(s) \in n .. Len(s)
  OBVIOUS
<1>2. t = Escaped(s)[Len(s)] /\ t \in Seq(Byte) /\ Len(t) = Off(s, Len(s))
  BY <1>1, EscapedDef DEF PackTranslate, Off
<1>3. Off(s, n) <= Len(t) /\ \A k \in 1 .. Off(s, n) : t[k] = e[k]
  <2>1. Off(s, n) \in Nat /\ Off(s, Len(s)) \in Nat
    BY <1>1, OffStep
  <2>2. /\ Off(s, Len(s)) - Off(s, n) >= Len(s) - n
        /\ \A k \in 1 .. Off(s, n) : Escaped(s)[Len(s)][k] = Escaped(s)[n][k]
    BY <1>1, EscapedGrows
  <2>3. Off(s, n) <= Off(s, Len(s))
    BY <1>1, <2>1, <2>2
  <2>. QED BY <1>2, <2>2, <2>3
<1>4. e = g \o Esc(s, n) /\ g \in Seq(Byte) /\ Esc(s, n) \in Seq(Byte) /\ Len(g) = Off(s, n - 1)
  BY <1>1, EscapedDef, EscType DEF Off
<1>5. Off(s, n) = Off(s, n - 1) + Len(Esc(s, n)) /\ Off(s, n - 1) \in Nat
  <2>1. Len(Esc(s, n)) = IF n > 2 /\ s[n] = FE THEN 2 ELSE 1
    BY DEF Esc
  <2>. QED BY <1>1, <2>1, OffStep
<1> DEFINE x == Esc(s, n)
<1>6. Len(x) \in {1, 2}
  BY EscType
<1>7. x[1] = s[n] /\ (n > 2 /\ s[n] = FE => Len(x) = 2 /\ x[2] = TA)
  BY DEF Esc
<1> HIDE DEF t, e, g, x
<1>8. \A k \in 1 .. Len(x) : e[Len(g) + k] = x[k]
  <2>1. g \in Seq(Byte) /\ x \in Seq(Byte) /\ e = g \o x
    BY <1>4 DEF x
  <2>2. \A k \in 1 .. Len(g) + Len(x) : e[k] = IF k <= Len(g) THEN g[k] ELSE x[k - Len(g)]
    BY <2>1, ConcatProperties
  <2>. QED BY <1>6, <2>1, <2>2
<1>9. \A k \in 1 .. Len(x) : t[Off(s, n - 1) + k] = x[k]
  <2>1. \A k \in 1 .. Len(x) : Off(s, n - 1) + k \in 1 .. Off(s, n)
    BY <1>5, <1>6 DEF x
  <2>. QED BY <1>3, <1>4, <1>8, <2>1
<1>10. t[Off(s, n - 1) + 1] = s[n]
  BY <1>6, <1>7, <1>9
<1>11. ASSUME n > 2, s[n] = FE PROVE t[Off(s, n - 1) + 2] = TA
  <2>1. Len(x) = 2 /\ x[2] = TA
    BY <1>7, <1>11
  <2>2. 2 \in 1 .. Len(x)
    BY <2>1
  <2>. QED BY <1>9, <2>1, <2>2
<1>. QED BY <1>2, <1>3, <1>10, <1>11 DEF t

-----------------------------------------------------------------------------
(* The packet of a payload, and its image on the line.                     *)

(* The length field's high byte cannot be FE. *)
FitsLength(pl) == Len(pl) + 4 < FE * 256

Packet(pl, n) == PackBuild(Cmd, pl, n)
Image(pl, n) == PackTranslate(Packet(pl, n))

LEMMA WordBytes ==
  ASSUME NEW w \in Nat, w < U16, NEW q, q = w \div 256, NEW r, r = w % 256
  PROVE  q \in Byte /\ r \in Byte /\ q * 256 + r = w
<1>1. q \in Nat /\ r \in Nat /\ r < 256
  OBVIOUS
<1>2. w = q * 256 + r
  BY <1>1
<1>3. q < 256
  BY <1>1, <1>2, Wide
<1>. QED BY <1>1, <1>2, <1>3 DEF Byte

(* The two parts of a concatenation. *)
Joins(t, s1, s2) ==
  /\ Len(t) = Len(s1) + Len(s2)
  /\ \A i \in 1 .. Len(s1) : t[i] = s1[i]
  /\ \A i \in 1 .. Len(s2) : t[Len(s1) + i] = s2[i]

LEMMA ConcatParts ==
  ASSUME NEW S, NEW s1 \in Seq(S), NEW s2 \in Seq(S), NEW t, t = s1 \o s2
  PROVE  t \in Seq(S) /\ Joins(t, s1, s2)
<1>1. Len(s1) \in Nat /\ Len(s2) \in Nat
  OBVIOUS
<1>2. \A i \in 1 .. Len(s1) : i \in 1 .. Len(s1) + Len(s2) /\ i <= Len(s1)
  BY <1>1
<1>3. \A i \in 1 .. Len(s2) : /\ Len(s1) + i \in 1 .. Len(s1) + Len(s2)
                              /\ ~(Len(s1) + i <= Len(s1)) /\ (Len(s1) + i) - Len(s1) = i
  BY <1>1
<1>. QED BY <1>2, <1>3, ConcatProperties DEF Joins

(* What the parser relies on in a packet. *)
PacketHas(s, pl) ==
  /\ s \in Seq(Byte) /\ Len(s) = Len(pl) + 8
  /\ s[1] = FE /\ s[2] = FE /\ s[3] # FE /\ s[5] = Cmd
  /\ s[3] * 256 + s[4] = Len(pl) + 4
  /\ SubSeq(s, 7, Len(s) - 2) = pl
  /\ Checksum(SubSeq(s, 1, Len(s) - 2)) = s[Len(s) - 1] * 256 + s[Len(s)]

LEMMA PacketShape ==
  ASSUME NEW pl \in Seq(Byte), FitsLength(pl), NEW n \in Byte,
         NEW s, s = Packet(pl, n)
  PROVE  PacketHas(s, pl)
<1> DEFINE len == Len(pl) + 4
           hi == len \div 256
           lo == len % 256
           head == <<FE, FE, hi % 256, lo, Cmd, n>>
           body == head \o pl
           sum == Checksum(body)
           tail == <<sum \div 256, sum % 256>>
<1>0. s = body \o tail
  BY DEF Packet, PackBuild
<1>1. len \in Nat /\ len < U16 /\ len < FE * 256
  BY Wide DEF FitsLength, FE
<1>2. hi \in Byte /\ lo \in Byte /\ hi * 256 + lo = len
  <2>1. hi = len \div 256 /\ lo = len % 256
    OBVIOUS
  <2> HIDE DEF len, hi, lo
  <2>. QED BY <1>1, <2>1, WordBytes
<1>3. hi % 256 = hi /\ hi # FE
  <2>1. hi \in Nat /\ hi < 256 /\ lo \in Nat
    BY <1>2, ByteNat
  <2>2. hi % 256 = hi
    <3> HIDE DEF hi
    <3>. QED BY <2>1
  <2>3. hi # FE
    <3> HIDE DEF hi, lo, len
    <3>. QED BY <1>1, <1>2, <2>1 DEF FE
  <2>. QED BY <2>2, <2>3
<1>4. /\ head \in Seq(Byte) /\ Len(head) = 6
      /\ head[1] = FE /\ head[2] = FE /\ head[3] = hi /\ head[4] = lo /\ head[5] = Cmd
  <2> HIDE DEF hi, lo
  <2>. QED BY <1>2, <1>3, UartConstants
<1> HIDE DEF head, hi, lo
<1>5. body \in Seq(Byte) /\ Joins(body, head, pl)
  <2>1. body = head \o pl
    OBVIOUS
  <2> HIDE DEF body
  <2>. QED BY <1>4, <2>1, ConcatParts
<1> HIDE DEF body
<1>6. tail \in Seq(Byte) /\ Len(tail) = 2 /\ tail[1] * 256 + tail[2] = sum
  <2> DEFINE b == sum \div 256
             c == sum % 256
  <2>1. sum \in Nat /\ sum < U16
    BY <1>5, SumsType DEF Word
  <2>2. b = sum \div 256 /\ c = sum % 256 /\ tail = <<b, c>>
    OBVIOUS
  <2> HIDE DEF sum, b, c, tail
  <2>3. b \in Byte /\ c \in Byte /\ b * 256 + c = sum
    BY <2>1, <2>2, WordBytes
  <2>. QED BY <2>2, <2>3
<1> HIDE DEF tail
<1>7. s \in Seq(Byte) /\ Joins(s, body, tail)
  BY <1>5, <1>6, <1>0, ConcatParts
<1>8. Len(s) = Len(pl) + 8 /\ Len(body) = Len(pl) + 6 /\ Len(pl) \in Nat
  BY <1>4, <1>5, <1>6, <1>7 DEF Joins
<1>9. s[1] = FE /\ s[2] = FE /\ s[3] = hi /\ s[4] = lo /\ s[5] = Cmd
  BY <1>4, <1>5, <1>7, <1>8 DEF Joins
<1>10. SubSeq(s, 7, Len(s) - 2) = pl
  <2>1. SubSeq(s, 7, Len(s) - 2) = [k \in 1 .. Len(pl) |-> s[7 + k - 1]]
    BY <1>7, <1>8 DEF Joins
  <2>2. \A k \in 1 .. Len(pl) : s[7 + k - 1] = pl[k]
    <3>1. ASSUME NEW k \in 1 .. Len(pl) PROVE s[7 + k - 1] = pl[k]
      <4>1. 7 + k - 1 \in 1 .. Len(body) /\ 7 + k - 1 = Len(head) + k
        BY <1>4, <1>5, <1>8
      <4>. QED BY <1>5, <1>7, <4>1 DEF Joins
    <3>. QED BY <3>1
  <2>3. pl = [k \in 1 .. Len(pl) |-> pl[k]]
    OBVIOUS
  <2>. QED BY <2>1, <2>2, <2>3
<1>11. SubSeq(s, 1, Len(s) - 2) = body
  <2>1. SubSeq(s, 1, Len(s) - 2) = [k \in 1 .. Len(body) |-> s[1 + k - 1]]
    BY <1>5, <1>7, <1>8, <1>6 DEF Joins
  <2>2. \A k \in 1 .. Len(body) : s[1 + k - 1] = body[k]
    BY <1>7 DEF Joins
  <2>3. body = [k \in 1 .. Len(body) |-> body[k]]
    BY <1>5
  <2>. QED BY <2>1, <2>2, <2>3
<1>12. s[Len(s) - 1] * 256 + s[Len(s)] = sum
  <2>1. s[Len(s) - 1] = tail[1] /\ s[Len(s)] = tail[2]
    <3>1. Len(s) - 1 = Len(body) + 1 /\ Len(s) = Len(body) + 2 /\ {1, 2} \subseteq 1 .. Len(tail)
      BY <1>5, <1>6, <1>7, <1>8 DEF Joins
    <3>. QED BY <1>7, <3>1 DEF Joins
  <2>. QED BY <1>6, <2>1
<1>13. Checksum(SubSeq(s, 1, Len(s) - 2)) = s[Len(s) - 1] * 256 + s[Len(s)]
  BY <1>11, <1>12
<1>14. s[3] * 256 + s[4] = Len(pl) + 4
  BY <1>2, <1>9
<1>. QED BY <1>3, <1>7, <1>8, <1>9, <1>10, <1>13, <1>14 DEF PacketHas

(* In the image only the two opening bytes are 0xFEs side by side, and a   *)
(* byte of the packet never ends in a 0xFE but for those.                  *)
ImageHas(s, t) ==
  /\ t \in Seq(Byte) /\ Len(t) = Off(s, Len(s)) /\ Len(t) >= Len(s)
  /\ Off(s, 1) = 1 /\ Off(s, 2) = 2 /\ Off(s, 3) = 3
  /\ \A k \in 2 .. Len(t) - 1 : t[k] = FE => t[k + 1] # FE
  /\ \A m \in 3 .. Len(s) : t[Off(s, m)] # FE

LEMMA ImageShape ==
  ASSUME NEW s \in Seq(Byte), Len(s) >= 3, s[1] = FE, s[2] = FE, s[3] # FE,
         NEW t, t = PackTranslate(s)
  PROVE  ImageHas(s, t)
<1> DEFINE E(m) == Escaped(s)[m]
           P(m) == /\ E(m)[Off(s, m)] # FE
                   /\ \A k \in 2 .. Off(s, m) - 1 : E(m)[k] = FE => E(m)[k + 1] # FE
           G == {m \in Nat : m >= 3 /\ m <= Len(s) => P(m)}
<1>0. /\ Len(s) \in Nat
      /\ \A m \in 0 .. Len(s) : E(m) \in Seq(Byte) /\ Off(s, m) \in Nat /\ Len(E(m)) = Off(s, m)
  BY EscapedDef, OffStep DEF Off
<1>1. Off(s, 1) = 1 /\ Off(s, 2) = 2 /\ Off(s, 3) = 3
  <2>1. 1 \in 1 .. Len(s) /\ 2 \in 1 .. Len(s) /\ 3 \in 1 .. Len(s)
    BY <1>0
  <2>2. /\ Off(s, 1) = Off(s, 1 - 1) + IF 1 > 2 /\ s[1] = FE THEN 2 ELSE 1
        /\ Off(s, 2) = Off(s, 2 - 1) + IF 2 > 2 /\ s[2] = FE THEN 2 ELSE 1
        /\ Off(s, 3) = Off(s, 3 - 1) + IF 3 > 2 /\ s[3] = FE THEN 2 ELSE 1
    BY <2>1, OffStep
  <2>3. Off(s, 0) = 0
    BY OffStep
  <2>4. Off(s, 1) = 1
    BY <2>2, <2>3
  <2>5. Off(s, 2) = 2
    BY <2>2, <2>4
  <2>. QED BY <2>2, <2>4, <2>5
<1>2. t = E(Len(s)) /\ t \in Seq(Byte) /\ Len(t) = Off(s, Len(s))
  BY <1>0 DEF PackTranslate
<1>3. \A m \in 0 .. Len(s) : \A k \in 1 .. Off(s, m) : t[k] = E(m)[k]
  <2>1. ASSUME NEW m \in 0 .. Len(s) PROVE \A k \in 1 .. Off(s, m) : t[k] = E(m)[k]
    <3>1. Len(s) \in m .. Len(s)
      BY <1>0
    <3>2. \A k \in 1 .. Off(s, m) : Escaped(s)[Len(s)][k] = Escaped(s)[m][k]
      BY <3>1, EscapedGrows
    <3>. QED BY <1>2, <3>2
  <2>. QED BY <2>1
<1>4. t[3] = s[3]
  <2>1. 3 \in 1 .. Len(s) /\ 3 - 1 = 2
    BY <1>0
  <2>2. t[Off(s, 3 - 1) + 1] = s[3]
    BY <2>1, EscapedAt
  <2>. QED BY <1>1, <2>1, <2>2
<1>5. Len(t) >= Len(s)
  <2>1. Off(s, Len(s)) - Off(s, 0) >= Len(s) - 0
    <3>1. 0 \in 0 .. Len(s) /\ Len(s) \in 0 .. Len(s)
      BY <1>0
    <3>. QED BY <3>1, EscapedGrows
  <2>2. Off(s, 0) = 0 /\ Off(s, Len(s)) \in Nat
    BY <1>0, OffStep
  <2>. QED BY <1>0, <1>2, <2>1, <2>2
<1> HIDE DEF E
<1>6. 0 \in G
  OBVIOUS
<1>7. ASSUME NEW m \in Nat, m \in G PROVE m + 1 \in G
  <2> SUFFICES ASSUME m + 1 >= 3, m + 1 <= Len(s) PROVE P(m + 1)
    OBVIOUS
  <2>1. CASE m + 1 = 3
    <3>1. 3 \in 0 .. Len(s) /\ 3 \in 1 .. Off(s, 3)
      BY <1>0, <1>1
    <3>2. E(3)[3] = s[3]
      BY <1>3, <1>4, <3>1
    <3>3. Off(s, m + 1) = 3 /\ E(m + 1) = E(3)
      BY <1>1, <2>1
    <3>4. \A k \in 2 .. Off(s, m + 1) - 1 : k + 1 = 3
      BY <3>3
    <3>. QED BY <3>2, <3>3, <3>4
  <2>2. CASE m + 1 # 3
    <3> DEFINE x == Esc(s, m + 1)
               o == Off(s, m)
    <3>1. m >= 3 /\ m \in 0 .. Len(s) /\ m + 1 \in 1 .. Len(s) /\ (m + 1) - 1 = m
          /\ m + 1 > 2
      BY <1>0, <2>2
    <3>2. P(m)
      BY <1>7, <3>1
    <3>3. E(m) \in Seq(Byte) /\ o \in Nat /\ Len(E(m)) = o
      BY <1>0, <3>1
    <3>4. E(m + 1) = E(m) \o x /\ x \in Seq(Byte)
      BY <3>1, EscapedDef, EscType DEF E
    <3>5. Joins(E(m + 1), E(m), x)
      BY <3>3, <3>4, ConcatParts
    <3>6. IF s[m + 1] = FE THEN Len(x) = 2 /\ x[1] = FE /\ x[2] = TA
                           ELSE Len(x) = 1 /\ x[1] # FE
      BY <3>1 DEF Esc
    <3>7. Off(s, m + 1) = o + Len(x)
      <4>1. m + 1 \in 0 .. Len(s)
        BY <3>1
      <4>. QED BY <1>0, <3>3, <3>5, <4>1 DEF Joins
    <3> HIDE DEF x, o
    <3>8. /\ \A k \in 1 .. o : E(m + 1)[k] = E(m)[k]
          /\ \A k \in 1 .. Len(x) : E(m + 1)[o + k] = x[k]
      BY <3>3, <3>5 DEF Joins
    <3>9. Len(x) \in {1, 2} /\ E(m + 1)[o + 1] = x[1] /\ (Len(x) = 2 => E(m + 1)[o + 2] = x[2])
      BY <3>6, <3>8
    <3>10. E(m + 1)[Off(s, m + 1)] # FE
      <4>1. TA # FE
        BY UartConstants
      <4>. QED BY <3>6, <3>7, <3>9, <4>1
    <3>11. ASSUME NEW k \in 2 .. Off(s, m + 1) - 1, E(m + 1)[k] = FE PROVE E(m + 1)[k + 1] # FE
      <4>1. CASE k < o
        <5>1. k \in 2 .. o - 1 /\ k \in 1 .. o /\ k + 1 \in 1 .. o
          BY <3>3, <4>1
        <5>. QED BY <3>2, <3>8, <3>11, <5>1 DEF o
      <4>2. CASE k = o
        <5>1. k \in 1 .. o
          BY <3>3, <4>2
        <5>. QED BY <3>2, <3>8, <3>11, <4>2, <5>1 DEF o
      <4>3. CASE k > o
        <5> DEFINE w == Len(x)
        <5>1. w \in {1, 2} /\ o \in Nat /\ k \in Int /\ k <= (o + w) - 1
          BY <3>3, <3>7, <3>9
        <5> HIDE DEF w
        <5>3. w = 2 /\ k = o + 1 /\ k + 1 = o + 2
          BY <4>3, <5>1
        <5>2. TA # FE
          BY UartConstants
        <5>. QED BY <3>6, <3>9, <5>2, <5>3 DEF w
      <4>. QED BY <3>3, <4>1, <4>2, <4>3
    <3>. QED BY <3>10, <3>11
  <2>. QED BY <2>1, <2>2
<1>8. \A m \in Nat : m \in G
  <2> HIDE DEF G
  <2>. QED BY <1>6, <1>7, NatSetInduction
<1>9. \A m \in 3 .. Len(s) : P(m)
  BY <1>0, <1>8
<1>10. \A k \in 2 .. Len(t) - 1 : t[k] = FE => t[k + 1] # FE
  <2>1. P(Len(s))
    BY <1>0, <1>9
  <2>. QED BY <1>2, <2>1
<1>11. \A m \in 3 .. Len(s) : t[Off(s, m)] # FE
  <2>1. ASSUME NEW m \in 3 .. Len(s) PROVE t[Off(s, m)] # FE
    <3>1. m \in 0 .. Len(s) /\ P(m)
      BY <1>0, <1>9
    <3>2. Off(s, m) - Off(s, 3) >= m - 3
      <4>1. 3 \in 0 .. Len(s) /\ m \in 3 .. Len(s)
        BY <1>0
      <4>. QED BY <4>1, EscapedGrows
    <3>3. Off(s, m) \in 1 .. Off(s, m)
      BY <1>0, <1>1, <3>1, <3>2
    <3>. QED BY <1>3, <3>1, <3>3
  <2>. QED BY <2>1
<1>. QED BY <1>1, <1>2, <1>5, <1>10, <1>11 DEF ImageHas
-----------------------------------------------------------------------------
(* Places and cells: place a lies in cell a % c of a ring of c cells.      *)

Splits(a, c, r) == \E q \in Int : a = c * q + r

LEMMA Quotient ==
  ASSUME NEW c \in Nat \ {0}, NEW a \in Int, NEW r, r = a % c
  PROVE  Splits(a, c, r)
<1> DEFINE q == a \div c
<1>1. q \in Int /\ r \in Int /\ q = a \div c
  OBVIOUS
<1> HIDE DEF q
<1>2. a = c * q + r
  BY <1>1
<1>. QED BY <1>1, <1>2 DEF Splits
LEMMA Remainder ==
  ASSUME NEW c \in Nat \ {0}, NEW q \in Int, NEW r \in 0 .. c - 1, NEW a \in Int, a = c * q + r
  PROVE  a % c = r
<1> DEFINE s == a % c
<1>1. s \in 0 .. c - 1 /\ s = a % c
  OBVIOUS
<1> HIDE DEF s
<1>2. PICK e \in Int : a = c * e + s
  <2>1. Splits(a, c, s)
    BY <1>1, Quotient, Zenon
  <2>. QED BY <2>1 DEF Splits
<1> DEFINE d == q - e
<1>3. d \in Int /\ c * d = s - r
  <2>1. c * (q - e) = c * q - c * e
    OBVIOUS
  <2>. QED BY <1>1, <1>2, <2>1
<1> HIDE DEF d
<1>4. -c < c * d /\ c * d < c
  BY <1>1, <1>3
<1>5. d = 0
  BY <1>3, <1>4
<1>6. s = r
  BY <1>1, <1>3, <1>5
<1>. QED BY <1>6 DEF s

(* A cursor moved on is the remainder of the place moved on. *)
LEMMA ModShift ==
  ASSUME NEW c \in Nat \ {0}, NEW a \in Int, NEW j \in Int
  PROVE  ((a % c) + j) % c = (a + j) % c
<1> DEFINE r == a % c
           b == r + j
           s == b % c
<1>1. r \in Int /\ b \in Int /\ s \in 0 .. c - 1 /\ r = a % c /\ b = r + j /\ s = b % c
  OBVIOUS
<1> HIDE DEF r, b, s
<1>2. PICK q \in Int : a = c * q + r
  <2>1. Splits(a, c, r)
    BY <1>1, Quotient, Zenon
  <2>. QED BY <2>1 DEF Splits
<1>3. PICK e \in Int : b = c * e + s
  <2>1. Splits(b, c, s)
    BY <1>1, Quotient, Zenon
  <2>. QED BY <2>1 DEF Splits
<1>4. a + j = c * (q + e) + s
  <2>1. c * (q + e) = c * q + c * e
    OBVIOUS
  <2>. QED BY <1>1, <1>2, <1>3, <2>1
<1> DEFINE d == q + e
           w == a + j
<1>5. d \in Int /\ w \in Int /\ w = c * d + s
  BY <1>4
<1> HIDE DEF d, w
<1>6. s \in 0 .. c - 1 /\ d \in Int /\ w \in Int /\ w = c * d + s
  BY <1>1, <1>5
<1>7. w % c = s
  BY <1>6, Remainder
<1>. QED BY <1>1, <1>7 DEF w
(* Places less than a turn apart lie in different cells. *)
LEMMA ModApart ==
  ASSUME NEW c \in Nat \ {0}, NEW a \in Int, NEW b \in Int, -c < a - b, a - b < c,
         a % c = b % c
  PROVE  a = b
<1> DEFINE r == a % c
<1>1. r \in Int /\ r = a % c /\ r = b % c
  OBVIOUS
<1> HIDE DEF r
<1>2. PICK q \in Int : a = c * q + r
  <2>1. Splits(a, c, r)
    BY <1>1, Quotient, Zenon
  <2>. QED BY <2>1 DEF Splits
<1>3. PICK e \in Int : b = c * e + r
  <2>1. Splits(b, c, r)
    BY <1>1, Quotient, Zenon
  <2>. QED BY <2>1 DEF Splits
<1> DEFINE d == q - e
<1>4. d \in Int /\ a - b = c * d
  <2>1. c * (q - e) = c * q - c * e
    OBVIOUS
  <2>. QED BY <1>1, <1>2, <1>3, <2>1
<1> HIDE DEF d
<1>5. d = 0
  <2>1. -c < c * d /\ c * d < c
    BY <1>4
  <2>. QED BY <1>4, <2>1
<1>. QED BY <1>4, <1>5

LEMMA MaskShift ==
  ASSUME NEW a \in Int, NEW j \in Int
  PROVE  Mask(a) \in Cursor /\ Mask(Mask(a) + j) = Mask(a + j)
<1>1. RbufLen \in Nat \ {0}
  BY UartConstants
<1>2. Mask(a) \in Cursor
  BY <1>1 DEF Mask, Cursor
<1>. QED BY <1>1, <1>2, ModShift DEF Mask

LEMMA MaskApart ==
  ASSUME NEW a \in Int, NEW b \in Int, -RbufLen < a - b, a - b < RbufLen, Mask(a) = Mask(b)
  PROVE  a = b
<1>1. RbufLen \in Nat \ {0}
  BY UartConstants
<1>2. a % RbufLen = b % RbufLen
  BY DEF Mask
<1>. QED BY <1>1, <1>2, ModApart

LEMMA MaskCursor == \A c \in Cursor : Mask(c) = c
BY UartConstants DEF Mask, Cursor

LEMMA MaskTurn == Mask(-RbufLen) = 0
<1> DEFINE z == -RbufLen
<1>1. RbufLen \in Nat \ {0} /\ z \in Int /\ z = RbufLen * (-1) + 0 /\ 0 \in 0 .. RbufLen - 1 /\ -1 \in Int
  BY UartConstants
<1> HIDE DEF z
<1>2. z % RbufLen = 0
  BY <1>1, Remainder
<1>. QED BY <1>2 DEF z, Mask
-----------------------------------------------------------------------------
(* The invariant.  S is everything that has been on the line since the     *)
(* receiver started, in front of it as many old bytes of the ring that its *)
(* places and the ring's cursors agree: place k of S lies in cell k.       *)
(* Packet i begins behind place at[i] and has the sequence number ns[i].   *)

Pkt(ns, i) == Packet(sent[i][2], ns[i])
Img(ns, i) == PackTranslate(Pkt(ns, i))
End(at, ns, i) == at[i] + Len(Img(ns, i))

(* S holds the packets in their order, and elsewhere no 0xFE stands before *)
(* another or at the end.                                                  *)
Line(S, at, ns) ==
  /\ S \in Seq(Byte)
  /\ sent \in Seq({Cmd} \X Payload)
  /\ at \in [1 .. Len(sent) -> Nat] /\ ns \in [1 .. Len(sent) -> Byte]
  /\ \A i \in 1 .. Len(sent) :
       /\ End(at, ns, i) <= Len(S)
       /\ \A k \in 1 .. Len(Img(ns, i)) : S[at[i] + k] = Img(ns, i)[k]
  /\ \A i, j \in 1 .. Len(sent) : i < j => End(at, ns, i) <= at[j]
  /\ \A k \in 1 .. Len(S) : S[k] = FE =>
       k < Len(S) /\ (S[k + 1] = FE => \E i \in 1 .. Len(sent) : k = at[i] + 1)

(* The ring holds the places from R, the next to be read, up to W, the     *)
(* next to be written, and the one before R; the wire holds the rest.      *)
Ring(S, R, W) ==
  /\ RbufLen <= R /\ R <= W /\ W <= Len(S) + 1 /\ W - R < RbufLen
  /\ wire \in Seq(Byte) /\ Len(wire) = Len(S) + 1 - W
  /\ \A k \in 1 .. Len(wire) : wire[k] = S[W + k - 1]
  /\ ring \in [Cursor -> Byte]
  /\ read = Mask(R) /\ write = Mask(W)
  /\ \A k \in R - 1 .. W - 1 : ring[Mask(k)] = S[k]
  /\ S[W - 1] # FE

(* The packets in front of R have been handled, the others begin at R or   *)
(* behind it.                                                              *)
Done(at, ns, R) ==
  /\ handled \in Seq({Cmd} \X Payload) /\ Len(handled) <= Len(sent)
  /\ \A i \in 1 .. Len(handled) : handled[i] = sent[i] /\ End(at, ns, i) < R
  /\ \A i \in Len(handled) + 1 .. Len(sent) : R <= at[i] + 1

(* The next packet begins at R. *)
Opens(at, R) == Len(handled) < Len(sent) /\ R = at[Len(handled) + 1] + 1

(* handle has returned: the ring is empty or holds a part of a packet. *)
Waits(at, ns, R, W) ==
  R = W \/ (Opens(at, R) /\ W <= End(at, ns, Len(handled) + 1))

(* recvLen bytes of packet s have been seen, P is the place of the next. *)
Sees(s, R, P) ==
  /\ recvLen \in 1 .. Len(s) - 1
  /\ P = R + Off(s, recvLen)
  /\ \/ recvLen = 1 /\ status = "SYNC2"
     \/ recvLen = 2 /\ status = "LEN_H"
     \/ recvLen = 3 /\ status = "LEN_L" /\ slen = s[3]
     \/ recvLen > 3 /\ status = "PL" /\ slen = Len(s) - 4

(* extract_pro_pkg is at place P. *)
Scans(at, ns, R, W, P) ==
  /\ p = Mask(P) /\ R <= P /\ P <= W
  /\ \/ status = "SYNC1" /\ P = R
     \/ Opens(at, R) /\ Sees(Pkt(ns, Len(handled) + 1), R, P)

Track(S, at, ns, R, W, P) ==
  /\ Line(S, at, ns) /\ Ring(S, R, W) /\ Done(at, ns, R)
  /\ pc = "idle" => Waits(at, ns, R, W)
  /\ pc = "scan" => Scans(at, ns, R, W, P)
  /\ pc \in {"idle", "scan"}

UartInv ==
  sn \in Byte /\ \E S, at, ns : \E R, W, P \in Nat : Track(S, at, ns, R, W, P)

-----------------------------------------------------------------------------
(* What the invariant says of one packet.                                  *)

LEMMA PayloadFits ==
  ASSUME UartFits, NEW pl \in Payload, NEW n \in Byte
  PROVE  FitsLength(pl) /\ pl \in Seq(Byte) /\ Len(Image(pl, n)) + MaxChunk <= RbufLen
BY UartProtocolAssumption DEF UartFits, FitsLength, Image, Packet

LEMMA ImageFramed ==
  ASSUME UartFits, NEW pl \in Payload, NEW n \in Byte,
         NEW s, s = Packet(pl, n), NEW t, t = PackTranslate(s)
  PROVE  PacketHas(s, pl) /\ ImageHas(s, t) /\ Len(s) < U16
<1>1. FitsLength(pl) /\ pl \in Seq(Byte)
  BY PayloadFits
<1>2. PacketHas(s, pl)
  BY <1>1, PacketShape
<1>3. Len(pl) \in Nat /\ Len(s) >= 3
  BY <1>1, <1>2 DEF PacketHas
<1>4. ImageHas(s, t)
  <2>1. s \in Seq(Byte) /\ s[1] = FE /\ s[2] = FE /\ s[3] # FE
    BY <1>2 DEF PacketHas
  <2>. QED BY <1>3, <2>1, ImageShape
<1>5. Len(s) < U16
  <2>1. Len(pl) + 4 < FE * 256
    BY <1>1 DEF FitsLength
  <2> DEFINE l == Len(pl)
             m == Len(s)
  <2>2. l \in Nat /\ l + 4 < FE * 256 /\ m = l + 8
    BY <1>2, <1>3, <2>1 DEF PacketHas
  <2> HIDE DEF l, m
  <2>3. m < U16
    BY <2>2, Wide DEF FE
  <2>. QED BY <2>3 DEF m
<1>. QED BY <1>2, <1>4, <1>5

LEMMA PktFramed ==
  ASSUME UartFits, NEW S, NEW at, NEW ns, Line(S, at, ns), NEW i \in 1 .. Len(sent)
  PROVE  /\ PacketHas(Pkt(ns, i), sent[i][2]) /\ ImageHas(Pkt(ns, i), Img(ns, i))
         /\ Len(Pkt(ns, i)) < U16
         /\ sent[i] = <<Cmd, sent[i][2]>> /\ sent[i][2] \in Payload
         /\ Len(Img(ns, i)) + MaxChunk <= RbufLen
<1>1. sent[i] \in {Cmd} \X Payload /\ ns[i] \in Byte
  BY DEF Line
<1>2. sent[i] = <<Cmd, sent[i][2]>> /\ sent[i][2] \in Payload
  BY <1>1
<1>. QED BY <1>1, <1>2, ImageFramed, PayloadFits DEF Pkt, Img, Image
-----------------------------------------------------------------------------
(* What the parser sees.                                                   *)

LEMMA Look ==
  ASSUME NEW S \in Seq(Byte), NEW R \in Nat, NEW W \in Nat, Ring(S, R, W),
         NEW P \in Nat, R <= P, P <= W, p = Mask(P), p # write
  PROVE  /\ P < W /\ 1 < P /\ P <= Len(S) /\ Cell(p) = S[P] /\ Cell(p - 1) = S[P - 1]
         /\ S[P] = FE => P + 1 < W /\ Cell(p + 1) = S[P + 1]
<1>1. P # W
  BY DEF Ring
<1>2. P < W /\ P - 1 \in R - 1 .. W - 1 /\ P \in R - 1 .. W - 1
  BY <1>1
<1>3. /\ Mask(p) = Mask(P) /\ Mask(p - 1) = Mask(P - 1) /\ Mask(p + 1) = Mask(P + 1)
  <2>1. P \in Int /\ 1 \in Int /\ -1 \in Int
    OBVIOUS
  <2>2. Mask(P) \in Cursor /\ Mask(Mask(P) + (-1)) = Mask(P + (-1))
    BY <2>1, MaskShift
  <2>3. Mask(Mask(P) + 1) = Mask(P + 1)
    BY <2>1, MaskShift
  <2>4. Mask(Mask(P)) = Mask(P)
    BY <2>2, MaskCursor
  <2>5. p \in Int
    BY <2>2 DEF Cursor
  <2>6. Mask(P) - 1 = Mask(P) + (-1) /\ P - 1 = P + (-1)
    BY <2>5
  <2>. QED BY <2>2, <2>3, <2>4, <2>6
<1>4. Cell(p) = S[P] /\ Cell(p - 1) = S[P - 1]
  BY <1>2, <1>3 DEF Cell, Ring
<1>5. ASSUME S[P] = FE PROVE P + 1 < W /\ Cell(p + 1) = S[P + 1]
  <2>1. P # W - 1
    BY <1>5 DEF Ring
  <2>2. P + 1 < W /\ P + 1 \in R - 1 .. W - 1
    BY <1>2, <2>1
  <2>. QED BY <1>3, <2>2 DEF Cell, Ring
<1>6. 1 < P /\ P <= Len(S)
  <2>1. RbufLen >= 2 /\ RbufLen \in Nat
    BY UartConstants
  <2>. QED BY <1>2, <2>1 DEF Ring
<1>. QED BY <1>2, <1>4, <1>5, <1>6

(* Between the packets no packet begins at R or just before it. *)
LEMMA Outside ==
  ASSUME UartFits, NEW S, NEW at, NEW ns, Line(S, at, ns), NEW R \in Nat,
         Done(at, ns, R), ~Opens(at, R), NEW i \in 1 .. Len(sent)
  PROVE  R # at[i] + 1 /\ R - 1 # at[i] + 1
<1> DEFINE h == Len(handled)
<1>1. at[i] \in Nat /\ Len(Img(ns, i)) >= 8 /\ Len(Img(ns, i)) \in Nat /\ h \in Nat /\ h <= Len(sent)
  <2>1. PacketHas(Pkt(ns, i), sent[i][2]) /\ ImageHas(Pkt(ns, i), Img(ns, i)) /\ sent[i][2] \in Seq(Byte)
    BY PktFramed, PayloadFits, UartProtocolAssumption
  <2>2. at[i] \in Nat
    BY DEF Line
  <2>3. Len(Img(ns, i)) >= 8 /\ Len(Img(ns, i)) \in Nat
    <3>1. Len(sent[i][2]) \in Nat
      BY <2>1
    <3>2. Len(Pkt(ns, i)) >= 8
      BY <2>1, <3>1 DEF PacketHas
    <3>3. Len(Img(ns, i)) >= Len(Pkt(ns, i)) /\ Len(Img(ns, i)) \in Nat
      BY <2>1 DEF ImageHas
    <3>4. Len(Pkt(ns, i)) \in Nat
      BY <2>1 DEF PacketHas
    <3>. QED BY <3>2, <3>3, <3>4
  <2>. QED BY <2>2, <2>3 DEF Done
<1>2. CASE i <= h
  <2>1. at[i] + Len(Img(ns, i)) < R
    BY <1>1, <1>2 DEF Done, End
  <2>. QED BY <1>1, <2>1
<1>3. CASE i > h
  <2>1. R <= at[i] + 1
    BY <1>1, <1>3 DEF Done
  <2>2. h < Len(sent) /\ h + 1 \in 1 .. Len(sent) /\ h + 1 \in h + 1 .. Len(sent)
    BY <1>1, <1>3
  <2>3. R <= at[h + 1] + 1 /\ R # at[h + 1] + 1 /\ at[h + 1] \in Nat
    BY <2>2 DEF Done, Opens, Line
  <2>4. CASE i = h + 1
    BY <1>1, <2>3, <2>4
  <2>5. CASE i # h + 1
    <3> DEFINE l == Len(Img(ns, h + 1))
    <3>1. at[h + 1] + l <= at[i] /\ l \in Nat
      <4>1. h + 1 < i
        BY <1>1, <1>3, <2>5
      <4>2. Img(ns, h + 1) \in Seq(Byte)
        BY <2>2, PktFramed DEF ImageHas
      <4>. QED BY <2>2, <4>1, <4>2 DEF Line, End
    <3> DEFINE a == at[h + 1]
               b == at[i]
    <3>2. a \in Nat /\ b \in Nat /\ a + l <= b /\ R <= a + 1 /\ R # a + 1
      BY <1>1, <2>3, <3>1
    <3> HIDE DEF l, a, b
    <3>3. R < b + 1
      BY <3>1, <3>2
    <3>4. R # b + 1 /\ R - 1 # b + 1
      BY <3>2, <3>3
    <3>. QED BY <3>4 DEF b
  <2>. QED BY <2>4, <2>5
<1>. QED BY <1>1, <1>2, <1>3

(* A 0xFE outside the packets stands alone. *)
LEMMA Alone ==
  ASSUME UartFits, NEW S, NEW at, NEW ns, Line(S, at, ns), NEW R \in Nat, 1 < R, R <= Len(S),
         Done(at, ns, R), ~Opens(at, R), S[R] = FE
  PROVE  S[R + 1] # FE /\ S[R - 1] # FE
<1>1. \A i \in 1 .. Len(sent) : R # at[i] + 1 /\ R - 1 # at[i] + 1
  BY Outside
<1>2. S[R + 1] # FE
  <2>1. R \in 1 .. Len(S)
    BY DEF Line
  <2>. QED BY <1>1, <2>1 DEF Line
<1>3. S[R - 1] # FE
  <2>1. R - 1 \in 1 .. Len(S) /\ (R - 1) + 1 = R
    BY DEF Line
  <2>. QED BY <1>1, <2>1 DEF Line
<1>. QED BY <1>2, <1>3

(* The byte of the packet s with the image t that place P stands at, its   *)
(* neighbours and the place of the next byte.                              *)
Stands(S, t, s, n, P) ==
  /\ P \in Nat /\ Off(s, n) \in Nat /\ S[P] = s[n + 1]
  /\ Off(s, n + 1) = Off(s, n) + IF n + 1 > 2 /\ s[n + 1] = FE THEN 2 ELSE 1
  /\ Off(s, n + 1) <= Len(t)
  /\ n > 1 /\ s[n + 1] = FE => S[P + 1] = TA
  /\ n = 1 => S[P + 1] # FE /\ S[P - 1] = FE
  /\ n > 2 => S[P - 1] # FE

LEMMA InPacket ==
  ASSUME UartFits, NEW S, NEW at, NEW ns, Line(S, at, ns), NEW R \in Nat,
         NEW i \in 1 .. Len(sent), R = at[i] + 1,
         NEW s, s = Pkt(ns, i), NEW n \in 1 .. Len(s) - 1, NEW P, P = R + Off(s, n)
  PROVE  Stands(S, Img(ns, i), s, n, P)
<1> DEFINE t == Img(ns, i)
           o == Off(s, n)
           e == Off(s, n + 1)
<1>1. PacketHas(s, sent[i][2]) /\ ImageHas(s, t) /\ s \in Seq(Byte) /\ t = PackTranslate(s)
  <2>1. PacketHas(s, sent[i][2]) /\ ImageHas(s, t)
    BY PktFramed
  <2>2. t = PackTranslate(s)
    BY DEF Img
  <2>. QED BY <2>1, <2>2 DEF PacketHas
<1>2. /\ n \in 0 .. Len(s) /\ n \in 1 .. Len(s) /\ n + 1 \in 1 .. Len(s) /\ n + 1 \in 0 .. Len(s)
      /\ (n + 1) - 1 = n /\ Len(s) \in Nat
  BY <1>1
<1>3. o \in Nat /\ e \in Nat /\ e = o + IF n + 1 > 2 /\ s[n + 1] = FE THEN 2 ELSE 1
  BY <1>1, <1>2, OffStep
<1>4. /\ t \in Seq(Byte) /\ e <= Len(t) /\ t[o + 1] = s[n + 1]
      /\ n + 1 > 2 /\ s[n + 1] = FE => t[o + 2] = TA
  BY <1>1, <1>2, EscapedAt
<1>5. o >= 1
  <2>1. Off(s, n) - Off(s, 0) >= n - 0
    <3>1. 0 \in 0 .. Len(s) /\ n \in 0 .. Len(s)
      BY <1>2
    <3>. QED BY <1>1, <3>1, EscapedGrows
  <2>2. Off(s, 0) = 0
    BY <1>1, OffStep
  <2>. QED BY <1>3, <2>1, <2>2
<1>6. at[i] \in Nat /\ \A k \in 1 .. Len(t) : S[at[i] + k] = t[k]
  BY DEF Line
<1>7. Len(t) \in Nat
  BY <1>4
<1>8. n > 2 => t[o] # FE
  <2>1. n > 2 => n \in 3 .. Len(s)
    BY <1>2
  <2>. QED BY <1>1, <2>1 DEF ImageHas
<1>9. End(at, ns, i) = at[i] + Len(t)
  BY DEF End
<1> DEFINE l == Len(t)
           b == at[i]
<1> HIDE DEF t, o, e, l
<1>10. P = b + (o + 1) /\ P - 1 = b + o /\ P + 1 = b + (o + 2)
  <2>1. P = R + o /\ R = b + 1 /\ b \in Nat
    BY <1>6 DEF o, b
  <2>2. o \in Nat
    BY <1>3
  <2>3. P = b + 1 + o /\ P \in Nat
    BY <2>1, <2>2
  <2> HIDE DEF b
  <2>4. P = b + (o + 1)
    BY <2>1, <2>2, <2>3
  <2>5. P - 1 = b + o
    BY <2>1, <2>2, <2>3
  <2>6. P + 1 = b + (o + 2)
    BY <2>1, <2>2, <2>3
  <2>. QED BY <2>4, <2>5, <2>6
<1> HIDE DEF b
<1>11. l \in Nat /\ b \in Nat /\ e <= l /\ o \in 1 .. l /\ o + 1 \in 1 .. l
  BY <1>3, <1>4, <1>5, <1>6, <1>7 DEF l, b
<1>12. S[P] = t[o + 1] /\ S[P - 1] = t[o] /\ (o + 2 \in 1 .. l => S[P + 1] = t[o + 2])
  BY <1>6, <1>10, <1>11 DEF l, b
<1>13. n > 1 /\ s[n + 1] = FE => o + 2 \in 1 .. l
  BY <1>3, <1>11
<1>14. P \in Nat
  BY <1>10, <1>11
<1>15. ASSUME n = 1 PROVE S[P + 1] # FE /\ S[P - 1] = FE
  <2>1. o = 1 /\ t[1] = FE /\ t[3] # FE /\ l >= 8
    <3>1. Off(s, 1) = 1 /\ Off(s, 0) = 0 /\ Off(s, 2) = 2 /\ s[1] = FE /\ s[3] # FE /\ 3 \in 1 .. Len(s)
          /\ 1 \in 1 .. Len(s) /\ l >= 8
      <4>1. Len(sent[i][2]) \in Nat /\ Len(s) >= 8
        <5>1. sent[i][2] \in Seq(Byte)
          BY PktFramed, PayloadFits, UartProtocolAssumption
        <5>2. Len(s) = Len(sent[i][2]) + 8
          BY <1>1 DEF PacketHas
        <5>. QED BY <5>1, <5>2
      <4>2. l >= Len(s)
        BY <1>1 DEF ImageHas, l
      <4>3. l >= 8
        BY <1>2, <1>11, <4>1, <4>2
      <4>4. Off(s, 0) = 0
        BY <1>1, OffStep
      <4>5. 3 \in 1 .. Len(s) /\ 1 \in 1 .. Len(s)
        BY <1>2, <4>1
      <4>. QED BY <1>1, <4>3, <4>4, <4>5 DEF PacketHas, ImageHas
    <3>2. t[Off(s, 1 - 1) + 1] = s[1] /\ t[Off(s, 3 - 1) + 1] = s[3]
      BY <1>1, <3>1, EscapedAt
    <3>3. 1 - 1 = 0 /\ 3 - 1 = 2 /\ 0 + 1 = 1 /\ 2 + 1 = 3
      OBVIOUS
    <3>4. t[1] = FE /\ t[3] # FE
      BY <3>1, <3>2, <3>3
    <3>. QED BY <1>15, <3>1, <3>4 DEF o
  <2>2. o + 2 = 3 /\ o + 2 \in 1 .. l
    BY <1>11, <2>1
  <2>. QED BY <1>12, <2>1, <2>2
<1>16. S[P - 1] = t[o]
  BY <1>12
<1>17. S[P] = s[n + 1] /\ (n > 1 /\ s[n + 1] = FE => S[P + 1] = TA) /\ (n > 2 => S[P - 1] # FE)
  <2>1. n > 1 => n + 1 > 2
    BY <1>2
  <2>. QED BY <1>4, <1>8, <1>12, <1>13, <2>1 DEF l
<1>18. e <= Len(t)
  BY <1>4
<1>. QED BY <1>3, <1>14, <1>15, <1>17, <1>18 DEF Stands, t, o, e
-----------------------------------------------------------------------------
(* The steps of the parser.                                                *)

Char(st, pp, rd) == [status |-> st, p |-> pp, read |-> rd, legal |-> TRUE]

LEMMA PlainChar ==
  ASSUME NEW data, data # FE
  PROVE  ExtractTransChar(data) = Char(status, p, read)
BY DEF ExtractTransChar, Char

LEMMA FirstChar ==
  ASSUME Cell(p + 1) = FE
  PROVE  ExtractTransChar(FE) = Char("SYNC1", p, p)
BY DEF ExtractTransChar, Char

LEMMA SecondChar ==
  ASSUME Cell(p + 1) # FE, Cell(p - 1) = FE
  PROVE  ExtractTransChar(FE) = Char("SYNC2", p, Mask(p - 1))
BY DEF ExtractTransChar, Char

LEMMA EscapeChar ==
  ASSUME Cell(p + 1) = TA, Cell(p - 1) # FE, status \in {"LEN_L", "PL"}
  PROVE  ExtractTransChar(FE) = Char(status, Mask(p + 1), read)
<1>1. Cell(p + 1) # FE
  BY UartConstants
<1>. QED BY <1>1 DEF ExtractTransChar, Char

LEMMA IllegalChar ==
  ASSUME Cell(p + 1) # FE, Cell(p - 1) # FE, status = "SYNC1"
  PROVE  ExtractTransChar(FE) =
           [status |-> "SYNC1", p |-> Mask(p + 1), read |-> Mask(p + 1), legal |-> FALSE]
BY DEF ExtractTransChar

(* What the steps do with a legal character. *)
LEMMA NotIllegal ==
  ASSUME NEW st, NEW pp, NEW rd, ExtractTransChar(Cell(p)) = Char(st, pp, rd)
  PROVE  ~ScanIllegal
BY DEF ScanIllegal, Char

LEMMA HeadStep ==
  ASSUME ScanHead, NEW st, NEW pp, NEW rd, ExtractTransChar(Cell(p)) = Char(st, pp, rd)
  PROVE  /\ UNCHANGED <<sendVars, ring, write, pc, handled>>
         /\ p' = Mask(pp + 1) /\ st # "PL"
         /\ st = "SYNC1" /\ Cell(p) = FE =>
              status' = "SYNC2" /\ recvLen' = 1 % U16 /\ read' = Mask(rd + 0)
         /\ st = "SYNC1" /\ Cell(p) # FE => status' = "SYNC1" /\ read' = Mask(rd + 1)
         /\ st = "SYNC2" /\ Cell(p) = FE =>
              status' = "LEN_H" /\ recvLen' = (recvLen + 1) % U16 /\ read' = Mask(rd + 0)
         /\ st = "LEN_H" => /\ status' = "LEN_L" /\ recvLen' = (recvLen + 1) % U16
                            /\ read' = Mask(rd + 0) /\ slen' = Cell(p)
         /\ st = "LEN_L" => /\ status' = "PL" /\ recvLen' = (recvLen + 1) % U16
                            /\ read' = Mask(rd + 0) /\ slen' = (slen % 256) * 256 + Cell(p)
<1> DEFINE c == ExtractTransChar(Cell(p))
<1>1. c.legal /\ c.status = st /\ c.p = pp /\ c.read = rd
  BY DEF Char
<1> HIDE DEF c
<1>. QED BY <1>1 DEF ScanHead, c

LEMMA BodyStep ==
  ASSUME ScanBody, NEW st, NEW pp, NEW rd, ExtractTransChar(Cell(p)) = Char(st, pp, rd)
  PROVE  /\ UNCHANGED <<sendVars, ring, write, pc, slen, handled>>
         /\ st = "PL" /\ (recvLen + 1) % U16 # slen + 4
         /\ status' = "PL" /\ recvLen' = (recvLen + 1) % U16 /\ read' = rd /\ p' = Mask(pp + 1)
BY DEF ScanBody, Char

LEMMA CompleteStep ==
  ASSUME ScanComplete, NEW st, NEW pp, NEW rd, ExtractTransChar(Cell(p)) = Char(st, pp, rd),
         NEW packet, packet = ReadOut(rd, recvLen + 1)
  PROVE  /\ UNCHANGED <<sendVars, ring, write>>
         /\ st = "PL" /\ (recvLen + 1) % U16 = slen + 4
         /\ read' = packet.read
         /\ ~packet.empty => PackHandle(packet.bytes) /\ ExtractStarts(packet.read)
BY DEF ScanComplete, Char

LEMMA IllegalStep ==
  ASSUME ScanIllegal \/ ScanHead \/ ScanBody \/ ScanComplete,
         NEW pp, NEW rd, NEW st,
         ExtractTransChar(Cell(p)) = [status |-> st, p |-> pp, read |-> rd, legal |-> FALSE]
  PROVE  /\ UNCHANGED <<sendVars, ring, write, pc, recvLen, slen, handled>>
         /\ status' = st /\ p' = pp /\ read' = rd
<1> DEFINE c == ExtractTransChar(Cell(p))
<1>1. ~c.legal /\ c.status = st /\ c.p = pp /\ c.read = rd
  OBVIOUS
<1> HIDE DEF c
<1>2. ~ScanHead /\ ~ScanBody /\ ~ScanComplete
  BY <1>1 DEF ScanHead, ScanBody, ScanComplete, c
<1>. QED BY <1>1, <1>2 DEF ScanIllegal, c

(* What no step of the parser changes. *)
LEMMA LineMoves ==
  ASSUME NEW S, NEW at, NEW ns, Line(S, at, ns),
         NEW R \in Nat, NEW W \in Nat, Ring(S, R, W), NEW Q \in Nat, R <= Q, Q <= W,
         UNCHANGED <<sendVars, ring, write>>, read' = Mask(Q)
  PROVE  Line(S, at, ns)' /\ Ring(S, Q, W)'
<1>1. sent' = sent /\ wire' = wire
  BY DEF sendVars
<1>2. Line(S, at, ns)'
  BY <1>1 DEF Line, End, Img, Pkt
<1>3. \A k \in Q - 1 .. W - 1 : k \in R - 1 .. W - 1
  OBVIOUS
<1>4. Ring(S, Q, W)'
  <2>1. RbufLen <= Q /\ W - Q < RbufLen
    <3>1. RbufLen \in Nat /\ RbufLen <= R /\ W - R < RbufLen
      BY UartConstants DEF Ring
    <3>. QED BY <3>1
  <2>. QED BY <1>1, <1>3, <2>1 DEF Ring
<1>. QED BY <1>2, <1>4

LEMMA DoneKept ==
  ASSUME NEW at, NEW ns, NEW R, Done(at, ns, R), sent' = sent, handled' = handled
  PROVE  Done(at, ns, R)'
BY DEF Done, End, Img, Pkt

LEMMA EndsStep ==
  ASSUME UartFits, NEW S, NEW at, NEW ns, NEW R \in Nat, NEW W \in Nat, NEW P \in Nat,
         Track(S, at, ns, R, W, P), ScanEnds
  PROVE  Track(S, at, ns, R, W, P)'
<1>1. /\ Line(S, at, ns) /\ Ring(S, R, W) /\ Done(at, ns, R) /\ Scans(at, ns, R, W, P)
      /\ pc' = "idle" /\ UNCHANGED <<sendVars, ring, read, write, p, handled>>
  BY DEF Track, ScanEnds
<1>2. Line(S, at, ns)' /\ Ring(S, R, W)'
  <2>1. read' = Mask(R) /\ R <= W
    BY <1>1 DEF Ring
  <2>. QED BY <1>1, <2>1, LineMoves
<1>3. Done(at, ns, R)'
  BY <1>1, DoneKept DEF sendVars
<1>4. P = W
  <2>1. R <= P /\ P <= W /\ Mask(P) = Mask(W) /\ W - R < RbufLen /\ RbufLen \in Nat
    BY <1>1, UartConstants DEF Scans, Ring, ScanEnds
  <2>2. -RbufLen < P - W /\ P - W < RbufLen /\ P \in Int /\ W \in Int
    BY <2>1
  <2>. QED BY <2>1, <2>2, MaskApart
<1>5. Waits(at, ns, R, W)
  <2> DEFINE i == Len(handled) + 1
             s == Pkt(ns, i)
  <2>1. CASE P = R
    <3>1. R = W
      BY <1>4, <2>1
    <3>. QED BY <3>1 DEF Waits
  <2>2. CASE Opens(at, R) /\ Sees(s, R, P)
    <3>1. i \in 1 .. Len(sent) /\ R = at[i] + 1
      BY <1>1, <2>2 DEF Opens, Done
    <3>2. recvLen \in 1 .. Len(s) - 1 /\ P = R + Off(s, recvLen)
      BY <2>2 DEF Sees
    <3> DEFINE o == Off(s, recvLen)
               e == Off(s, recvLen + 1)
               l == Len(Img(ns, i))
    <3>3. o \in Nat /\ e = o + (IF recvLen + 1 > 2 /\ s[recvLen + 1] = FE THEN 2 ELSE 1) /\ e <= l
      <4> HIDE DEF i, s
      <4>1. s = Pkt(ns, i)
        BY DEF s
      <4>2. Stands(S, Img(ns, i), s, recvLen, P)
        BY <1>1, <3>1, <3>2, <4>1, InPacket
      <4>. QED BY <4>2 DEF Stands
    <3>4. l \in Nat /\ at[i] \in Nat
      <4> HIDE DEF i
      <4>1. Img(ns, i) \in Seq(Byte)
        BY <1>1, <3>1, PktFramed DEF ImageHas
      <4>2. at[i] \in Nat
        BY <1>1, <3>1 DEF Line
      <4>. QED BY <4>1, <4>2
    <3>5. P = R + o
      BY <3>2
    <3> DEFINE b == at[i]
    <3>6. b \in Nat /\ R = b + 1
      BY <3>1, <3>4
    <3> HIDE DEF o, e, l, b, i, s
    <3>7. e >= o + 1
      BY <3>3
    <3>8. W <= b + l
      BY <1>4, <3>3, <3>4, <3>5, <3>6, <3>7
    <3>. QED BY <2>2, <3>8 DEF Waits, End, i, b, l
  <2>. QED BY <1>1, <2>1, <2>2 DEF Scans
<1>6. Waits(at, ns, R, W)'
  BY <1>1, <1>5 DEF Waits, Opens, End, Img, Pkt, sendVars
<1>. QED BY <1>1, <1>2, <1>3, <1>6 DEF Track

LEMMA DonePast ==
  ASSUME UartFits, NEW S, NEW at, NEW ns, Line(S, at, ns), NEW R \in Nat,
         Done(at, ns, R), ~Opens(at, R), sent' = sent, handled' = handled
  PROVE  Done(at, ns, R + 1)'
<1>1. ASSUME NEW i \in 1 .. Len(handled) PROVE End(at, ns, i) < R + 1
  <2>1. i \in 1 .. Len(sent) /\ End(at, ns, i) < R
    BY DEF Done
  <2>2. at[i] \in Nat /\ Img(ns, i) \in Seq(Byte)
    <3>1. Img(ns, i) \in Seq(Byte)
      BY <2>1, PktFramed DEF ImageHas
    <3>. QED BY <2>1, <3>1 DEF Line
  <2> DEFINE e == End(at, ns, i)
  <2>3. e \in Nat /\ e < R
    BY <2>1, <2>2 DEF End
  <2> HIDE DEF e
  <2>4. e < R + 1
    BY <2>3
  <2>. QED BY <2>4 DEF e
<1>2. ASSUME NEW i \in Len(handled) + 1 .. Len(sent) PROVE R + 1 <= at[i] + 1
  <2>1. i \in 1 .. Len(sent) /\ R <= at[i] + 1
    BY DEF Done
  <2>2. R # at[i] + 1 /\ at[i] \in Nat
    <3>1. R # at[i] + 1
      BY <2>1, Outside
    <3>. QED BY <2>1, <3>1 DEF Line
  <2>. QED BY <2>1, <2>2
<1>. QED BY <1>1, <1>2 DEF Done, End, Img, Pkt

(* Every packet opens with two 0xFEs. *)
LEMMA Opening ==
  ASSUME UartFits, NEW S, NEW at, NEW ns, Line(S, at, ns), NEW i \in 1 .. Len(sent)
  PROVE  /\ S[at[i] + 1] = FE /\ S[at[i] + 2] = FE /\ Off(Pkt(ns, i), 1) = 1
         /\ Len(Pkt(ns, i)) \in Nat /\ Len(Pkt(ns, i)) >= 8
<1> DEFINE s == Pkt(ns, i)
           t == Img(ns, i)
<1>1. PacketHas(s, sent[i][2]) /\ ImageHas(s, t) /\ s \in Seq(Byte) /\ t = PackTranslate(s)
  <2>1. PacketHas(s, sent[i][2]) /\ ImageHas(s, t)
    BY PktFramed
  <2>2. t = PackTranslate(s)
    BY DEF Img
  <2>. QED BY <2>1, <2>2 DEF PacketHas
<1>2. Len(s) \in Nat /\ Len(s) >= 8
  <2>1. sent[i][2] \in Seq(Byte)
    BY PktFramed, PayloadFits, UartProtocolAssumption
  <2>2. Len(s) = Len(sent[i][2]) + 8
    BY <1>1 DEF PacketHas
  <2>. QED BY <1>1, <2>1, <2>2
<1>3. \A k \in 1 .. Len(t) : S[at[i] + k] = t[k]
  BY DEF Line
<1> HIDE DEF s, t
<1>4. t[1] = FE /\ t[2] = FE
  <2>1. t[Off(s, 1 - 1) + 1] = s[1] /\ t[Off(s, 2 - 1) + 1] = s[2]
    <3>1. 1 \in 1 .. Len(s) /\ 2 \in 1 .. Len(s)
      BY <1>2
    <3>. QED BY <1>1, <3>1, EscapedAt
  <2>2. Off(s, 0) = 0 /\ Off(s, 1) = 1 /\ s[1] = FE /\ s[2] = FE
    BY <1>1, OffStep DEF PacketHas, ImageHas
  <2>3. 1 - 1 = 0 /\ 2 - 1 = 1 /\ 0 + 1 = 1 /\ 1 + 1 = 2
    OBVIOUS
  <2>. QED BY <2>1, <2>2, <2>3
<1>5. 1 \in 1 .. Len(t) /\ 2 \in 1 .. Len(t)
  <2>1. Len(t) \in Nat /\ Len(t) >= Len(s)
    BY <1>1 DEF ImageHas
  <2>. QED BY <1>2, <2>1
<1>. QED BY <1>1, <1>2, <1>3, <1>4, <1>5 DEF s, ImageHas

Parse == ScanIllegal \/ ScanHead \/ ScanBody \/ ScanComplete

(* Nothing has been found yet, and the parser stands at read. *)
LEMMA FreshStep ==
  ASSUME UartFits, NEW S, NEW at, NEW ns, NEW R \in Nat, NEW W \in Nat, NEW P \in Nat,
         Track(S, at, ns, R, W, P), pc = "scan", p # write, status = "SYNC1", P = R, Parse
  PROVE  \E Q, Z \in Nat : Track(S, at, ns, Q, W, Z)'
<1> DEFINE i == Len(handled) + 1
<1>0. PICK s : s = Pkt(ns, i)
  OBVIOUS
<1>1. /\ Line(S, at, ns) /\ Ring(S, R, W) /\ Done(at, ns, R) /\ p = Mask(R) /\ R <= W
      /\ S \in Seq(Byte)
  BY DEF Track, Scans, Line
<1>2. /\ R < W /\ 1 < R /\ R <= Len(S) /\ Cell(p) = S[R] /\ Cell(p - 1) = S[R - 1]
      /\ S[R] = FE => Cell(p + 1) = S[R + 1]
  BY <1>1, Look
<1>3. read = p /\ Mask(p + 0) = Mask(R) /\ Mask(p + 1) = Mask(R + 1)
  <2>1. R \in Int /\ 0 \in Int /\ 1 \in Int
    OBVIOUS
  <2>2. Mask(Mask(R) + 0) = Mask(R + 0) /\ Mask(Mask(R) + 1) = Mask(R + 1)
    BY <2>1, MaskShift
  <2>3. R + 0 = R
    OBVIOUS
  <2>. QED BY <1>1, <2>2, <2>3 DEF Ring
<1>4. CASE Opens(at, R)
  <2>1. i \in 1 .. Len(sent) /\ R = at[i] + 1 /\ at[i] \in Nat
    BY <1>1, <1>4 DEF Opens, Done, Line
  <2>2. S[R] = FE /\ S[R + 1] = FE /\ Off(s, 1) = 1 /\ Len(s) \in Nat /\ Len(s) >= 8
    <3>1. at[i] + 2 = R + 1
      BY <2>1
    <3> HIDE DEF i
    <3>2. /\ S[at[i] + 1] = FE /\ S[at[i] + 2] = FE /\ Off(Pkt(ns, i), 1) = 1
          /\ Len(Pkt(ns, i)) \in Nat /\ Len(Pkt(ns, i)) >= 8
      BY <1>1, <2>1, Opening
    <3>. QED BY <1>0, <2>1, <3>1, <3>2
  <2>3. ExtractTransChar(Cell(p)) = Char("SYNC1", p, p)
    BY <1>2, <2>2, FirstChar
  <2>4. ScanHead
    BY <2>3, NotIllegal, BodyStep, CompleteStep DEF Parse
  <2>5. /\ UNCHANGED <<sendVars, ring, write, pc, handled>>
        /\ p' = Mask(R + 1) /\ status' = "SYNC2" /\ recvLen' = 1 % U16 /\ read' = Mask(R)
    BY <1>2, <1>3, <2>2, <2>3, <2>4, HeadStep
  <2>6. recvLen' = 1
    BY <2>5, Wide
  <2>7. Line(S, at, ns)' /\ Ring(S, R, W)'
    BY <1>1, <2>5, LineMoves
  <2>8. Done(at, ns, R)' /\ Opens(at, R)'
    BY <1>1, <1>4, <2>5, DoneKept DEF sendVars, Opens
  <2>9. Sees(s, R, R + 1)'
    BY <2>2, <2>5, <2>6 DEF Sees
  <2>10. Pkt(ns, Len(handled) + 1)' = s
    BY <1>0, <2>5 DEF Pkt, sendVars
  <2>11. Scans(at, ns, R, W, R + 1)'
    BY <1>2, <2>5, <2>8, <2>9, <2>10 DEF Scans
  <2>12. Track(S, at, ns, R, W, R + 1)'
    BY <2>5, <2>7, <2>8, <2>11 DEF Track
  <2>. QED BY <2>12
<1>5. CASE ~Opens(at, R)
  <2>1. /\ UNCHANGED <<sendVars, ring, write, pc, handled>>
        /\ p' = Mask(R + 1) /\ status' = "SYNC1" /\ read' = Mask(R + 1)
    <3>1. CASE S[R] = FE
      <4>1. Cell(p + 1) # FE /\ Cell(p - 1) # FE
        BY <1>1, <1>2, <1>5, <3>1, Alone
      <4>2. ExtractTransChar(Cell(p)) =
              [status |-> "SYNC1", p |-> Mask(p + 1), read |-> Mask(p + 1), legal |-> FALSE]
        BY <1>2, <3>1, <4>1, IllegalChar
      <4>. QED BY <1>3, <4>2, IllegalStep DEF Parse
    <3>2. CASE S[R] # FE
      <4>1. ExtractTransChar(Cell(p)) = Char("SYNC1", p, p)
        BY <1>2, <1>3, <3>2, PlainChar
      <4>2. ScanHead
        BY <4>1, NotIllegal, BodyStep, CompleteStep DEF Parse
      <4>. QED BY <1>2, <1>3, <3>2, <4>1, <4>2, HeadStep
    <3>. QED BY <3>1, <3>2
  <2>2. R + 1 \in Nat /\ R <= R + 1 /\ R + 1 <= W
    BY <1>2
  <2>3. Line(S, at, ns)' /\ Ring(S, R + 1, W)'
    BY <1>1, <2>1, <2>2, LineMoves
  <2>4. Done(at, ns, R + 1)'
    BY <1>1, <1>5, <2>1, DonePast DEF sendVars
  <2>5. Scans(at, ns, R + 1, W, R + 1)'
    BY <2>1, <2>2 DEF Scans
  <2>6. Track(S, at, ns, R + 1, W, R + 1)'
    BY <2>1, <2>3, <2>4, <2>5 DEF Track
  <2>. QED BY <2>2, <2>6
<1>. QED BY <1>4, <1>5
-----------------------------------------------------------------------------
(* A packet is read out.                                                   *)

Taking == [empty : BOOLEAN, bytes : Seq(Byte), read : Cursor]
NoneTaken(from) == [empty |-> FALSE, bytes |-> <<>>, read |-> from]

LEMMA TakeByteType ==
  ASSUME ring \in [Cursor -> Byte], NEW acc \in Taking, NEW i
  PROVE  TakeByte(acc, i) \in Taking
<1>1. acc.bytes \in Seq(Byte) /\ acc.read \in Cursor
  BY DEF Taking
<1>2. CASE acc.empty \/ acc.read = write
  BY <1>2 DEF TakeByte, Taking
<1>3. CASE ~(acc.empty \/ acc.read = write)
  <2> DEFINE b == Cell(acc.read)
             r == Mask(acc.read + (IF i > 2 /\ b = FE THEN 2 ELSE 1))
  <2>1. acc.read \in Int /\ acc.read + 2 \in Int /\ acc.read + 1 \in Int
    BY <1>1, UartConstants DEF Cursor
  <2>2. r \in Cursor
    BY <2>1, MaskShift
  <2>3. b \in Byte
    BY <2>1, MaskShift DEF Cell
  <2>4. TakeByte(acc, i) = [empty |-> FALSE, bytes |-> Append(acc.bytes, b), read |-> r]
    BY <1>3 DEF TakeByte
  <2> HIDE DEF b, r
  <2>5. Append(acc.bytes, b) \in Seq(Byte)
    BY <1>1, <2>3
  <2>. QED BY <2>2, <2>4, <2>5 DEF Taking
<1>. QED BY <1>2, <1>3

LEMMA ReadOutsDef ==
  ASSUME ring \in [Cursor -> Byte], NEW from \in Cursor, NEW m \in Nat,
         NEW g, g = ReadOuts(from, m)
  PROVE  /\ g[0] = NoneTaken(from) /\ \A n \in 1 .. m : g[n] = TakeByte(g[n - 1], n)
         /\ \A n \in 0 .. m : g[n] \in Taking
<1> DEFINE T == 1 .. m
           F == [x \in Taking \X T |-> TakeByte(x[1], x[2])]
           a == NoneTaken(from)
<1>1. a \in Taking
  BY DEF Taking, NoneTaken
<1> HIDE DEF a
<1>2. \A c \in Taking : \A n \in T : TakeByte(c, n) \in Taking
  BY TakeByteType
<1>3. F \in [Taking \X T -> Taking]
  <2> HIDE DEF T
  <2>. QED BY <1>2
<1>4. \E f \in [0 .. m -> Taking] : Stages(m, a, F, f)
  <2> HIDE DEF F
  <2>. QED BY <1>1, <1>3, RecDef, ZenonT(10)
<1>5. PICK f \in [0 .. m -> Taking] : f[0] = a /\ \A n \in T : f[n] = F[<<f[n - 1], n>>]
  <2> HIDE DEF F
  <2>. QED BY <1>4 DEF Stages
<1> DEFINE Is(h) == h = [n \in 0 .. m |-> IF n = 0 THEN a ELSE TakeByte(h[n - 1], n)]
<1>6. Is(f)
  <2>1. ASSUME NEW n \in T PROVE f[n] = TakeByte(f[n - 1], n)
    <3>1. n - 1 \in 0 .. m
      OBVIOUS
    <3>2. f[n - 1] \in Taking
      BY <1>5, <3>1
    <3> HIDE DEF T
    <3>. QED BY <1>5, <3>2
  <2>2. \A n \in 0 .. m : n # 0 => n \in T
    OBVIOUS
  <2>3. f = [n \in 0 .. m |-> f[n]]
    BY <1>5
  <2> HIDE DEF T
  <2>. QED BY <1>5, <2>1, <2>2, <2>3
<1>7. g = CHOOSE h : Is(h)
  BY DEF ReadOuts, a, NoneTaken
<1> HIDE DEF Is
<1>8. Is(g)
  BY <1>6, <1>7
<1>9. g = [n \in 0 .. m |-> IF n = 0 THEN a ELSE TakeByte(g[n - 1], n)]
  BY <1>8 DEF Is
<1>10. g[0] = a /\ \A n \in T : g[n] = TakeByte(g[n - 1], n)
  <2>1. \A n \in T : n \in 0 .. m /\ n # 0
    OBVIOUS
  <2>2. 0 \in 0 .. m
    OBVIOUS
  <2> HIDE DEF T
  <2>. QED BY <1>9, <2>1, <2>2
<1>11. \A n \in 0 .. m : g[n] \in Taking
  <2>1. g[0] \in Taking /\ \A n \in T : g[n - 1] \in Taking => g[n] \in Taking
    BY <1>1, <1>2, <1>10
  <2>. QED BY <2>1, StagesStay
<1>. QED BY <1>10, <1>11 DEF a

(* When a whole packet s is in the ring from place R on, it is read out    *)
(* unaltered.                                                              *)
LEMMA ReadsOut ==
  ASSUME NEW S \in Seq(Byte), NEW R \in Nat, NEW W \in Nat, Ring(S, R, W), NEW s \in Seq(Byte),
         \A n \in 1 .. Len(s) : S[R + Off(s, n - 1)] = s[n], R + Off(s, Len(s)) <= W
  PROVE  ReadOut(read, Len(s)) =
           [empty |-> FALSE, bytes |-> s, read |-> Mask(R + Off(s, Len(s)))]
<1> DEFINE m == Len(s)
           O(n) == Off(s, n)
           Good(n, x) == /\ x \in Taking /\ x.empty = FALSE /\ Len(x.bytes) = n
                         /\ \A k \in 1 .. n : x.bytes[k] = s[k]
                         /\ x.read = Mask(R + O(n))
<1>0. PICK g : g = ReadOuts(read, m)
  OBVIOUS
<1> DEFINE G == {n \in Nat : n <= m => Good(n, g[n])}
<1>1. m \in Nat /\ O(0) = 0 /\ \A n \in 0 .. m : O(n) \in Nat
  BY OffStep
<1>2. \A n \in 0 .. m : O(m) - O(n) >= m - n
  <2>1. ASSUME NEW n \in 0 .. m PROVE O(m) - O(n) >= m - n
    <3>1. m \in n .. Len(s)
      BY <1>1
    <3>. QED BY <3>1, EscapedGrows
  <2>. QED BY <2>1
<1>3. \A n \in 1 .. m : O(n) = O(n - 1) + (IF n > 2 /\ s[n] = FE THEN 2 ELSE 1)
  BY OffStep
<1>4. R \in Int /\ ring \in [Cursor -> Byte] /\ read = Mask(R) /\ read \in Cursor
  <2>1. R \in Int /\ 0 \in Int
    OBVIOUS
  <2>. QED BY <2>1, MaskShift DEF Ring
<1>5. /\ g[0] = NoneTaken(read) /\ \A n \in 1 .. m : g[n] = TakeByte(g[n - 1], n)
      /\ \A n \in 0 .. m : g[n] \in Taking
  BY <1>0, <1>1, <1>4, ReadOutsDef
<1> HIDE DEF m, O
<1>6. 0 \in G
  <2>1. R + O(0) = R
    BY <1>1, <1>4
  <2>2. 0 \in 0 .. m
    BY <1>1
  <2>3. g[0].empty = FALSE /\ g[0].bytes = <<>> /\ g[0].read = Mask(R + O(0)) /\ g[0] \in Taking
    BY <1>4, <1>5, <2>1, <2>2 DEF NoneTaken
  <2>4. Good(0, g[0])
    BY <2>3
  <2>. QED BY <2>4
<1>7. ASSUME NEW n \in Nat, n \in G PROVE n + 1 \in G
  <2> SUFFICES ASSUME n + 1 <= m PROVE Good(n + 1, g[n + 1])
    <3> HIDE DEF Good
    <3>. QED OBVIOUS
  <2>1. PICK x : x = g[n]
    OBVIOUS
  <2>2. n \in 0 .. m /\ n + 1 \in 1 .. m /\ n + 1 \in 0 .. m /\ (n + 1) - 1 = n /\ m \in 0 .. m
    BY <1>1
  <2>3. Good(n, x)
    BY <1>7, <2>1, <2>2
  <2>4. g[n + 1] = TakeByte(x, n + 1) /\ g[n + 1] \in Taking
    BY <1>5, <2>1, <2>2
  <2> DEFINE o == O(n)
             e == O(m)
             a == R + o
             d == IF n + 1 > 2 /\ s[n + 1] = FE THEN 2 ELSE 1
             b == s[n + 1]
  <2>5. o \in Nat /\ e \in Nat /\ e - o >= m - n /\ R + e <= W /\ O(n + 1) = o + d /\ S[a] = b
    BY <1>1, <1>2, <1>3, <2>2 DEF O, m
  <2>6. d \in {1, 2} /\ d \in Int
    OBVIOUS
  <2>7. a \in Nat /\ R <= a /\ a < W
    <3> HIDE DEF d, e, o
    <3>1. e - o >= 1 /\ R + e <= W /\ o \in Nat /\ e \in Nat
      BY <1>1, <2>2, <2>5
    <3>. QED BY <3>1
  <2>8. x.read = Mask(a) /\ Mask(a) \in Cursor
    <3>1. a \in Int /\ 0 \in Int
      BY <2>7
    <3>. QED BY <2>3, <3>1, MaskShift
  <2> HIDE DEF a, e
  <2>9. x.read # write
    <3>1. W - R < RbufLen /\ RbufLen \in Nat /\ write = Mask(W)
      BY UartConstants DEF Ring
    <3>2. -RbufLen < a - W /\ a - W < RbufLen /\ a # W /\ a \in Int /\ W \in Int
      BY <2>7, <3>1
    <3>. QED BY <2>8, <3>1, <3>2, MaskApart
  <2>10. Cell(x.read) = b
    <3>1. Mask(x.read) = Mask(a)
      BY <2>8, MaskCursor
    <3>2. a \in R - 1 .. W - 1
      BY <2>7
    <3>. QED BY <2>5, <3>1, <3>2 DEF Ring, Cell
  <2>11. Mask(x.read + d) = Mask(R + O(n + 1))
    <3>1. Mask(Mask(a) + d) = Mask(a + d)
      BY <2>6, <2>7, MaskShift
    <3>2. a + d = R + (o + d)
      <4> HIDE DEF o, d
      <4>. QED BY <2>5, <2>6 DEF a
    <3>. QED BY <2>5, <2>8, <3>1, <3>2
  <2>12. TakeByte(x, n + 1) = [empty |-> FALSE, bytes |-> Append(x.bytes, b), read |-> Mask(x.read + d)]
    <3>1. ~(x.empty \/ x.read = write)
      BY <2>3, <2>9
    <3>. QED BY <2>10, <3>1 DEF TakeByte
  <2>13. x.bytes \in Seq(Byte) /\ b \in Byte /\ Len(x.bytes) = n
    <3>1. b \in Byte
      BY <2>2 DEF m
    <3>. QED BY <2>3, <3>1 DEF Taking
  <2> HIDE DEF b, d, o
  <2>14. Len(Append(x.bytes, b)) = n + 1 /\ \A k \in 1 .. n + 1 : Append(x.bytes, b)[k] = s[k]
    <3>1. /\ Len(Append(x.bytes, b)) = n + 1 /\ Append(x.bytes, b)[n + 1] = b
          /\ \A k \in 1 .. n : Append(x.bytes, b)[k] = x.bytes[k]
      BY <2>13
    <3>2. \A k \in 1 .. n + 1 : k = n + 1 \/ k \in 1 .. n
      OBVIOUS
    <3>. QED BY <2>3, <3>1, <3>2 DEF b
  <2>15. PICK y : y = g[n + 1]
    OBVIOUS
  <2>16. y.empty = FALSE /\ y.bytes = Append(x.bytes, b) /\ y.read = Mask(x.read + d) /\ y \in Taking
    BY <2>4, <2>12, <2>15
  <2>17. Good(n + 1, y)
    BY <2>11, <2>14, <2>16
  <2>. QED BY <2>15, <2>17
<1>8. \A n \in Nat : n \in G
  <2> HIDE DEF G
  <2>. QED BY <1>6, <1>7, NatSetInduction
<1>9. Good(m, g[m])
  BY <1>1, <1>8
<1>10. g[m] = ReadOut(read, m)
  BY <1>0 DEF ReadOut
<1>11. PICK x : x = g[m]
  OBVIOUS
<1>12. x \in Taking /\ x.empty = FALSE /\ Len(x.bytes) = m /\ (\A k \in 1 .. m : x.bytes[k] = s[k])
       /\ x.read = Mask(R + O(m))
  BY <1>9, <1>11
<1>13. x.bytes = s
  <2>1. x.bytes \in Seq(Byte)
    BY <1>12 DEF Taking
  <2>. QED BY <1>12, <2>1, SeqEqual DEF m
<1>14. x = [empty |-> FALSE, bytes |-> s, read |-> Mask(R + O(m))]
  BY <1>12, <1>13 DEF Taking
<1>. QED BY <1>10, <1>11, <1>14 DEF m, O
-----------------------------------------------------------------------------
(* The parser inside a packet.                                             *)

LEMMA WithinChar ==
  ASSUME UartFits, NEW S, NEW at, NEW ns, NEW R \in Nat, NEW W \in Nat, NEW P \in Nat,
         Track(S, at, ns, R, W, P), pc = "scan", p # write, Opens(at, R),
         NEW s, s = Pkt(ns, Len(handled) + 1), Sees(s, R, P), NEW r, r = recvLen
  PROVE  /\ s \in Seq(Byte) /\ Len(s) \in Nat /\ r \in 1 .. Len(s) - 1 /\ read = Mask(R)
         /\ Cell(p) = s[r + 1] /\ Off(s, r + 1) \in Nat /\ R + Off(s, r + 1) <= W
         /\ \E z : /\ ExtractTransChar(Cell(p)) = Char(IF r = 1 THEN "SYNC2" ELSE status, z, read)
                   /\ Mask(z + 1) = Mask(R + Off(s, r + 1))
<1> DEFINE i == Len(handled) + 1
           t == Img(ns, i)
           o == Off(s, r)
           e == Off(s, r + 1)
<1>1. /\ Line(S, at, ns) /\ Ring(S, R, W) /\ Done(at, ns, R) /\ p = Mask(P) /\ R <= P /\ P <= W
      /\ S \in Seq(Byte) /\ read = Mask(R)
  BY DEF Track, Scans, Line, Ring
<1>2. i \in 1 .. Len(sent) /\ R = at[i] + 1
  BY <1>1 DEF Opens, Done
<1>3. r \in 1 .. Len(s) - 1 /\ P = R + o
  BY DEF Sees
<1> HIDE DEF i
<1>4. PacketHas(s, sent[i][2]) /\ ImageHas(s, t) /\ s \in Seq(Byte) /\ Len(s) \in Nat
  <2>1. PacketHas(Pkt(ns, i), sent[i][2]) /\ ImageHas(Pkt(ns, i), t)
    BY <1>1, <1>2, PktFramed
  <2>2. s = Pkt(ns, i)
    BY DEF i
  <2>3. PacketHas(s, sent[i][2]) /\ ImageHas(s, t)
    BY <2>1, <2>2
  <2>4. s \in Seq(Byte)
    BY <2>3 DEF PacketHas
  <2> HIDE DEF t
  <2>. QED BY <2>3, <2>4
<1>5. Stands(S, t, s, r, P)
  <2>1. s = Pkt(ns, i)
    BY DEF i
  <2>. QED BY <1>1, <1>2, <1>3, <2>1, InPacket
<1>6. /\ P < W /\ Cell(p) = S[P] /\ Cell(p - 1) = S[P - 1]
      /\ S[P] = FE => P + 1 < W /\ Cell(p + 1) = S[P + 1]
  BY <1>1, Look
<1>7. /\ o \in Nat /\ S[P] = s[r + 1] /\ (r > 1 /\ s[r + 1] = FE => S[P + 1] = TA)
      /\ (r = 1 => S[P + 1] # FE /\ S[P - 1] = FE) /\ (r > 2 => S[P - 1] # FE)
      /\ e = o + IF r + 1 > 2 /\ s[r + 1] = FE THEN 2 ELSE 1
  BY <1>5 DEF Stands
<1>8. Mask(p + 1) = Mask(P + 1) /\ Mask(p + (-1)) = Mask(P + (-1)) /\ Mask(Mask(P + 1) + 1) = Mask((P + 1) + 1)
      /\ p \in Int
  <2>1. P \in Int /\ 1 \in Int /\ -1 \in Int /\ P + 1 \in Int
    OBVIOUS
  <2>2. Mask(Mask(P) + 1) = Mask(P + 1) /\ Mask(P) \in Cursor
    BY <2>1, MaskShift
  <2>3. Mask(Mask(P) + (-1)) = Mask(P + (-1))
    BY <2>1, MaskShift
  <2>4. Mask(Mask(P + 1) + 1) = Mask((P + 1) + 1)
    BY <2>1, MaskShift
  <2>. QED BY <1>1, <2>2, <2>3, <2>4 DEF Cursor
<1>9. s[2] = FE /\ s[3] # FE /\ Off(s, 1) = 1
  BY <1>4 DEF PacketHas, ImageHas
<1>10. r \in Nat /\ r >= 1
  BY <1>3
<1> HIDE DEF t, o, e
<1>11. CASE s[r + 1] # FE
  <2>1. r # 1
    BY <1>9, <1>11
  <2>2. ExtractTransChar(Cell(p)) = Char(status, p, read)
    BY <1>6, <1>7, <1>11, PlainChar
  <2>3. e = o + 1
    BY <1>7, <1>11
  <2>4. R + e = P + 1
    BY <1>3, <1>7, <2>3
  <2>5. Mask(p + 1) = Mask(R + e) /\ R + e <= W /\ e \in Nat
    BY <1>6, <1>7, <1>8, <2>3, <2>4
  <2>. QED BY <1>1, <1>3, <1>4, <1>6, <1>7, <2>1, <2>2, <2>5 DEF e
<1>12. CASE s[r + 1] = FE /\ r = 1
  <2>1. Cell(p + 1) # FE /\ Cell(p - 1) = FE /\ Cell(p) = FE
    BY <1>6, <1>7, <1>12
  <2>2. ExtractTransChar(Cell(p)) = Char("SYNC2", p, Mask(p - 1))
    BY <2>1, SecondChar
  <2>3. Mask(p - 1) = read
    <3>1. P = R + 1
      BY <1>3, <1>9, <1>12 DEF o
    <3>2. p - 1 = p + (-1) /\ P + (-1) = R
      BY <1>8, <3>1
    <3>. QED BY <1>1, <1>8, <3>2
  <2>4. e = o + 1
    BY <1>7, <1>12
  <2>5. R + e = P + 1
    BY <1>3, <1>7, <2>4
  <2>6. Mask(p + 1) = Mask(R + e) /\ R + e <= W /\ e \in Nat
    BY <1>6, <1>7, <1>8, <2>4, <2>5
  <2>. QED BY <1>1, <1>3, <1>4, <1>6, <1>7, <1>12, <2>2, <2>3, <2>6 DEF e
<1>13. CASE s[r + 1] = FE /\ r # 1
  <2>1. r > 2
    <3>1. r # 2
      BY <1>9, <1>13
    <3>. QED BY <1>10, <1>13, <3>1
  <2>2. Cell(p + 1) = TA /\ Cell(p - 1) # FE /\ Cell(p) = FE /\ P + 1 < W
    BY <1>6, <1>7, <1>10, <1>13, <2>1
  <2>3. status \in {"LEN_L", "PL"}
    BY <2>1 DEF Sees
  <2>4. ExtractTransChar(Cell(p)) = Char(status, Mask(p + 1), read)
    BY <2>2, <2>3, EscapeChar
  <2>5. e = o + 2
    BY <1>7, <1>10, <1>13, <2>1
  <2>6. R + e = (P + 1) + 1
    BY <1>3, <1>7, <2>5
  <2>7. Mask(Mask(p + 1) + 1) = Mask(R + e) /\ R + e <= W /\ e \in Nat
    BY <1>7, <1>8, <2>2, <2>5, <2>6
  <2>. QED BY <1>1, <1>3, <1>4, <1>6, <1>7, <1>13, <2>4, <2>7 DEF e
<1>. QED BY <1>11, <1>12, <1>13

(* One more byte of the packet has been seen. *)
LEMMA SeesMore ==
  ASSUME NEW S, NEW at, NEW ns, NEW R \in Nat, NEW W \in Nat, NEW P \in Nat,
         Track(S, at, ns, R, W, P), pc = "scan", Opens(at, R),
         NEW s, s = Pkt(ns, Len(handled) + 1), NEW r \in 1 .. Len(s) - 1,
         Off(s, r) \in Nat, R + Off(s, r) <= W,
         UNCHANGED <<sendVars, ring, write, pc, handled>>, read' = Mask(R),
         p' = Mask(R + Off(s, r)), recvLen' = r,
         \/ r = 1 /\ status' = "SYNC2"
         \/ r = 2 /\ status' = "LEN_H"
         \/ r = 3 /\ status' = "LEN_L" /\ slen' = s[3]
         \/ r > 3 /\ status' = "PL" /\ slen' = Len(s) - 4
  PROVE  \E Q, Z \in Nat : Track(S, at, ns, Q, W, Z)'
<1> DEFINE Z == R + Off(s, r)
<1>1. Line(S, at, ns) /\ Ring(S, R, W) /\ Done(at, ns, R) /\ R <= W
  BY DEF Track, Scans, Ring
<1>2. Line(S, at, ns)' /\ Ring(S, R, W)'
  BY <1>1, LineMoves
<1>3. Done(at, ns, R)' /\ Opens(at, R)'
  BY <1>1, DoneKept DEF sendVars, Opens
<1>4. Pkt(ns, Len(handled) + 1)' = s
  BY DEF Pkt, sendVars
<1>5. Sees(s, R, Z)'
  BY DEF Sees
<1>6. Z \in Nat /\ R <= Z /\ Z <= W
  OBVIOUS
<1>7. Scans(at, ns, R, W, Z)'
  BY <1>3, <1>4, <1>5, <1>6 DEF Scans
<1>8. Track(S, at, ns, R, W, Z)'
  <2> HIDE DEF Z
  <2>. QED BY <1>2, <1>3, <1>7 DEF Track
<1>. QED BY <1>6, <1>8
LEMMA SmallWord ==
  ASSUME NEW x \in Nat, x < U16
  PROVE  x % U16 = x
<1>1. U16 \in Nat \ {0}
  BY Wide
<1> HIDE DEF U16
<1>. QED BY <1>1

(* The first four bytes. *)
LEMMA WithinHead ==
  ASSUME UartFits, NEW S, NEW at, NEW ns, NEW R \in Nat, NEW W \in Nat, NEW P \in Nat,
         Track(S, at, ns, R, W, P), pc = "scan", p # write, Opens(at, R),
         NEW s, s = Pkt(ns, Len(handled) + 1), Sees(s, R, P), recvLen \in 1 .. 3, Parse
  PROVE  \E Q, Z \in Nat : Track(S, at, ns, Q, W, Z)'
<1> DEFINE r == recvLen
           i == Len(handled) + 1
<1>1. /\ s \in Seq(Byte) /\ Len(s) \in Nat /\ r \in 1 .. Len(s) - 1 /\ read = Mask(R)
      /\ Cell(p) = s[r + 1] /\ Off(s, r + 1) \in Nat /\ R + Off(s, r + 1) <= W
  BY WithinChar
<1>2. PICK z : /\ ExtractTransChar(Cell(p)) = Char(IF r = 1 THEN "SYNC2" ELSE status, z, read)
               /\ Mask(z + 1) = Mask(R + Off(s, r + 1))
  BY WithinChar
<1>3. i \in 1 .. Len(sent) /\ Line(S, at, ns)
  BY DEF Track, Done, Opens
<1>4. /\ PacketHas(s, sent[i][2]) /\ Len(s) < U16 /\ Len(s) >= 8 /\ sent[i][2] \in Seq(Byte)
      /\ Len(s) = Len(sent[i][2]) + 8 /\ Len(sent[i][2]) \in Nat
      /\ s[2] = FE /\ s[3] * 256 + s[4] = Len(sent[i][2]) + 4
  <2> HIDE DEF i
  <2>0. s = Pkt(ns, i)
    BY DEF i
  <2>1. PacketHas(s, sent[i][2]) /\ Len(s) < U16
    BY <1>3, <2>0, PktFramed
  <2>2. sent[i][2] \in Seq(Byte)
    <3>1. sent[i][2] \in Payload
      BY <1>3, PktFramed
    <3>. QED BY <3>1, UartProtocolAssumption
  <2>3. Len(s) >= 8 /\ Len(s) = Len(sent[i][2]) + 8 /\ Len(sent[i][2]) \in Nat
    <3>1. Len(s) = Len(sent[i][2]) + 8
      BY <2>1 DEF PacketHas
    <3>2. Len(sent[i][2]) \in Nat
      BY <2>2
    <3>. QED BY <3>1, <3>2
  <2>4. s[2] = FE /\ s[3] * 256 + s[4] = Len(sent[i][2]) + 4
    BY <2>1 DEF PacketHas
  <2>. QED BY <2>1, <2>2, <2>3, <2>4
<1>5. Mask(read + 0) = Mask(R)
  <2>1. R \in Int /\ 0 \in Int /\ R + 0 = R
    OBVIOUS
  <2>. QED BY <1>1, <2>1, MaskShift
<1>6. (IF r = 1 THEN "SYNC2" ELSE status) # "PL"
  BY DEF Sees
<1>7. ScanHead
  BY <1>2, <1>6, NotIllegal, BodyStep, CompleteStep DEF Parse
<1>8. r + 1 \in 1 .. Len(s) - 1 /\ (r + 1) % U16 = r + 1 /\ r \in 1 .. 3
  <2>1. r \in 1 .. 3
    OBVIOUS
  <2> DEFINE m == Len(s)
  <2>0. m \in Nat /\ m >= 8
    BY <1>1, <1>4
  <2> HIDE DEF r, m
  <2>4. r + 1 \in 1 .. m - 1 /\ r + 1 \in Nat /\ r + 1 < 8
    BY <2>0, <2>1
  <2>2. r + 1 \in 1 .. Len(s) - 1 /\ r + 1 \in Nat /\ r + 1 < 8
    BY <2>4 DEF m
  <2>3. r + 1 < U16
    BY <1>4, <2>2, Wide
  <2>. QED BY <2>1, <2>2, <2>3, SmallWord
<1> DEFINE c == IF r = 1 THEN "SYNC2" ELSE status
<1>9. /\ UNCHANGED <<sendVars, ring, write, pc, handled>> /\ p' = Mask(R + Off(s, r + 1))
      /\ c = "SYNC2" /\ Cell(p) = FE =>
           status' = "LEN_H" /\ recvLen' = (recvLen + 1) % U16 /\ read' = Mask(read + 0)
      /\ c = "LEN_H" => /\ status' = "LEN_L" /\ recvLen' = (recvLen + 1) % U16
                        /\ read' = Mask(read + 0) /\ slen' = Cell(p)
      /\ c = "LEN_L" => /\ status' = "PL" /\ recvLen' = (recvLen + 1) % U16
                        /\ read' = Mask(read + 0) /\ slen' = (slen % 256) * 256 + Cell(p)
  <2>1. ExtractTransChar(Cell(p)) = Char(c, z, read)
    BY <1>2
  <2> HIDE DEF c
  <2>2. /\ UNCHANGED <<sendVars, ring, write, pc, handled>>
        /\ p' = Mask(z + 1)
        /\ c = "SYNC2" /\ Cell(p) = FE =>
             status' = "LEN_H" /\ recvLen' = (recvLen + 1) % U16 /\ read' = Mask(read + 0)
        /\ c = "LEN_H" => /\ status' = "LEN_L" /\ recvLen' = (recvLen + 1) % U16
                          /\ read' = Mask(read + 0) /\ slen' = Cell(p)
        /\ c = "LEN_L" => /\ status' = "PL" /\ recvLen' = (recvLen + 1) % U16
                          /\ read' = Mask(read + 0) /\ slen' = (slen % 256) * 256 + Cell(p)
    BY <1>7, <2>1, HeadStep
  <2>. QED BY <1>2, <2>2
<1>10. /\ recvLen' = r + 1 /\ read' = Mask(R)
       /\ \/ r + 1 = 2 /\ status' = "LEN_H"
          \/ r + 1 = 3 /\ status' = "LEN_L" /\ slen' = s[3]
          \/ r + 1 > 3 /\ status' = "PL" /\ slen' = Len(s) - 4
  <2>1. CASE r = 1
    <3>1. c = "SYNC2" /\ Cell(p) = FE
      BY <1>1, <1>4, <2>1
    <3>. QED BY <1>5, <1>8, <1>9, <2>1, <3>1
  <2>2. CASE r = 2
    <3>1. c = "LEN_H" /\ Cell(p) = s[3]
      BY <1>1, <2>2 DEF Sees
    <3>. QED BY <1>5, <1>8, <1>9, <2>2, <3>1
  <2>3. CASE r = 3
    <3>1. c = "LEN_L" /\ Cell(p) = s[4] /\ slen = s[3]
      BY <1>1, <2>3 DEF Sees
    <3>2. slen' = (s[3] % 256) * 256 + s[4] /\ status' = "PL" /\ recvLen' = (recvLen + 1) % U16 /\ read' = Mask(read + 0)
      BY <1>9, <3>1
    <3> DEFINE hi == s[3]
    <3>3. hi \in Nat /\ hi < 256
      <4>1. 3 \in 1 .. Len(s)
        BY <1>1, <1>4
      <4>. QED BY <1>1, <4>1, ByteNat
    <3>4. hi % 256 = hi
      <4> HIDE DEF hi
      <4>. QED BY <3>3
    <3>5. slen' = Len(s) - 4
      <4>1. slen' = s[3] * 256 + s[4]
        BY <3>2, <3>4
      <4> DEFINE m == Len(s)
                 l == Len(sent[i][2])
                 a == s[3] * 256 + s[4]
      <4>2. slen' = a /\ a = l + 4 /\ m = l + 8 /\ l \in Nat
        BY <1>4, <4>1
      <4> HIDE DEF m, l, a
      <4>3. slen' = m - 4
        BY <4>2
      <4>. QED BY <4>3 DEF m
    <3>. QED BY <1>5, <1>8, <2>3, <3>2, <3>5
  <2>. QED BY <1>8, <2>1, <2>2, <2>3
<1> HIDE DEF r, c, i
<1>11. PICK k : k = r + 1
  OBVIOUS
<1>12. /\ k \in 1 .. Len(s) - 1 /\ Off(s, k) \in Nat /\ R + Off(s, k) <= W
       /\ UNCHANGED <<sendVars, ring, write, pc, handled>> /\ read' = Mask(R)
       /\ p' = Mask(R + Off(s, k)) /\ recvLen' = k
       /\ \/ k = 1 /\ status' = "SYNC2"
          \/ k = 2 /\ status' = "LEN_H"
          \/ k = 3 /\ status' = "LEN_L" /\ slen' = s[3]
          \/ k > 3 /\ status' = "PL" /\ slen' = Len(s) - 4
  BY <1>1, <1>8, <1>9, <1>10, <1>11
<1>. QED BY <1>12, SeesMore

(* A later byte that is not the last. *)
LEMMA WithinBody ==
  ASSUME UartFits, NEW S, NEW at, NEW ns, NEW R \in Nat, NEW W \in Nat, NEW P \in Nat,
         Track(S, at, ns, R, W, P), pc = "scan", p # write, Opens(at, R),
         NEW s, s = Pkt(ns, Len(handled) + 1), Sees(s, R, P), recvLen > 3, ScanBody
  PROVE  \E Q, Z \in Nat : Track(S, at, ns, Q, W, Z)'
<1> DEFINE r == recvLen
           i == Len(handled) + 1
<1>1. /\ s \in Seq(Byte) /\ Len(s) \in Nat /\ r \in 1 .. Len(s) - 1 /\ read = Mask(R)
      /\ Cell(p) = s[r + 1] /\ Off(s, r + 1) \in Nat /\ R + Off(s, r + 1) <= W
  BY WithinChar
<1>2. r # 1 /\ r > 3
  BY <1>1
<1>3. PICK z : /\ ExtractTransChar(Cell(p)) = Char(IF r = 1 THEN "SYNC2" ELSE status, z, read)
               /\ Mask(z + 1) = Mask(R + Off(s, r + 1))
  BY WithinChar
<1>4. i \in 1 .. Len(sent) /\ Line(S, at, ns)
  BY DEF Track, Done, Opens
<1>5. Len(s) < U16
  <2> HIDE DEF i
  <2>0. s = Pkt(ns, i)
    BY DEF i
  <2>. QED BY <1>4, <2>0, PktFramed
<1>6. ExtractTransChar(Cell(p)) = Char(status, z, read)
  BY <1>2, <1>3
<1>7. /\ UNCHANGED <<sendVars, ring, write, pc, slen, handled>> /\ (r + 1) % U16 # slen + 4
      /\ status' = "PL" /\ recvLen' = (r + 1) % U16 /\ read' = read /\ p' = Mask(z + 1)
  BY <1>6, BodyStep
<1>8. slen = Len(s) - 4
  BY <1>2 DEF Sees
<1> HIDE DEF r, i
<1>9. (r + 1) % U16 = r + 1
  <2>1. r + 1 \in Nat /\ r + 1 < U16
    BY <1>1, <1>5, Wide
  <2>. QED BY <2>1, SmallWord
<1>10. r + 1 # Len(s)
  BY <1>1, <1>7, <1>8, <1>9
<1>11. PICK k : k = r + 1
  OBVIOUS
<1>12. /\ k \in 1 .. Len(s) - 1 /\ k > 3 /\ Off(s, k) \in Nat /\ R + Off(s, k) <= W
       /\ UNCHANGED <<sendVars, ring, write, pc, handled>> /\ read' = Mask(R)
       /\ p' = Mask(R + Off(s, k)) /\ recvLen' = k /\ status' = "PL" /\ slen' = Len(s) - 4
  BY <1>1, <1>2, <1>3, <1>7, <1>8, <1>9, <1>10, <1>11
<1>. QED BY <1>12, SeesMore
(* The next packet has been handled. *)
LEMMA DoneNext ==
  ASSUME UartFits, NEW S, NEW at, NEW ns, Line(S, at, ns), NEW R \in Nat,
         Done(at, ns, R), Opens(at, R), NEW i, i = Len(handled) + 1,
         sent' = sent, handled' = Append(handled, sent[i])
  PROVE  /\ End(at, ns, i) \in Nat /\ R <= End(at, ns, i) + 1
         /\ Done(at, ns, End(at, ns, i) + 1)'
<1> DEFINE e == End(at, ns, i)
           h == Len(handled)
           T == {Cmd} \X Payload
<1>1. h \in Nat /\ i = h + 1 /\ i \in 1 .. Len(sent) /\ R = at[i] + 1 /\ Len(sent) \in Nat /\ h < Len(sent)
  BY DEF Done, Opens, Line
<1>2. \A j \in 1 .. Len(sent) : at[j] \in Nat /\ End(at, ns, j) \in Nat /\ at[j] <= End(at, ns, j)
  <2>1. ASSUME NEW j \in 1 .. Len(sent)
        PROVE  at[j] \in Nat /\ End(at, ns, j) \in Nat /\ at[j] <= End(at, ns, j)
    <3>1. Img(ns, j) \in Seq(Byte)
      BY PktFramed DEF ImageHas
    <3>2. Len(Img(ns, j)) \in Nat /\ at[j] \in Nat
      <4>1. at[j] \in Nat
        BY DEF Line
      <4>. QED BY <3>1, <4>1
    <3>. QED BY <3>2 DEF End
  <2>. QED BY <2>1
<1>3. e \in Nat /\ at[i] \in Nat /\ at[i] <= e
  BY <1>1, <1>2
<1>4. handled \in Seq(T) /\ sent[i] \in T
  <2>1. sent \in Seq(T)
    BY DEF Line
  <2>. QED BY <1>1, <2>1 DEF Done
<1> HIDE DEF e, T
<1>5. /\ handled' \in Seq(T) /\ Len(handled') = h + 1 /\ handled'[h + 1] = sent[i]
      /\ \A j \in 1 .. h : handled'[j] = handled[j]
  BY <1>1, <1>4
<1>6. \A j \in 1 .. h + 1 : handled'[j] = sent[j] /\ End(at, ns, j) < e + 1
  <2>1. ASSUME NEW j \in 1 .. h PROVE handled'[j] = sent[j] /\ End(at, ns, j) < e + 1
    <3>1. handled'[j] = sent[j] /\ End(at, ns, j) < R /\ j \in 1 .. Len(sent)
      <4>1. j \in 1 .. Len(sent)
        BY <1>1
      <4>. QED BY <1>5, <4>1 DEF Done
    <3>2. R <= e + 1 /\ End(at, ns, j) \in Nat
      BY <1>1, <1>2, <1>3, <3>1
    <3> DEFINE f == End(at, ns, j)
    <3> HIDE DEF f
    <3>3. f < R /\ f \in Nat /\ R <= e + 1
      BY <3>1, <3>2 DEF f
    <3>4. f < e + 1
      BY <1>3, <3>3
    <3>. QED BY <3>1, <3>4 DEF f
  <2>2. handled'[h + 1] = sent[h + 1] /\ End(at, ns, h + 1) < e + 1
    <3>1. e < e + 1
      BY <1>3
    <3>. QED BY <1>1, <1>5, <3>1 DEF e
  <2>3. \A j \in 1 .. h + 1 : j \in 1 .. h \/ j = h + 1
    BY <1>1
  <2> HIDE DEF h
  <2>. QED BY <2>1, <2>2, <2>3
<1>7. ASSUME NEW j \in (h + 1) + 1 .. Len(sent) PROVE e + 1 <= at[j] + 1
  <2>1. j \in 1 .. Len(sent) /\ i < j
    BY <1>1
  <2>2. e <= at[j] /\ at[j] \in Nat
    BY <1>1, <1>2, <2>1 DEF Line, e
  <2>. QED BY <1>3, <2>2
<1>8. R <= e + 1
  BY <1>1, <1>3
<1>9. Done(at, ns, e + 1)'
  <2>1. /\ handled' \in Seq(T) /\ Len(handled)' = h + 1 /\ h + 1 <= Len(sent)
    BY <1>1, <1>5
  <2>2. /\ \A j \in 1 .. Len(handled)' : handled'[j] = sent[j] /\ End(at, ns, j) < e + 1
        /\ \A j \in Len(handled)' + 1 .. Len(sent) : e + 1 <= at[j] + 1
    <3> HIDE DEF h
    <3>. QED BY <1>6, <1>7, <2>1
  <2>3. \A j : End(at, ns, j)' = End(at, ns, j)
    BY DEF End, Img, Pkt
  <2>4. e' = e
    BY <2>3 DEF e
  <2> HIDE DEF h
  <2>. QED BY <2>1, <2>2, <2>3, <2>4 DEF Done, T
<1>. QED BY <1>3, <1>8, <1>9 DEF e

ReadsWhole(s, R, e) ==
  /\ ReadOut(read, Len(s)) = [empty |-> FALSE, bytes |-> s, read |-> Mask(R + Off(s, Len(s)))]
  /\ R + Off(s, Len(s)) = e + 1

(* The whole packet s lies at R and is not altered by being read out. *)
LEMMA WholePacket ==
  ASSUME UartFits, NEW S, NEW at, NEW ns, Line(S, at, ns), NEW R \in Nat, NEW W \in Nat,
         Ring(S, R, W), NEW i \in 1 .. Len(sent), R = at[i] + 1,
         NEW s, s = Pkt(ns, i), R + Off(s, Len(s)) <= W
  PROVE  ReadsWhole(s, R, End(at, ns, i))
<1> DEFINE t == Img(ns, i)
<1>1. PacketHas(s, sent[i][2]) /\ ImageHas(s, t) /\ s \in Seq(Byte) /\ t = PackTranslate(s)
  <2>1. PacketHas(s, sent[i][2]) /\ ImageHas(s, t)
    BY PktFramed
  <2>2. t = PackTranslate(s)
    BY DEF Img
  <2>. QED BY <2>1, <2>2 DEF PacketHas
<1>2. at[i] \in Nat /\ S \in Seq(Byte) /\ \A k \in 1 .. Len(t) : S[at[i] + k] = t[k]
  BY DEF Line
<1>3. ASSUME NEW n \in 1 .. Len(s) PROVE S[R + Off(s, n - 1)] = s[n]
  <2>1. Len(s) \in Nat /\ n \in 1 .. Len(s) /\ n - 1 \in 0 .. Len(s) /\ n \in 0 .. Len(s)
    BY <1>1
  <2>2. t \in Seq(Byte) /\ Len(t) = Off(s, Len(s)) /\ Off(s, n) <= Len(t) /\ t[Off(s, n - 1) + 1] = s[n]
    BY <1>1, EscapedAt
  <2>3. /\ Off(s, n - 1) \in Nat /\ Off(s, n) \in Nat
        /\ Off(s, n) = Off(s, n - 1) + IF n > 2 /\ s[n] = FE THEN 2 ELSE 1
    BY <1>1, <2>1, OffStep
  <2> DEFINE o == Off(s, n - 1)
             e == Off(s, n)
             l == Len(t)
             b == at[i]
  <2>4. l \in Nat /\ b \in Nat
    BY <1>2, <2>2
  <2> HIDE DEF o, e, l, b, t
  <2>5. o + 1 \in 1 .. l
    <3>1. o \in Nat /\ e \in Nat /\ e >= o + 1 /\ e <= l
      BY <2>2, <2>3 DEF o, e, l
    <3>. QED BY <2>4, <3>1
  <2>6. R + o = b + (o + 1)
    <3>1. R = b + 1 /\ o \in Nat
      BY <2>3 DEF b, o
    <3>. QED BY <2>4, <3>1
  <2>7. S[R + o] = t[o + 1]
    BY <1>2, <2>5, <2>6 DEF l, b
  <2>. QED BY <2>2, <2>7 DEF o
<1>4. R + Off(s, Len(s)) = End(at, ns, i) + 1
  <2>1. Len(t) = Off(s, Len(s)) /\ Len(t) \in Nat
    BY <1>1 DEF ImageHas
  <2>. QED BY <1>2, <2>1 DEF End
<1> HIDE DEF t
<1>5. ReadOut(read, Len(s)) = [empty |-> FALSE, bytes |-> s, read |-> Mask(R + Off(s, Len(s)))]
  BY <1>1, <1>2, <1>3, ReadsOut
<1>. QED BY <1>4, <1>5 DEF ReadsWhole

(* The last byte of the packet. *)
LEMMA WithinLast ==
  ASSUME UartFits, NEW S, NEW at, NEW ns, NEW R \in Nat, NEW W \in Nat, NEW P \in Nat,
         Track(S, at, ns, R, W, P), pc = "scan", p # write, Opens(at, R),
         NEW s, s = Pkt(ns, Len(handled) + 1), Sees(s, R, P), recvLen > 3, ScanComplete
  PROVE  \E Q, Z \in Nat : Track(S, at, ns, Q, W, Z)'
<1> DEFINE r == recvLen
<1>0. PICK i : i = Len(handled) + 1
  OBVIOUS
<1>1. /\ s \in Seq(Byte) /\ Len(s) \in Nat /\ r \in 1 .. Len(s) - 1 /\ read = Mask(R)
      /\ Cell(p) = s[r + 1] /\ Off(s, r + 1) \in Nat /\ R + Off(s, r + 1) <= W
  BY WithinChar
<1>2. r # 1 /\ r > 3
  BY <1>1
<1>3. PICK z : /\ ExtractTransChar(Cell(p)) = Char(IF r = 1 THEN "SYNC2" ELSE status, z, read)
               /\ Mask(z + 1) = Mask(R + Off(s, r + 1))
  BY WithinChar
<1>4. /\ i \in 1 .. Len(sent) /\ R = at[i] + 1 /\ Line(S, at, ns) /\ Ring(S, R, W) /\ Done(at, ns, R)
      /\ s = Pkt(ns, i)
  BY <1>0 DEF Track, Done, Opens
<1>5. /\ PacketHas(s, sent[i][2]) /\ Len(s) < U16 /\ sent[i] = <<Cmd, sent[i][2]>>
      /\ sent[i][2] \in Payload
  BY <1>4, PktFramed
<1>6. ExtractTransChar(Cell(p)) = Char(status, z, read)
  BY <1>2, <1>3
<1>7. PICK packet : packet = ReadOut(read, r + 1)
  OBVIOUS
<1>8. /\ UNCHANGED <<sendVars, ring, write>> /\ (r + 1) % U16 = slen + 4 /\ read' = packet.read
      /\ ~packet.empty => PackHandle(packet.bytes) /\ ExtractStarts(packet.read)
  BY <1>6, <1>7, CompleteStep
<1>9. slen = Len(s) - 4
  BY <1>2 DEF Sees
<1> HIDE DEF r
<1>10. (r + 1) % U16 = r + 1
  <2>1. r + 1 \in Nat /\ r + 1 < U16
    BY <1>1, <1>5, Wide
  <2>. QED BY <2>1, SmallWord
<1>11. r + 1 = Len(s)
  BY <1>1, <1>8, <1>9, <1>10
<1>12. PICK Q : Q = End(at, ns, i) + 1
  OBVIOUS
<1>13. /\ packet = [empty |-> FALSE, bytes |-> s, read |-> Mask(R + Off(s, Len(s)))]
       /\ R + Off(s, Len(s)) = Q /\ Q <= W
  <2>1. R + Off(s, Len(s)) <= W
    BY <1>1, <1>11
  <2>2. /\ ReadOut(read, Len(s)) = [empty |-> FALSE, bytes |-> s, read |-> Mask(R + Off(s, Len(s)))]
        /\ R + Off(s, Len(s)) = End(at, ns, i) + 1
    <3>1. ReadsWhole(s, R, End(at, ns, i))
      BY <1>4, <2>1, WholePacket
    <3>. QED BY <3>1 DEF ReadsWhole
  <2>3. packet = ReadOut(read, Len(s))
    BY <1>7, <1>11
  <2>. QED BY <1>12, <2>1, <2>2, <2>3
<1>14. PackHandle(s) /\ ExtractStarts(Mask(Q)) /\ read' = Mask(Q)
  BY <1>8, <1>13
<1>15. handled' = Append(handled, sent[i])
  <2>1. /\ s[5] = Cmd /\ SubSeq(s, 7, Len(s) - 2) = sent[i][2]
        /\ Checksum(SubSeq(s, 1, Len(s) - 2)) = s[Len(s) - 1] * 256 + s[Len(s)]
    BY <1>5 DEF PacketHas
  <2>2. handled' = Append(handled, <<s[5], SubSeq(s, 7, Len(s) - 2)>>)
    BY <1>14, <2>1 DEF PackHandle
  <2>. QED BY <1>5, <2>1, <2>2
<1>16. sent' = sent
  BY <1>8 DEF sendVars
<1>17. Q \in Nat /\ R <= Q /\ Done(at, ns, Q)'
  <2>1. /\ End(at, ns, i) \in Nat /\ R <= End(at, ns, i) + 1
        /\ Done(at, ns, End(at, ns, i) + 1)'
    BY <1>0, <1>4, <1>15, <1>16, DoneNext
  <2>2. Q \in Nat /\ R <= Q
    BY <1>12, <2>1
  <2>3. End(at, ns, i)' = End(at, ns, i)
    BY <1>16 DEF End, Img, Pkt
  <2>. QED BY <1>12, <2>1, <2>2, <2>3
<1>18. Line(S, at, ns)' /\ Ring(S, Q, W)'
  BY <1>4, <1>8, <1>13, <1>14, <1>17, LineMoves
<1>19. Scans(at, ns, Q, W, Q)'
  BY <1>13, <1>14, <1>17 DEF Scans, ExtractStarts
<1>20. Track(S, at, ns, Q, W, Q)'
  BY <1>14, <1>17, <1>18, <1>19 DEF Track, ExtractStarts
<1>. QED BY <1>17, <1>20

(* A turn of the loop of extract_pro_pkg. *)
LEMMA ParseStep ==
  ASSUME UartFits, NEW S, NEW at, NEW ns, NEW R \in Nat, NEW W \in Nat, NEW P \in Nat,
         Track(S, at, ns, R, W, P), Parse
  PROVE  \E Q, Z \in Nat : Track(S, at, ns, Q, W, Z)'
<1>1. pc = "scan" /\ p # write /\ Scans(at, ns, R, W, P)
  BY DEF Parse, ScanIllegal, ScanHead, ScanBody, ScanComplete, Track
<1>2. PICK s : s = Pkt(ns, Len(handled) + 1)
  OBVIOUS
<1>3. CASE status = "SYNC1" /\ P = R
  BY <1>1, <1>3, FreshStep
<1>4. CASE Opens(at, R) /\ Sees(s, R, P)
  <2>1. CASE recvLen \in 1 .. 3
    BY <1>1, <1>2, <1>4, <2>1, WithinHead
  <2>2. CASE ~(recvLen \in 1 .. 3)
    <3>1. recvLen > 3 /\ status = "PL"
      BY <1>4, <2>2 DEF Sees
    <3>2. PICK z : ExtractTransChar(Cell(p)) = Char(IF recvLen = 1 THEN "SYNC2" ELSE status, z, read)
      BY <1>1, <1>2, <1>4, WithinChar
    <3>3. recvLen # 1
      BY <2>2
    <3>4. ExtractTransChar(Cell(p)) = Char("PL", z, read)
      BY <3>1, <3>2, <3>3
    <3>5. ScanBody \/ ScanComplete
      BY <3>4, NotIllegal, HeadStep DEF Parse
    <3>. QED BY <1>1, <1>2, <1>4, <3>1, <3>5, WithinBody, WithinLast
  <2>. QED BY <2>1, <2>2
<1>. QED BY <1>1, <1>2, <1>3, <1>4 DEF Scans
-----------------------------------------------------------------------------
(* A chunk is put into the ring.                                           *)

Filling == [cells : [Cursor -> Byte], write : Cursor, full : BOOLEAN]
Unfilled == [cells |-> ring, write |-> write, full |-> FALSE]

LEMMA PutType ==
  ASSUME NEW x \in Filling, NEW b \in Byte
  PROVE  Put(x, b) \in Filling
<1>1. x.cells \in [Cursor -> Byte] /\ x.write \in Cursor
  BY DEF Filling
<1>2. CASE x.full
  BY <1>2 DEF Put
<1>3. CASE ~x.full
  <2> DEFINE w == Mask(x.write + 1)
             c == [x.cells EXCEPT ![x.write] = b]
             f == Mask(read - w - 1) = 0
  <2>1. x.write \in Int /\ 1 \in Int /\ x.write + 1 \in Int /\ 0 \in Int
    BY <1>1 DEF Cursor
  <2>2. w \in Cursor
    BY <2>1, MaskShift
  <2>3. c \in [Cursor -> Byte]
    BY <1>1
  <2>4. Put(x, b) = [cells |-> c, write |-> w, full |-> f]
    BY <1>3 DEF Put
  <2>5. f \in BOOLEAN
    OBVIOUS
  <2> HIDE DEF w, c, f
  <2>. QED BY <2>2, <2>3, <2>4, <2>5 DEF Filling
<1>. QED BY <1>2, <1>3

(* The stages of filling the ring. *)
Fills(g, chunk, m) ==
  /\ g[0] = Unfilled /\ \A k \in 1 .. m : g[k] = Put(g[k - 1], chunk[k])
  /\ \A k \in 0 .. m : g[k] \in Filling

LEMMA FilledDef ==
  ASSUME ring \in [Cursor -> Byte], write \in Cursor, NEW chunk \in Seq(Byte),
         NEW m, m = Len(chunk), NEW g, g = Filled(chunk)
  PROVE  Fills(g, chunk, m)
<1> DEFINE T == 1 .. m
           F == [x \in Filling \X T |-> Put(x[1], chunk[x[2]])]
           a == Unfilled
<1>1. a \in Filling /\ m \in Nat
  <2>1. FALSE \in BOOLEAN
    OBVIOUS
  <2>. QED BY <2>1 DEF Filling, Unfilled
<1> HIDE DEF a
<1>2. \A c \in Filling : \A k \in T : Put(c, chunk[k]) \in Filling
  <2>1. \A k \in T : chunk[k] \in Byte
    OBVIOUS
  <2> HIDE DEF T
  <2>. QED BY <2>1, PutType
<1>3. F \in [Filling \X T -> Filling]
  <2> HIDE DEF T
  <2>. QED BY <1>2
<1>4. \E f \in [0 .. m -> Filling] : Stages(m, a, F, f)
  <2> HIDE DEF F
  <2>. QED BY <1>1, <1>3, RecDef, ZenonT(10)
<1>5. PICK f \in [0 .. m -> Filling] : f[0] = a /\ \A k \in T : f[k] = F[<<f[k - 1], k>>]
  <2> HIDE DEF F
  <2>. QED BY <1>4 DEF Stages
<1> DEFINE Is(h) == h = [k \in 0 .. m |-> IF k = 0 THEN a ELSE Put(h[k - 1], chunk[k])]
<1>6. Is(f)
  <2>1. ASSUME NEW k \in T PROVE f[k] = Put(f[k - 1], chunk[k])
    <3>1. k - 1 \in 0 .. m
      BY <1>1
    <3>2. f[k - 1] \in Filling
      BY <1>5, <3>1
    <3> HIDE DEF T
    <3>. QED BY <1>5, <3>2
  <2>2. \A k \in 0 .. m : k # 0 => k \in T
    BY <1>1
  <2>3. f = [k \in 0 .. m |-> f[k]]
    BY <1>5
  <2> HIDE DEF T
  <2>. QED BY <1>5, <2>1, <2>2, <2>3
<1>7. g = CHOOSE h : Is(h)
  BY DEF Filled, a, Unfilled
<1> HIDE DEF Is
<1>8. Is(g)
  BY <1>6, <1>7
<1>9. g = [k \in 0 .. m |-> IF k = 0 THEN a ELSE Put(g[k - 1], chunk[k])]
  BY <1>8 DEF Is
<1>10. g[0] = a /\ \A k \in T : g[k] = Put(g[k - 1], chunk[k])
  <2>1. \A k \in T : k \in 0 .. m /\ k # 0
    BY <1>1
  <2>2. 0 \in 0 .. m
    BY <1>1
  <2> HIDE DEF T
  <2>. QED BY <1>9, <2>1, <2>2
<1>11. \A k \in 0 .. m : g[k] \in Filling
  <2>1. g[0] \in Filling /\ \A k \in T : g[k - 1] \in Filling => g[k] \in Filling
    BY <1>1, <1>2, <1>10
  <2>. QED BY <1>1, <2>1, StagesStay
<1>. QED BY <1>10, <1>11 DEF a, Fills

(* The ring is full when one cell is left. *)
LEMMA FullAt ==
  ASSUME NEW R \in Nat, read = Mask(R), NEW V \in Nat, R <= V, V - R < RbufLen, NEW w, w = Mask(V),
         Mask(read - w - 1) = 0
  PROVE  V - R = RbufLen - 1
<1>1. RbufLen \in Nat /\ RbufLen >= 2
  BY UartConstants
<1>2. read \in Cursor /\ w \in Cursor /\ Mask(w) = w /\ Mask(0) = 0 /\ read \in Int /\ w \in Int
  <2>1. R \in Int /\ V \in Int /\ 0 \in Int
    OBVIOUS
  <2>2. read \in Cursor /\ w \in Cursor /\ 0 \in Cursor
    <3>1. 0 \in Cursor
      BY <1>1 DEF Cursor
    <3>. QED BY <2>1, <3>1, MaskShift
  <2>. QED BY <2>2, MaskCursor DEF Cursor
<1> DEFINE d == read - w - 1
<1>3. d \in Int
  BY <1>2
<1> HIDE DEF d
<1>4. Mask(d) = 0
  BY DEF d
<1>5. Mask(d + w) = w
  <2>1. Mask(Mask(d) + w) = Mask(d + w)
    BY <1>2, <1>3, MaskShift
  <2>2. 0 + w = w
    BY <1>2
  <2>. QED BY <1>2, <1>4, <2>1, <2>2
<1>6. d + w = read + (-1)
  BY <1>2 DEF d
<1>7. Mask(R + (-1)) = Mask(V)
  <2>1. R \in Int /\ -1 \in Int
    OBVIOUS
  <2>2. Mask(Mask(R) + (-1)) = Mask(R + (-1))
    BY <2>1, MaskShift
  <2>. QED BY <1>5, <1>6, <2>2
<1> DEFINE a == R + (-1)
           b == V + (-RbufLen)
<1>8. a \in Int /\ b \in Int
  BY <1>1
<1>9. Mask(b) = Mask(V)
  <2>1. -RbufLen \in Int /\ V \in Int
    BY <1>1
  <2>2. Mask(Mask(-RbufLen) + V) = Mask(-RbufLen + V)
    BY <2>1, MaskShift
  <2>3. Mask(0 + V) = Mask(-RbufLen + V)
    BY <2>2, MaskTurn
  <2>4. 0 + V = V /\ -RbufLen + V = V + (-RbufLen)
    BY <2>1
  <2>. QED BY <2>3, <2>4
<1>10. -RbufLen < a - b /\ a - b < RbufLen
  BY <1>1
<1>11. a = b
  <2> HIDE DEF a, b
  <2>. QED BY <1>7, <1>8, <1>9, <1>10, MaskApart DEF a
<1>. QED BY <1>1, <1>11
(* The cells hold the places of S from R - 1 to V - 1. *)
Holds(cells, S, R, V) == \A j \in R - 1 .. V - 1 : cells[Mask(j)] = S[j]

LEMMA PutAt ==
  ASSUME NEW S \in Seq(Byte), NEW R \in Nat, read = Mask(R), NEW V \in Nat, R <= V,
         V + 1 - R < RbufLen, V \in 1 .. Len(S),
         NEW x \in Filling, ~x.full, x.write = Mask(V), Holds(x.cells, S, R, V),
         NEW y, y = Put(x, S[V])
  PROVE  /\ y.write = Mask(V + 1) /\ Holds(y.cells, S, R, V + 1)
         /\ y.full => V + 1 - R = RbufLen - 1
<1>1. x.cells \in [Cursor -> Byte] /\ x.write \in Cursor
  BY DEF Filling
<1> DEFINE w == Mask(x.write + 1)
           c == [x.cells EXCEPT ![x.write] = S[V]]
           f == Mask(read - w - 1) = 0
<1>2. y = [cells |-> c, write |-> w, full |-> f]
  BY DEF Put
<1>3. w = Mask(V + 1)
  <2>1. V \in Int /\ 1 \in Int
    OBVIOUS
  <2>. QED BY <2>1, MaskShift
<1>4. ASSUME NEW j \in R - 1 .. (V + 1) - 1 PROVE c[Mask(j)] = S[j]
  <2>1. j \in Int /\ Mask(j) \in Cursor
    <3>1. j \in Int /\ 0 \in Int
      OBVIOUS
    <3>. QED BY <3>1, MaskShift
  <2>2. CASE j = V
    BY <1>1, <2>1, <2>2
  <2>3. CASE j # V
    <3>1. j \in R - 1 .. V - 1
      BY <2>3
    <3>2. Mask(j) # Mask(V)
      <4>1. -RbufLen < j - V /\ j - V < RbufLen /\ V \in Int
        BY <3>1, UartConstants
      <4>. QED BY <2>1, <2>3, <4>1, MaskApart
    <3>3. c[Mask(j)] = x.cells[Mask(j)]
      BY <1>1, <2>1, <3>2
    <3>. QED BY <3>1, <3>3 DEF Holds
  <2>. QED BY <2>2, <2>3
<1> HIDE DEF w, c, f
<1>5. y.write = w /\ y.cells = c /\ y.full = f
  BY <1>2
<1>6. ASSUME y.full PROVE V + 1 - R = RbufLen - 1
  <2>1. Mask(read - w - 1) = 0
    BY <1>5, <1>6 DEF f
  <2>2. V + 1 \in Nat /\ R <= V + 1
    OBVIOUS
  <2>. QED BY <1>3, <2>1, <2>2, FullAt
<1>. QED BY <1>3, <1>4, <1>5, <1>6 DEF Holds

LEMMA ChunkStored ==
  ASSUME NEW S \in Seq(Byte), NEW R \in Nat, NEW W \in Nat, Ring(S, R, W),
         NEW n \in Nat, W + n - R < RbufLen, n <= Len(wire),
         NEW x, x = Filled(SubSeq(wire, 1, n))[n]
  PROVE  x \in Filling /\ x.write = Mask(W + n) /\ Holds(x.cells, S, R, W + n)
<1>1. PICK chunk : chunk = SubSeq(wire, 1, n)
  OBVIOUS
<1>2. PICK g : g = Filled(chunk)
  OBVIOUS
<1>3. /\ wire \in Seq(Byte) /\ RbufLen <= R /\ R <= W /\ Len(wire) = Len(S) + 1 - W
      /\ ring \in [Cursor -> Byte] /\ read = Mask(R) /\ write = Mask(W)
      /\ \A k \in 1 .. Len(wire) : wire[k] = S[W + k - 1]
      /\ Holds(ring, S, R, W)
  BY DEF Ring, Holds
<1>4. chunk \in Seq(Byte) /\ Len(chunk) = n /\ \A k \in 1 .. n : chunk[k] = wire[k]
  BY <1>1, <1>3
<1>5. write \in Cursor
  <2>1. W \in Int /\ 0 \in Int
    OBVIOUS
  <2>. QED BY <1>3, <2>1, MaskShift
<1>6. /\ g[0] = Unfilled /\ \A k \in 1 .. n : g[k] = Put(g[k - 1], chunk[k])
      /\ \A k \in 0 .. n : g[k] \in Filling
  <2>1. ring \in [Cursor -> Byte] /\ write \in Cursor /\ chunk \in Seq(Byte) /\ n = Len(chunk)
    BY <1>3, <1>4, <1>5
  <2>2. Fills(g, chunk, n)
    BY <1>2, <2>1, FilledDef
  <2>. QED BY <2>2 DEF Fills
<1>7. R \in Nat /\ W \in Nat /\ RbufLen \in Nat /\ RbufLen >= 2 /\ Len(S) \in Nat /\ W >= 1
      /\ W + n <= Len(S) + 1
  <2>1. RbufLen \in Nat /\ RbufLen >= 2 /\ Len(S) \in Nat
    BY UartConstants
  <2>2. W >= 1
    BY <1>3, <2>1
  <2> DEFINE l == Len(wire)
             m == Len(S)
  <2>3. l = m + 1 - W /\ n <= l /\ m \in Nat
    BY <1>3, <2>1
  <2> HIDE DEF l, m
  <2>4. W + n <= m + 1
    BY <2>3
  <2>. QED BY <2>1, <2>2, <2>4 DEF m
<1> DEFINE Good(k, y) == /\ y.write = Mask(W + k) /\ Holds(y.cells, S, R, W + k)
                         /\ y.full => W + k - R = RbufLen - 1
           G == {k \in Nat : k <= n => Good(k, g[k])}
<1>8. 0 \in G
  <2>1. W + 0 = W
    OBVIOUS
  <2>2. PICK y : y = g[0]
    OBVIOUS
  <2>3. y.write = write /\ y.cells = ring /\ y.full = FALSE
    BY <1>6, <2>2 DEF Unfilled
  <2>4. Good(0, y)
    BY <1>3, <2>1, <2>3
  <2>. QED BY <2>2, <2>4
<1>9. ASSUME NEW k \in Nat, k \in G PROVE k + 1 \in G
  <2> SUFFICES ASSUME k + 1 <= n PROVE Good(k + 1, g[k + 1])
    <3> HIDE DEF Good
    <3>. QED OBVIOUS
  <2>1. PICK y : y = g[k]
    OBVIOUS
  <2>2. PICK z : z = g[k + 1]
    OBVIOUS
  <2>3. k \in 0 .. n /\ k + 1 \in 1 .. n /\ (k + 1) - 1 = k
    OBVIOUS
  <2>4. Good(k, y) /\ y \in Filling
    BY <1>6, <1>9, <2>1, <2>3
  <2>5. PICK V : V = W + k
    OBVIOUS
  <2>6. V \in Nat /\ R <= V /\ V + 1 - R < RbufLen /\ V \in 1 .. Len(S) /\ V + 1 = W + (k + 1)
    <3> DEFINE m == Len(S)
    <3>1. m \in Nat /\ W + n <= m + 1
      BY <1>7
    <3> HIDE DEF m
    <3>2. V \in Nat /\ R <= V /\ V + 1 = W + (k + 1)
      <4>1. R <= W
        BY <1>3
      <4>. QED BY <2>5, <4>1
    <3>3. V + 1 <= W + n
      BY <3>2
    <3>4. V + 1 - R < RbufLen
      BY <1>7, <3>2, <3>3
    <3>5. V >= 1
      BY <1>7, <2>5
    <3>6. V \in 1 .. m
      BY <3>1, <3>2, <3>3, <3>5
    <3>. QED BY <3>2, <3>4, <3>6 DEF m
  <2>7. z = Put(y, S[V])
    <3>1. k + 1 \in 1 .. Len(wire) /\ W + (k + 1) - 1 = V
      <4>1. Len(wire) \in Nat
        BY <1>3
      <4>. QED BY <2>5, <4>1
    <3>2. chunk[k + 1] = S[V]
      BY <1>3, <1>4, <2>3, <3>1
    <3>. QED BY <1>6, <2>1, <2>2, <2>3, <3>2
  <2>8. ~y.full /\ y.write = Mask(V) /\ Holds(y.cells, S, R, V)
    <3>1. W + k - R # RbufLen - 1
      BY <1>7, <2>5, <2>6
    <3>. QED BY <2>4, <2>5, <3>1
  <2>9. /\ z.write = Mask(V + 1) /\ Holds(z.cells, S, R, V + 1)
        /\ z.full => V + 1 - R = RbufLen - 1
    BY <1>3, <2>4, <2>6, <2>7, <2>8, PutAt
  <2>10. Good(k + 1, z)
    BY <2>6, <2>9
  <2>. QED BY <2>2, <2>10
<1>10. \A k \in Nat : k \in G
  <2> HIDE DEF G
  <2>. QED BY <1>8, <1>9, NatSetInduction
<1>11. Good(n, g[n]) /\ g[n] \in Filling
  BY <1>6, <1>10
<1>. QED BY <1>1, <1>2, <1>11

(* There is room for a chunk, and no byte of it is lost. *)
LEMMA Room ==
  ASSUME UartFits, NEW S, NEW at, NEW ns, Line(S, at, ns), NEW R \in Nat, NEW W \in Nat,
         R <= W, Done(at, ns, R), Waits(at, ns, R, W), NEW n \in 1 .. MaxChunk
  PROVE  W + n - R < RbufLen
<1>1. RbufLen \in Nat /\ MaxChunk \in Nat /\ MaxChunk < RbufLen
  BY UartConstants
<1>2. CASE R = W
  BY <1>1, <1>2
<1>3. CASE Opens(at, R) /\ W <= End(at, ns, Len(handled) + 1)
  <2>1. PICK i : i = Len(handled) + 1
    OBVIOUS
  <2>2. i \in 1 .. Len(sent) /\ R = at[i] + 1 /\ W <= End(at, ns, i) /\ at[i] \in Nat
    BY <1>3, <2>1 DEF Done, Opens, Line
  <2>3. Img(ns, i) \in Seq(Byte) /\ Len(Img(ns, i)) + MaxChunk <= RbufLen
    BY <2>2, PktFramed DEF ImageHas
  <2> DEFINE l == Len(Img(ns, i))
             b == at[i]
  <2>4. l \in Nat /\ l + MaxChunk <= RbufLen /\ W <= b + l /\ b \in Nat /\ R = b + 1
    BY <2>2, <2>3 DEF End
  <2> HIDE DEF l, b
  <2>. QED BY <1>1, <2>4
<1>. QED BY <1>2, <1>3 DEF Waits

LEMMA ReceiveStep ==
  ASSUME UartFits, NEW S, NEW at, NEW ns, NEW R \in Nat, NEW W \in Nat, NEW P \in Nat,
         Track(S, at, ns, R, W, P), NEW n \in 1 .. MaxChunk, Receive(n)
  PROVE  Track(S, at, ns, R, W + n, R)'
<1>1. /\ Line(S, at, ns) /\ Ring(S, R, W) /\ Done(at, ns, R) /\ Waits(at, ns, R, W)
      /\ S \in Seq(Byte) /\ R <= W /\ wire \in Seq(Byte) /\ Len(wire) = Len(S) + 1 - W
      /\ RbufLen <= R /\ W <= Len(S) + 1 /\ read = Mask(R)
      /\ \A k \in 1 .. Len(wire) : wire[k] = S[W + k - 1]
  BY DEF Track, Receive, Line, Ring
<1>2. n \in Nat /\ n >= 1 /\ RbufLen \in Nat /\ Len(S) \in Nat /\ Len(wire) \in Nat
  BY <1>1, UartConstants
<1>3. PICK x : x = Filled(SubSeq(wire, 1, n))[n]
  OBVIOUS
<1>4. /\ n <= Len(wire) /\ wire[n] # FE /\ ring' = x.cells /\ write' = x.write
      /\ wire' = SubSeq(wire, n + 1, Len(wire)) /\ ExtractStarts(read)
      /\ UNCHANGED <<sn, sent, noise, read, handled>>
  BY <1>3 DEF Receive, UartFits
<1>5. W + n - R < RbufLen
  BY <1>1, Room
<1>6. x \in Filling /\ x.write = Mask(W + n) /\ Holds(x.cells, S, R, W + n)
  BY <1>1, <1>2, <1>3, <1>4, <1>5, ChunkStored
<1>7. W + n \in Nat /\ R <= W + n
  BY <1>1, <1>2
<1>8. Line(S, at, ns)'
  BY <1>1, <1>4 DEF Line, End, Img, Pkt
<1>9. Done(at, ns, R)'
  BY <1>1, <1>4, DoneKept
<1>10. Ring(S, R, W + n)'
  <2> DEFINE l == Len(wire)
             m == Len(S)
             u == wire'
  <2>1. l \in Nat /\ m \in Nat /\ l = m + 1 - W /\ n <= l
    BY <1>1, <1>2, <1>4
  <2>2. u \in Seq(Byte) /\ Len(u) = l - n /\ \A k \in 1 .. l - n : u[k] = wire[n + k]
    <3>1. n + 1 \in 1 .. l + 1 /\ l \in Nat /\ l - (n + 1) + 1 = l - n
      <4> HIDE DEF l
      <4>. QED BY <1>2, <2>1
    <3>2. u = SubSeq(wire, n + 1, l)
      BY <1>4
    <3>3. Len(u) = l - n
      BY <1>1, <3>1, <3>2
    <3>4. u \in Seq(Byte)
      BY <1>1, <3>1, <3>2
    <3>5. \A k \in 1 .. l - n : u[k] = wire[n + k]
      <4>1. ASSUME NEW k \in 1 .. l - n PROVE u[k] = wire[n + k]
        <5>1. n + 1 + k - 1 = n + k /\ k \in 1 .. (l - (n + 1) + 1)
          BY <1>2, <2>1, <3>1
        <5>2. SubSeq(wire, n + 1, l)[k] = wire[(n + 1) + k - 1]
          BY <1>1, <1>2, <2>1, <3>1, <5>1
        <5>. QED BY <3>2, <5>1, <5>2
      <4>. QED BY <4>1
    <3>. QED BY <3>3, <3>4, <3>5
  <2> HIDE DEF l, m, u
  <2>3. W + n <= m + 1 /\ Len(u) = m + 1 - (W + n)
    BY <1>2, <2>1, <2>2
  <2>4. ASSUME NEW k \in 1 .. Len(u) PROVE u[k] = S[(W + n) + k - 1]
    <3>1. k \in 1 .. l - n
      BY <2>2
    <3>2. n + k \in 1 .. l /\ W + (n + k) - 1 = (W + n) + k - 1
      BY <1>2, <2>1, <3>1
    <3>. QED BY <1>1, <2>2, <3>1, <3>2 DEF l
  <2>5. S[(W + n) - 1] # FE
    <3>1. n \in 1 .. l /\ W + n - 1 = (W + n) - 1
      BY <1>2, <2>1
    <3>. QED BY <1>1, <1>4, <3>1 DEF l
  <2>6. x.cells \in [Cursor -> Byte]
    BY <1>6 DEF Filling
  <2>7. /\ W + n <= Len(S) + 1 /\ u \in Seq(Byte) /\ Len(u) = Len(S) + 1 - (W + n)
    BY <2>2, <2>3 DEF m
  <2>8. /\ RbufLen <= R /\ R <= W + n /\ W + n <= Len(S) + 1 /\ (W + n) - R < RbufLen
        /\ read' = Mask(R) /\ write' = Mask(W + n) /\ ring' \in [Cursor -> Byte]
        /\ \A k \in R - 1 .. (W + n) - 1 : ring'[Mask(k)] = S[k]
    <3>1. RbufLen <= R /\ read' = Mask(R) /\ write' = Mask(W + n) /\ ring' = x.cells
      BY <1>1, <1>4, <1>6
    <3>2. \A k \in R - 1 .. (W + n) - 1 : x.cells[Mask(k)] = S[k]
      BY <1>6 DEF Holds
    <3>. QED BY <1>5, <1>7, <2>6, <2>7, <3>1, <3>2
  <2>9. /\ wire' \in Seq(Byte) /\ Len(wire') = Len(S) + 1 - (W + n)
        /\ \A k \in 1 .. Len(wire') : wire'[k] = S[(W + n) + k - 1]
    BY <2>4, <2>7 DEF u
  <2>. QED BY <2>5, <2>8, <2>9 DEF Ring
<1>11. Scans(at, ns, R, W + n, R)'
  <2>1. p' = Mask(R) /\ status' = "SYNC1"
    BY <1>1, <1>4 DEF ExtractStarts
  <2>. QED BY <1>7, <2>1 DEF Scans
<1>. QED BY <1>4, <1>8, <1>9, <1>10, <1>11 DEF Track, ExtractStarts
-----------------------------------------------------------------------------
(* More bytes are put on the line.                                         *)

LEMMA LongerRing ==
  ASSUME NEW S \in Seq(Byte), NEW R \in Nat, NEW W \in Nat, Ring(S, R, W), NEW T \in Seq(Byte),
         NEW S2, S2 = S \o T, wire' = wire \o T, UNCHANGED <<ring, read, write>>
  PROVE  Ring(S2, R, W)'
<1>1. S2 \in Seq(Byte) /\ Joins(S2, S, T)
  BY ConcatParts
<1>2. wire \in Seq(Byte)
  BY DEF Ring
<1>3. PICK u : u = wire'
  OBVIOUS
<1>4. u \in Seq(Byte) /\ Joins(u, wire, T)
  BY <1>2, <1>3, ConcatParts
<1> DEFINE m == Len(S)
           l == Len(wire)
           t == Len(T)
<1>5. m \in Nat /\ l \in Nat /\ t \in Nat
  BY <1>2
<1>6. /\ Len(S2) = m + t /\ \A i \in 1 .. m : S2[i] = S[i]
      /\ \A i \in 1 .. t : S2[m + i] = T[i]
  BY <1>1 DEF Joins
<1>7. /\ Len(u) = l + t /\ \A i \in 1 .. l : u[i] = wire[i]
      /\ \A i \in 1 .. t : u[l + i] = T[i]
  BY <1>4 DEF Joins
<1>8. /\ RbufLen <= R /\ R <= W /\ W <= m + 1 /\ W - R < RbufLen /\ l = m + 1 - W
      /\ \A k \in 1 .. l : wire[k] = S[W + k - 1]
      /\ \A k \in R - 1 .. W - 1 : ring[Mask(k)] = S[k]
      /\ S[W - 1] # FE /\ RbufLen \in Nat /\ RbufLen >= 2
  BY UartConstants DEF Ring
<1> HIDE DEF m, l, t
<1>9. \A k \in R - 1 .. W - 1 : k \in 1 .. m
  BY <1>5, <1>8
<1>10. \A k \in R - 1 .. W - 1 : ring[Mask(k)] = S2[k]
  BY <1>6, <1>8, <1>9
<1>11. S2[W - 1] # FE
  <2>1. W - 1 \in R - 1 .. W - 1
    BY <1>8
  <2>. QED BY <1>6, <1>8, <1>9, <2>1
<1>12. ASSUME NEW k \in 1 .. l + t PROVE u[k] = S2[W + k - 1]
  <2>1. CASE k \in 1 .. l
    <3>1. W + k - 1 \in 1 .. m
      <4>1. l = m + 1 - W /\ W >= 1
        BY <1>8
      <4>. QED BY <1>5, <2>1, <4>1
    <3>. QED BY <1>6, <1>7, <1>8, <2>1, <3>1
  <2>2. CASE k \notin 1 .. l
    <3>1. PICK i : i = k - l
      OBVIOUS
    <3>2. i \in 1 .. t /\ l + i = k /\ m + i = W + k - 1
      <4>1. l = m + 1 - W
        BY <1>8
      <4>. QED BY <1>5, <2>2, <3>1, <4>1
    <3>. QED BY <1>6, <1>7, <3>2
  <2>. QED BY <2>1, <2>2
<1>13. W <= (m + t) + 1 /\ l + t = (m + t) + 1 - W
  <2>1. l = m + 1 - W
    BY <1>8
  <2>. QED BY <1>5, <2>1
<1>14. ring \in [Cursor -> Byte] /\ read = Mask(R) /\ write = Mask(W)
  BY DEF Ring
<1>15. /\ W <= Len(S2) + 1 /\ wire' \in Seq(Byte) /\ Len(wire') = Len(S2) + 1 - W
       /\ \A k \in 1 .. Len(wire') : wire'[k] = S2[W + k - 1]
  BY <1>3, <1>4, <1>6, <1>7, <1>12, <1>13
<1>. QED BY <1>8, <1>10, <1>11, <1>14, <1>15 DEF Ring

(* The packets that are on the line remain, and those added begin behind   *)
(* what was there.                                                         *)
Extends(S, at, ns, at2, ns2, N) ==
  /\ N \in Nat /\ Len(sent) <= N
  /\ \A i \in 1 .. Len(sent) : at2[i] = at[i] /\ ns2[i] = ns[i]
  /\ \A i \in Len(sent) + 1 .. N : Len(S) <= at2[i]

LEMMA Grown ==
  ASSUME NEW S, NEW at, NEW ns, NEW R \in Nat, NEW W \in Nat, NEW P \in Nat,
         Track(S, at, ns, R, W, P), NEW T \in Seq(Byte), NEW S2, S2 = S \o T, NEW at2, NEW ns2,
         wire' = wire \o T, UNCHANGED <<ring, read, write, scanVars, handled>>,
         Extends(S, at, ns, at2, ns2, Len(sent')),
         \A i \in 1 .. Len(sent) : sent'[i] = sent[i],
         Line(S2, at2, ns2)'
  PROVE  Track(S2, at2, ns2, R, W, P)'
<1>1. /\ Line(S, at, ns) /\ Ring(S, R, W) /\ Done(at, ns, R) /\ S \in Seq(Byte)
      /\ pc = "idle" => Waits(at, ns, R, W)
      /\ pc = "scan" => Scans(at, ns, R, W, P)
      /\ pc \in {"idle", "scan"} /\ UNCHANGED <<pc, p, status, recvLen, slen>>
  BY DEF Track, Line, scanVars
<1>2. Ring(S2, R, W)'
  BY <1>1, LongerRing
<1> DEFINE h == Len(handled)
           N == Len(sent)
           M == Len(sent')
<1>3. /\ N \in Nat /\ M \in Nat /\ N <= M /\ h \in Nat /\ h <= N
      /\ handled \in Seq({Cmd} \X Payload)
      /\ \A i \in 1 .. h : handled[i] = sent[i] /\ End(at, ns, i) < R
      /\ \A i \in h + 1 .. N : R <= at[i] + 1
      /\ \A i \in 1 .. N : at2[i] = at[i] /\ ns2[i] = ns[i] /\ at[i] \in Nat
      /\ \A i \in N + 1 .. M : Len(S) <= at2[i] /\ at2[i] \in Nat
  <2>1. N \in Nat /\ h \in Nat /\ \A i \in 1 .. N : at[i] \in Nat
    <3>1. h \in Nat
      BY <1>1 DEF Done
    <3>2. sent \in Seq({Cmd} \X Payload) /\ at \in [1 .. N -> Nat]
      BY <1>1 DEF Line
    <3>3. N \in Nat
      <4>1. PICK T2 : T2 = {Cmd} \X Payload
        OBVIOUS
      <4>. QED BY <3>2, <4>1
    <3> HIDE DEF N, h
    <3>4. \A i \in 1 .. N : at[i] \in Nat
      BY <3>2
    <3>. QED BY <3>1, <3>3, <3>4
  <2>2. \A i \in 1 .. M : at2[i] \in Nat
    BY DEF Line
  <2>3. M \in Nat /\ N <= M
    BY DEF Extends
  <2>4. \A i \in N + 1 .. M : i \in 1 .. M
    <3> HIDE DEF N, M
    <3>. QED BY <2>1, <2>3
  <2>. QED BY <1>1, <2>1, <2>2, <2>3, <2>4 DEF Done, Extends
<1>4. \A i \in 1 .. N : Pkt(ns2, i)' = Pkt(ns, i) /\ Img(ns2, i)' = Img(ns, i) /\ End(at2, ns2, i)' = End(at, ns, i)
  BY <1>3 DEF Pkt, Img, End
<1>5. R <= Len(S) + 1 /\ Len(S) \in Nat
  BY <1>1 DEF Ring
<1> HIDE DEF N, M, h
<1>6. \A i \in 1 .. h : i \in 1 .. N
  BY <1>3
<1>7. \A i \in 1 .. h : handled'[i] = sent'[i] /\ End(at2, ns2, i)' < R
  BY <1>3, <1>4, <1>6 DEF N
<1>8. ASSUME NEW i \in h + 1 .. M PROVE R <= at2[i] + 1
  <2>1. CASE i \in 1 .. N
    <3>1. i \in h + 1 .. N
      BY <1>3, <2>1
    <3>. QED BY <1>3, <2>1, <3>1
  <2>2. CASE i \notin 1 .. N
    <3>1. i \in N + 1 .. M
      BY <1>3, <2>2
    <3>2. Len(S) <= at2[i] /\ at2[i] \in Nat
      BY <1>3, <3>1
    <3>. QED BY <1>5, <3>2
  <2>. QED BY <2>1, <2>2
<1>9. h' = h
  BY DEF h
<1>10. Done(at2, ns2, R)'
  <2>1. handled' \in Seq({Cmd} \X Payload) /\ Len(handled') <= Len(sent') /\ Len(handled') = h
    BY <1>3 DEF h, M
  <2>2. \A i \in Len(handled') + 1 .. Len(sent') : R <= at2[i] + 1
    BY <1>8, <2>1 DEF M
  <2>3. \A i \in 1 .. Len(handled') : handled'[i] = sent'[i] /\ End(at2, ns2, i)' < R
    BY <1>7, <2>1
  <2>4. \A i : End(at2, ns2, i)' = at2[i] + Len(Img(ns2, i)')
    BY DEF End
  <2>. QED BY <2>1, <2>2, <2>3 DEF Done
<1>11. ASSUME Opens(at, R)
       PROVE  Opens(at2, R)' /\ h + 1 \in 1 .. N
  <2>1. h + 1 \in 1 .. N /\ h < M
    BY <1>3, <1>11 DEF Opens, h, N
  <2>2. at2[h + 1] = at[h + 1]
    BY <1>3, <2>1
  <2>. QED BY <1>11, <2>1, <2>2 DEF Opens, h, M
<1>12. ASSUME pc' = "idle" PROVE Waits(at2, ns2, R, W)'
  <2>1. Waits(at, ns, R, W)
    BY <1>1, <1>12
  <2>2. CASE R = W
    BY <2>2 DEF Waits
  <2>3. CASE Opens(at, R) /\ W <= End(at, ns, h + 1)
    <3>1. Opens(at2, R)' /\ h + 1 \in 1 .. N
      BY <1>11, <2>3
    <3>2. End(at2, ns2, h + 1)' = End(at, ns, h + 1)
      BY <1>4, <1>9, <3>1
    <3>. QED BY <1>9, <2>3, <3>1, <3>2 DEF Waits, h, End
  <2>. QED BY <2>1, <2>2, <2>3 DEF Waits, h
<1>13. ASSUME pc' = "scan" PROVE Scans(at2, ns2, R, W, P)'
  <2>1. Scans(at, ns, R, W, P)
    BY <1>1, <1>13
  <2>2. CASE status = "SYNC1" /\ P = R
    BY <1>1, <2>1, <2>2 DEF Scans
  <2>3. CASE Opens(at, R) /\ Sees(Pkt(ns, h + 1), R, P)
    <3>1. Opens(at2, R)' /\ h + 1 \in 1 .. N
      BY <1>11, <2>3
    <3>2. PICK s : s = Pkt(ns, h + 1)
      OBVIOUS
    <3>3. Pkt(ns2, h + 1)' = s
      BY <1>4, <1>9, <3>1, <3>2
    <3>4. Sees(s, R, P)'
      BY <1>1, <2>3, <3>2 DEF Sees
    <3>. QED BY <1>1, <1>9, <2>1, <3>1, <3>3, <3>4 DEF Scans, h, Pkt
  <2>. QED BY <2>1, <2>2, <2>3 DEF Scans, h
<1>. QED BY <1>1, <1>2, <1>10, <1>12, <1>13 DEF Track
(* No 0xFE of S stands before another or at the end but where C says.      *)
CleanBut(S, C) ==
  \A k \in 1 .. Len(S) : S[k] = FE => k < Len(S) /\ (S[k + 1] = FE => k \in C)

LEMMA LongerLine ==
  ASSUME NEW S \in Seq(Byte), NEW T \in Seq(Byte), NEW S2, S2 = S \o T,
         NEW A, CleanBut(T, A), NEW C, CleanBut(S, C),
         NEW D, C \subseteq D, \A k \in A : Len(S) + k \in D
  PROVE  S2 \in Seq(Byte) /\ Joins(S2, S, T) /\ CleanBut(S2, D)
<1>1. S2 \in Seq(Byte) /\ Joins(S2, S, T)
  BY ConcatParts
<1> DEFINE m == Len(S)
           t == Len(T)
<1>2. m \in Nat /\ t \in Nat
  OBVIOUS
<1>3. /\ Len(S2) = m + t /\ \A i \in 1 .. m : S2[i] = S[i]
      /\ \A i \in 1 .. t : S2[m + i] = T[i]
  BY <1>1 DEF Joins
<1>4. /\ \A k \in 1 .. m : S[k] = FE => k < m /\ (S[k + 1] = FE => k \in C)
      /\ \A k \in 1 .. t : T[k] = FE => k < t /\ (T[k + 1] = FE => k \in A)
  BY DEF CleanBut
<1>6. \A k \in A : m + k \in D
  OBVIOUS
<1> HIDE DEF m, t
<1>5. ASSUME NEW k \in 1 .. m + t, S2[k] = FE
      PROVE  k < m + t /\ (S2[k + 1] = FE => k \in D)
  <2>1. CASE k \in 1 .. m
    <3>1. k < m /\ k + 1 \in 1 .. m
      BY <1>2, <1>3, <1>4, <1>5, <2>1
    <3>2. k < m + t
      BY <1>2, <3>1
    <3>. QED BY <1>3, <1>4, <1>5, <2>1, <3>1, <3>2
  <2>2. CASE k \notin 1 .. m
    <3>1. PICK i : i = k - m
      OBVIOUS
    <3>2. i \in 1 .. t /\ m + i = k /\ i \in Nat
      BY <1>2, <2>2, <3>1
    <3>3. i < t /\ i + 1 \in 1 .. t /\ m + (i + 1) = k + 1
      <4>1. i < t
        BY <1>3, <1>4, <1>5, <3>2
      <4>. QED BY <1>2, <3>2, <4>1
    <3>4. T[i] = FE /\ S2[k + 1] = T[i + 1]
      BY <1>3, <1>5, <3>2, <3>3
    <3>5. k < m + t
      BY <1>2, <3>2, <3>3
    <3>6. ASSUME S2[k + 1] = FE PROVE k \in D
      <4>1. i \in A
        BY <1>4, <3>2, <3>4, <3>6
      <4>. QED BY <1>6, <3>2, <4>1
    <3>. QED BY <3>5, <3>6
  <2>. QED BY <2>1, <2>2
<1>. QED BY <1>1, <1>3, <1>5 DEF CleanBut

LEMMA ImageClean ==
  ASSUME UartFits, NEW pl \in Payload, NEW n \in Byte, NEW t, t = Image(pl, n)
  PROVE  t \in Seq(Byte) /\ CleanBut(t, {1})
<1>1. PICK s : s = Packet(pl, n)
  OBVIOUS
<1>2. PacketHas(s, pl) /\ ImageHas(s, t)
  <2>1. t = PackTranslate(s)
    BY <1>1 DEF Image
  <2>. QED BY <1>1, <2>1, ImageFramed
<1>3. Len(pl) \in Nat /\ Len(s) = Len(pl) + 8 /\ Len(s) \in Nat
  <2>1. pl \in Seq(Byte)
    BY PayloadFits
  <2>2. Len(pl) \in Nat
    BY <2>1
  <2>3. Len(s) = Len(pl) + 8
    BY <1>2 DEF PacketHas
  <2>. QED BY <2>2, <2>3
<1> DEFINE m == Len(s)
           l == Len(t)
<1>4. m \in Nat /\ m >= 8 /\ l = Off(s, m) /\ t \in Seq(Byte) /\ l \in Nat /\ l >= m
  <2>1. l = Off(s, m) /\ t \in Seq(Byte) /\ l >= m
    BY <1>2 DEF ImageHas
  <2>. QED BY <1>3, <2>1
<1>5. /\ \A k \in 2 .. l - 1 : t[k] = FE => t[k + 1] # FE
      /\ \A k \in 3 .. m : t[Off(s, k)] # FE
  BY <1>2 DEF ImageHas
<1> HIDE DEF m, l
<1>6. t[l] # FE
  <2>1. m \in 3 .. m
    BY <1>4
  <2>. QED BY <1>4, <1>5, <2>1
<1>7. ASSUME NEW k \in 1 .. l, t[k] = FE PROVE k < l /\ (t[k + 1] = FE => k = 1)
  <2>1. k # l
    BY <1>6, <1>7
  <2>2. k < l /\ (k # 1 => k \in 2 .. l - 1)
    BY <1>4, <2>1
  <2>. QED BY <1>5, <1>7, <2>2
<1>. QED BY <1>4, <1>7 DEF CleanBut, l

LEMMA DisturbStep ==
  ASSUME UartFits, NEW S, NEW at, NEW ns, NEW R \in Nat, NEW W \in Nat, NEW P \in Nat,
         Track(S, at, ns, R, W, P), NEW T \in Noise, Disturb(T)
  PROVE  \E S2 : Track(S2, at, ns, R, W, P)'
<1>1. PICK S2 : S2 = S \o T
  OBVIOUS
<1>0. PICK C : C = {k \in 1 .. Len(S) : \E i \in 1 .. Len(sent) : k = at[i] + 1}
  OBVIOUS
<1>2. /\ S \in Seq(Byte) /\ sent \in Seq({Cmd} \X Payload)
      /\ at \in [1 .. Len(sent) -> Nat] /\ ns \in [1 .. Len(sent) -> Byte]
      /\ \A i \in 1 .. Len(sent) :
           /\ End(at, ns, i) <= Len(S)
           /\ \A k \in 1 .. Len(Img(ns, i)) : S[at[i] + k] = Img(ns, i)[k]
      /\ \A i, j \in 1 .. Len(sent) : i < j => End(at, ns, i) <= at[j]
      /\ CleanBut(S, C) /\ Line(S, at, ns)
  <2>1. Line(S, at, ns)
    BY DEF Track
  <2>. QED BY <1>0, <2>1 DEF Line, CleanBut
<1>3. T \in Seq(Byte) /\ CleanBut(T, {})
  BY UartProtocolAssumption DEF UartFits, CleanBut
<1>4. S2 \in Seq(Byte) /\ Joins(S2, S, T) /\ CleanBut(S2, C)
  <2>0. PICK A : A = {}
    OBVIOUS
  <2>1. C \subseteq C /\ \A k \in A : Len(S) + k \in C
    BY <2>0
  <2>2. S \in Seq(Byte) /\ T \in Seq(Byte) /\ CleanBut(S, C) /\ CleanBut(T, A)
    BY <1>2, <1>3, <2>0
  <2>. QED BY <1>1, <2>1, <2>2, LongerLine
<1>5. sent' = sent /\ wire' = wire \o T /\ UNCHANGED <<ring, read, write, scanVars, handled>>
  BY DEF Disturb
<1>6. Len(S) \in Nat /\ Len(T) \in Nat /\ Len(sent) \in Nat
  <2>1. Len(S) \in Nat /\ Len(T) \in Nat
    BY <1>2, <1>3
  <2>2. PICK Y : Y = {Cmd} \X Payload
    OBVIOUS
  <2>. QED BY <1>2, <2>1, <2>2
<1>7. ASSUME NEW i \in 1 .. Len(sent)
      PROVE  /\ End(at, ns, i) <= Len(S2)
             /\ \A k \in 1 .. Len(Img(ns, i)) : S2[at[i] + k] = Img(ns, i)[k]
  <2> DEFINE l == Len(Img(ns, i))
             b == at[i]
             m == Len(S)
             t == Len(T)
  <2>1. b \in Nat /\ l \in Nat /\ m \in Nat /\ t \in Nat /\ b + l <= m
    <3>1. Img(ns, i) \in Seq(Byte)
      BY <1>2, PktFramed DEF ImageHas
    <3>2. End(at, ns, i) <= Len(S)
      BY <1>2
    <3>3. b \in Nat
      BY <1>2
    <3>. QED BY <1>6, <3>1, <3>2, <3>3 DEF End
  <2>2. Len(S2) = m + t /\ \A k \in 1 .. m : S2[k] = S[k]
    BY <1>4 DEF Joins
  <2>3. \A k \in 1 .. l : S[b + k] = Img(ns, i)[k]
    BY <1>2
  <2> HIDE DEF l, b, m, t
  <2>4. b + l <= m + t /\ \A k \in 1 .. l : b + k \in 1 .. m
    BY <2>1
  <2>. QED BY <2>2, <2>3, <2>4 DEF l, b, End
<1>8. Line(S2, at, ns)'
  <2>1. \A k \in 1 .. Len(S2) : S2[k] = FE =>
          k < Len(S2) /\ (S2[k + 1] = FE => \E i \in 1 .. Len(sent) : k = at[i] + 1)
    BY <1>0, <1>4 DEF CleanBut
  <2>2. \A i \in 1 .. Len(sent) : Img(ns, i)' = Img(ns, i) /\ End(at, ns, i)' = End(at, ns, i)
    BY <1>5 DEF Img, Pkt, End
  <2>3. \A i \in 1 .. Len(sent) :
          /\ End(at, ns, i)' <= Len(S2)
          /\ \A k \in 1 .. Len(Img(ns, i)') : S2[at[i] + k] = Img(ns, i)'[k]
    BY <1>7, <2>2
  <2>4. \A i, j \in 1 .. Len(sent) : i < j => End(at, ns, i)' <= at[j]
    BY <1>2, <2>2
  <2>. QED BY <1>2, <1>4, <1>5, <2>1, <2>3, <2>4 DEF Line
<1>9. Extends(S, at, ns, at, ns, Len(sent'))
  BY <1>5, <1>6 DEF Extends
<1>10. Track(S2, at, ns, R, W, P)'
  BY <1>1, <1>3, <1>5, <1>8, <1>9, Grown
<1>. QED BY <1>10
LEMMA SendStep ==
  ASSUME UartFits, NEW S, NEW at, NEW ns, NEW R \in Nat, NEW W \in Nat, NEW P \in Nat,
         Track(S, at, ns, R, W, P), sn \in Byte, NEW pl \in Payload, Send(pl)
  PROVE  \E S2, at2, ns2 : Track(S2, at2, ns2, R, W, P)'
<1>1. PICK n : n = IF sn = 0 THEN 1 ELSE sn
  OBVIOUS
<1>2. n \in Byte
  BY <1>1 DEF Byte
<1>3. PICK T : T = Image(pl, n)
  OBVIOUS
<1>4. PICK N : N = Len(sent)
  OBVIOUS
<1>5. PICK S2 : S2 = S \o T
  OBVIOUS
<1>6. PICK m : m = Len(S)
  OBVIOUS
<1>7. PICK at2 : at2 = [i \in 1 .. N + 1 |-> IF i = N + 1 THEN m ELSE at[i]]
  OBVIOUS
<1>8. PICK ns2 : ns2 = [i \in 1 .. N + 1 |-> IF i = N + 1 THEN n ELSE ns[i]]
  OBVIOUS
<1>9. PICK C : C = {k \in 1 .. m : \E i \in 1 .. N : k = at[i] + 1}
  OBVIOUS
<1>10. PICK D : D = {k \in Nat : \E i \in 1 .. N + 1 : k = at2[i] + 1}
  OBVIOUS
<1>11. /\ wire' = wire \o T /\ sent' = Append(sent, <<Cmd, pl>>)
       /\ UNCHANGED <<ring, read, write, scanVars, handled>>
  BY <1>1, <1>3 DEF Send, Image, Packet
<1>12. /\ Line(S, at, ns) /\ S \in Seq(Byte) /\ sent \in Seq({Cmd} \X Payload)
       /\ at \in [1 .. N -> Nat] /\ ns \in [1 .. N -> Byte]
  BY <1>4 DEF Track, Line
<1>13. /\ \A i \in 1 .. N : /\ End(at, ns, i) <= m
                            /\ \A k \in 1 .. Len(Img(ns, i)) : S[at[i] + k] = Img(ns, i)[k]
       /\ \A i, j \in 1 .. N : i < j => End(at, ns, i) <= at[j]
       /\ CleanBut(S, C)
  BY <1>4, <1>6, <1>9, <1>12 DEF Line, CleanBut
<1>14. T \in Seq(Byte) /\ CleanBut(T, {1})
  BY <1>2, <1>3, ImageClean
<1>15. N \in Nat /\ m \in Nat /\ Len(T) \in Nat
  <2>1. PICK Y : Y = {Cmd} \X Payload
    OBVIOUS
  <2>. QED BY <1>4, <1>6, <1>12, <1>14, <2>1
<1>16. /\ at2 \in [1 .. N + 1 -> Nat] /\ ns2 \in [1 .. N + 1 -> Byte]
       /\ \A i \in 1 .. N : at2[i] = at[i] /\ ns2[i] = ns[i]
       /\ at2[N + 1] = m /\ ns2[N + 1] = n
  <2>1. \A i \in 1 .. N : i \in 1 .. N + 1 /\ i # N + 1
    BY <1>15
  <2>2. \A i \in 1 .. N + 1 : i # N + 1 => i \in 1 .. N
    BY <1>15
  <2>3. N + 1 \in 1 .. N + 1
    BY <1>15
  <2>. QED BY <1>2, <1>7, <1>8, <1>12, <1>15, <2>1, <2>2, <2>3
<1>17. S2 \in Seq(Byte) /\ Joins(S2, S, T) /\ CleanBut(S2, D)
  <2>0. PICK A : A = {1}
    OBVIOUS
  <2>1. C \subseteq D
    <3>1. \A i \in 1 .. N : i \in 1 .. N + 1 /\ at2[i] = at[i]
      BY <1>15, <1>16
    <3>. QED BY <1>9, <1>10, <3>1
  <2>2. \A k \in A : Len(S) + k \in D
    <3>1. m + 1 \in Nat /\ N + 1 \in 1 .. N + 1
      BY <1>15
    <3>2. m + 1 \in D
      BY <1>10, <1>16, <3>1
    <3>. QED BY <1>6, <2>0, <3>2
  <2>3. CleanBut(T, A)
    BY <1>14, <2>0
  <2>. QED BY <1>5, <1>12, <1>13, <1>14, <2>1, <2>2, <2>3, LongerLine
<1>18. /\ Len(S2) = m + Len(T) /\ \A k \in 1 .. m : S2[k] = S[k]
       /\ \A k \in 1 .. Len(T) : S2[m + k] = T[k]
  BY <1>6, <1>17 DEF Joins
<1>19. PICK sent2 : sent2 = sent'
  OBVIOUS
<1>20. /\ sent2 \in Seq({Cmd} \X Payload) /\ Len(sent2) = N + 1 /\ sent2[N + 1] = <<Cmd, pl>>
       /\ \A i \in 1 .. N : sent2[i] = sent[i]
  <2>1. PICK Y : Y = {Cmd} \X Payload
    OBVIOUS
  <2>2. <<Cmd, pl>> \in Y
    BY <2>1
  <2>3. sent \in Seq(Y) /\ sent2 = Append(sent, <<Cmd, pl>>)
    BY <1>11, <1>12, <1>19, <2>1
  <2>. QED BY <1>4, <2>1, <2>2, <2>3
<1>21. ASSUME NEW i \in 1 .. N
       PROVE  /\ Img(ns2, i)' = Img(ns, i) /\ End(at2, ns2, i)' = End(at, ns, i)
              /\ Len(Img(ns, i)) \in Nat
  <2>1. Img(ns2, i)' = Img(ns, i)
    BY <1>16, <1>19, <1>20 DEF Img, Pkt
  <2>2. Img(ns, i) \in Seq(Byte)
    <3>1. i \in 1 .. Len(sent)
      BY <1>4
    <3>. QED BY <1>12, <3>1, PktFramed DEF ImageHas
  <2>. QED BY <1>16, <2>1, <2>2 DEF End
<1>22. Img(ns2, N + 1)' = T /\ End(at2, ns2, N + 1)' = m + Len(T)
  <2>1. Img(ns2, N + 1)' = T
    BY <1>3, <1>16, <1>19, <1>20 DEF Img, Pkt, Image
  <2>. QED BY <1>16, <2>1 DEF End
<1>23. ASSUME NEW i \in 1 .. N + 1
       PROVE  /\ End(at2, ns2, i)' <= Len(S2)
              /\ \A k \in 1 .. Len(Img(ns2, i)') : S2[at2[i] + k] = Img(ns2, i)'[k]
  <2>1. CASE i = N + 1
    <3>1. m + Len(T) <= Len(S2)
      BY <1>15, <1>18
    <3>. QED BY <1>16, <1>18, <1>22, <2>1, <3>1
  <2>2. CASE i # N + 1
    <3>1. i \in 1 .. N
      BY <1>15, <2>2
    <3> DEFINE l == Len(Img(ns, i))
               b == at[i]
               t == Len(T)
    <3>2. b \in Nat /\ l \in Nat /\ t \in Nat /\ b + l <= m
      <4>1. End(at, ns, i) <= m
        BY <1>13, <3>1
      <4>2. b \in Nat
        BY <1>12, <3>1
      <4>. QED BY <1>15, <1>21, <3>1, <4>1, <4>2 DEF End
    <3>3. \A k \in 1 .. l : S[b + k] = Img(ns, i)[k]
      BY <1>13, <3>1
    <3>4. End(at, ns, i) = b + l
      BY DEF End
    <3> HIDE DEF l, b, t
    <3>5. b + l <= m + t /\ \A k \in 1 .. l : b + k \in 1 .. m
      BY <1>15, <3>2
    <3>6. End(at2, ns2, i)' <= Len(S2)
      BY <1>18, <1>21, <3>1, <3>4, <3>5 DEF t
    <3>7. \A k \in 1 .. l : S2[at2[i] + k] = Img(ns, i)[k]
      BY <1>16, <1>18, <3>1, <3>3, <3>5 DEF b
    <3>. QED BY <1>21, <3>1, <3>6, <3>7 DEF l
  <2>. QED BY <2>1, <2>2
<1>24. ASSUME NEW i \in 1 .. N + 1, NEW j \in 1 .. N + 1, i < j
       PROVE  End(at2, ns2, i)' <= at2[j]
  <2>1. i \in 1 .. N
    BY <1>15, <1>24
  <2>2. CASE j = N + 1
    BY <1>13, <1>16, <1>21, <2>1, <2>2
  <2>3. CASE j # N + 1
    <3>1. j \in 1 .. N
      BY <1>15, <2>3
    <3>. QED BY <1>13, <1>16, <1>21, <1>24, <2>1, <3>1
  <2>. QED BY <2>2, <2>3
<1>25. \A k \in 1 .. Len(S2) : S2[k] = FE =>
         k < Len(S2) /\ (S2[k + 1] = FE => \E i \in 1 .. N + 1 : k = at2[i] + 1)
  BY <1>10, <1>17 DEF CleanBut
<1>26. Line(S2, at2, ns2)'
  BY <1>16, <1>17, <1>19, <1>20, <1>23, <1>24, <1>25 DEF Line
<1>27. Extends(S, at, ns, at2, ns2, N + 1)
  <2>1. \A i \in N + 1 .. N + 1 : i = N + 1
    BY <1>15
  <2>. QED BY <1>4, <1>6, <1>15, <1>16, <2>1 DEF Extends
<1>28. Extends(S, at, ns, at2, ns2, Len(sent'))
  BY <1>19, <1>20, <1>27
<1>29. \A i \in 1 .. Len(sent) : sent'[i] = sent[i]
  BY <1>4, <1>19, <1>20
<1>30. Track(S2, at2, ns2, R, W, P)'
  BY <1>5, <1>11, <1>14, <1>26, <1>28, <1>29, Grown
<1>. QED BY <1>30
-----------------------------------------------------------------------------
(* The types, whatever the line does.                                      *)

ParserState == {"SYNC1", "SYNC2", "LEN_H", "LEN_L", "PL"}

LEMMA PackType ==
  ASSUME NEW pl \in Seq(Byte), NEW n \in Byte
  PROVE  PackTranslate(PackBuild(Cmd, pl, n)) \in Seq(Byte)
<1> DEFINE len == Len(pl) + 4
           hi == (len \div 256) % 256
           lo == len % 256
           head == <<FE, FE, hi, lo, Cmd, n>>
           body == head \o pl
           sum == Checksum(body)
           q == sum \div 256
           r == sum % 256
           s == body \o <<q, r>>
<1>1. s = PackBuild(Cmd, pl, n)
  BY DEF PackBuild
<1>2. hi \in Byte /\ lo \in Byte
  <2>1. len \in Nat
    OBVIOUS
  <2> HIDE DEF len
  <2>2. len \div 256 \in Nat
    BY <2>1
  <2>3. \A x \in Nat : x % 256 \in Byte
    BY DEF Byte
  <2>. QED BY <2>1, <2>2, <2>3
<1>3. head \in Seq(Byte)
  <2> HIDE DEF hi, lo
  <2>. QED BY <1>2, UartConstants
<1> HIDE DEF head
<1>4. body \in Seq(Byte)
  BY <1>3
<1> HIDE DEF body
<1>5. q \in Byte /\ r \in Byte
  <2>1. sum \in Nat /\ sum < U16
    BY <1>4, SumsType DEF Word
  <2> HIDE DEF sum
  <2>. QED BY <2>1, WordBytes
<1> HIDE DEF q, r
<1>6. s \in Seq(Byte)
  <2>1. <<q, r>> \in Seq(Byte)
    BY <1>5
  <2>. QED BY <1>4, <2>1
<1> HIDE DEF s
<1>7. Len(s) \in 0 .. Len(s)
  BY <1>6
<1>8. PackTranslate(s) \in Seq(Byte)
  BY <1>6, <1>7, EscapedDef DEF PackTranslate
<1>. QED BY <1>1, <1>8

LEMMA CharType ==
  ASSUME p \in Cursor, read \in Cursor, status \in ParserState, NEW data,
         NEW c, c = ExtractTransChar(data)
  PROVE  c.status \in ParserState /\ c.p \in Cursor /\ c.read \in Cursor
<1>1. Mask(p + 1) \in Cursor /\ Mask(p - 1) \in Cursor
  <2>1. p + 1 \in Int /\ p - 1 \in Int /\ 0 \in Int
    BY UartConstants DEF Cursor
  <2>. QED BY <2>1, MaskShift
<1>2. "SYNC1" \in ParserState /\ "SYNC2" \in ParserState
  BY DEF ParserState
<1>. QED BY <1>1, <1>2 DEF ExtractTransChar

LEMMA CellType ==
  ASSUME ring \in [Cursor -> Byte], NEW i \in Int
  PROVE  Cell(i) \in Byte
<1>1. Mask(i) \in Cursor
  <2>1. 0 \in Int
    OBVIOUS
  <2>. QED BY <2>1, MaskShift
<1>. QED BY <1>1 DEF Cell

LEMMA WordRange ==
  /\ \A x \in Nat : x % U16 \in 0 .. U16 - 1
  /\ \A x \in 0 .. U16 - 1 : x \in Nat
  /\ 0 \in 0 .. U16 - 1 /\ \A b \in Byte : b \in 0 .. U16 - 1
  /\ \A x \in Nat : \A b \in Byte : (x % 256) * 256 + b \in 0 .. U16 - 1
<1>1. PICK u : u = U16
  OBVIOUS
<1>2. u \in Nat /\ u = 256 * 256
  BY <1>1, Wide
<1>7. u \in Nat \ {0} /\ 255 < u
  BY <1>2
<1>3. (\A x \in Nat : x % u \in 0 .. u - 1) /\ (\A x \in 0 .. u - 1 : x \in Nat)
  BY <1>7
<1>4. \A b \in Byte : b \in 0 .. u - 1
  BY <1>7 DEF Byte
<1>5. ASSUME NEW x \in Nat, NEW b \in Byte PROVE (x % 256) * 256 + b \in 0 .. u - 1
  <2> DEFINE y == x % 256
  <2>1. y \in 0 .. 255 /\ b \in 0 .. 255
    BY DEF Byte
  <2> HIDE DEF y
  <2>2. y * 256 + b \in Nat
    BY <2>1
  <2>3. y * 256 + b < u
    BY <1>2, <2>1
  <2>4. y * 256 + b \in 0 .. u - 1
    <3>1. PICK z : z = y * 256 + b
      OBVIOUS
    <3>. QED BY <1>7, <2>2, <2>3, <3>1
  <2>. QED BY <2>4 DEF y
<1>6. 0 \in 0 .. u - 1
  BY <1>7
<1>. QED BY <1>1, <1>3, <1>4, <1>5, <1>6

LEMMA SendType ==
  ASSUME UartTypeOK, NEW pl \in Payload, Send(pl)
  PROVE  UartTypeOK'
<1>1. PICK n : n = IF sn = 0 THEN 1 ELSE sn
  OBVIOUS
<1>2. n \in Byte
  BY <1>1 DEF UartTypeOK, Byte
<1>3. PICK t : t = PackTranslate(PackBuild(Cmd, pl, n))
  OBVIOUS
<1>4. t \in Seq(Byte)
  BY <1>2, <1>3, PackType, UartProtocolAssumption
<1>5. wire' = wire \o t /\ sn' = (n + 1) % 256 /\ UNCHANGED <<ring, read, write, scanVars>>
  BY <1>1, <1>3 DEF Send
<1>6. wire' \in Seq(Byte) /\ sn' \in Byte
  <2>1. wire \in Seq(Byte)
    BY DEF UartTypeOK
  <2>2. sn' \in Byte
    BY <1>2, <1>5 DEF Byte
  <2>. QED BY <1>4, <1>5, <2>1, <2>2
<1>. QED BY <1>5, <1>6 DEF UartTypeOK, scanVars

LEMMA ReceiveType ==
  ASSUME UartTypeOK, NEW n \in 1 .. MaxChunk, Receive(n)
  PROVE  UartTypeOK'
<1>1. /\ wire \in Seq(Byte) /\ ring \in [Cursor -> Byte] /\ write \in Cursor /\ read \in Cursor
      /\ n <= Len(wire) /\ n \in Nat /\ n >= 1
  BY UartConstants DEF UartTypeOK, Receive
<1>2. PICK chunk : chunk = SubSeq(wire, 1, n)
  OBVIOUS
<1>3. PICK g : g = Filled(chunk)
  OBVIOUS
<1>4. chunk \in Seq(Byte) /\ n = Len(chunk)
  BY <1>1, <1>2
<1>5. g[n] \in Filling
  <2>1. Fills(g, chunk, n)
    BY <1>1, <1>3, <1>4, FilledDef
  <2>2. n \in 0 .. n
    BY <1>1
  <2>. QED BY <2>1, <2>2 DEF Fills
<1>6. ring' = g[n].cells /\ write' = g[n].write /\ wire' = SubSeq(wire, n + 1, Len(wire))
      /\ ExtractStarts(read) /\ UNCHANGED <<sn, read>>
  BY <1>2, <1>3 DEF Receive
<1>7. wire' \in Seq(Byte)
  BY <1>1, <1>6
<1>8. ring' \in [Cursor -> Byte] /\ write' \in Cursor
  BY <1>5, <1>6 DEF Filling
<1>9. 0 \in 0 .. U16 - 1
  BY Wide
<1>. QED BY <1>1, <1>6, <1>7, <1>8, <1>9 DEF UartTypeOK, ExtractStarts

LEMMA ParseType ==
  ASSUME UartTypeOK, Parse
  PROVE  UartTypeOK'
<1>1. PICK c : c = ExtractTransChar(Cell(p))
  OBVIOUS
<1>2. /\ wire \in Seq(Byte) /\ ring \in [Cursor -> Byte] /\ write \in Cursor /\ read \in Cursor
      /\ p \in Cursor /\ status \in ParserState /\ recvLen \in 0 .. U16 - 1 /\ slen \in 0 .. U16 - 1
      /\ sn \in Byte /\ pc \in {"idle", "scan"}
  BY DEF UartTypeOK, ParserState
<1>3. c.status \in ParserState /\ c.p \in Cursor /\ c.read \in Cursor
  BY <1>1, <1>2, CharType
<1>4. /\ Cell(p) \in Byte /\ Mask(c.p + 1) \in Cursor
      /\ \A k \in 0 .. 2 : Mask(c.read + k) \in Cursor
  <2>1. p \in Int /\ c.p + 1 \in Int /\ \A k \in 0 .. 2 : c.read + k \in Int
    BY <1>2, <1>3, UartConstants DEF Cursor
  <2>2. 0 \in Int
    OBVIOUS
  <2>. QED BY <1>2, <2>1, <2>2, MaskShift, CellType
<1>5. recvLen \in Nat /\ slen \in Nat
  BY <1>2, WordRange
<1>6. \A x \in Nat : x % U16 \in 0 .. U16 - 1
  BY WordRange
<1>7. 0 \in 0 .. U16 - 1 /\ \A b \in Byte : b \in 0 .. U16 - 1
  BY WordRange
<1>8. \A x \in Nat : \A b \in Byte : (x % 256) * 256 + b \in 0 .. U16 - 1
  BY WordRange
<1> DEFINE Rest == wire' \in Seq(Byte) /\ ring' \in [Cursor -> Byte] /\ write' \in Cursor /\ sn' \in Byte
           Moved == /\ read' \in Cursor /\ p' \in Cursor /\ pc' \in {"idle", "scan"}
                    /\ status' \in ParserState /\ recvLen' \in 0 .. U16 - 1 /\ slen' \in 0 .. U16 - 1
<1>9. Rest
  BY <1>2 DEF Parse, ScanIllegal, ScanHead, ScanBody, ScanComplete, sendVars
<1>10. CASE ScanIllegal
  <2>1. Moved
    BY <1>1, <1>2, <1>3, <1>10 DEF ScanIllegal
  <2>. QED BY <1>9, <2>1 DEF UartTypeOK, ParserState
<1>11. CASE ScanHead
  <2>1. PICK z \in {"SYNC1", "SYNC2", "LEN_H", "LEN_L", "PL"}, x \in Nat, k \in 0 .. 2 :
          /\ status' = z /\ recvLen' = x % U16 /\ read' = Mask(c.read + k) /\ p' = Mask(c.p + 1)
          /\ pc' = pc
          /\ slen' = slen \/ slen' = Cell(p) \/ slen' = (slen % 256) * 256 + Cell(p)
    <3>1. recvLen + 1 \in Nat /\ 1 \in Nat /\ 0 \in Nat /\ 0 \in 0 .. 2 /\ 1 \in 0 .. 2 /\ 2 \in 0 .. 2
      BY <1>5
    <3>. QED BY <1>1, <1>5, <1>11, <3>1 DEF ScanHead
  <2>2. slen' \in 0 .. U16 - 1
    <3>1. PICK v : v = (slen % 256) * 256 + Cell(p)
      OBVIOUS
    <3>2. v \in 0 .. U16 - 1
      BY <1>4, <1>5, <1>8, <3>1
    <3>3. Cell(p) \in 0 .. U16 - 1
      BY <1>4, <1>7
    <3>. QED BY <1>2, <2>1, <3>1, <3>2, <3>3
  <2>3. Moved
    <3>1. status' \in ParserState /\ recvLen' \in 0 .. U16 - 1
      BY <1>6, <2>1 DEF ParserState
    <3>2. read' \in Cursor /\ p' \in Cursor
      BY <1>4, <2>1
    <3>. QED BY <1>2, <2>1, <2>2, <3>1, <3>2
  <2>. QED BY <1>9, <2>3 DEF UartTypeOK, ParserState
<1>12. CASE ScanBody
  <2>1. /\ status' = "PL" /\ recvLen' = (recvLen + 1) % U16 /\ read' = c.read /\ p' = Mask(c.p + 1)
        /\ pc' = pc /\ slen' = slen
    BY <1>1, <1>12 DEF ScanBody
  <2>2. recvLen' \in 0 .. U16 - 1
    <3>1. recvLen + 1 \in Nat
      BY <1>5
    <3>. QED BY <1>6, <2>1, <3>1
  <2>3. Moved
    BY <1>2, <1>3, <1>4, <2>1, <2>2 DEF ParserState
  <2>. QED BY <1>9, <2>3 DEF UartTypeOK, ParserState
<1>13. CASE ScanComplete
  <2>1. PICK packet : packet = ReadOut(c.read, recvLen + 1)
    OBVIOUS
  <2>2. /\ read' = packet.read
        /\ \/ ExtractStarts(packet.read)
           \/ pc' = "idle" /\ UNCHANGED <<p, status, recvLen, slen>>
    BY <1>1, <1>13, <2>1 DEF ScanComplete
  <2>3. packet.read \in Cursor
    <3>1. PICK from \in Cursor : from = c.read
      BY <1>3
    <3>2. PICK m \in Nat : m = recvLen + 1
      BY <1>5
    <3>3. PICK g : g = ReadOuts(from, m)
      OBVIOUS
    <3>4. m \in 0 .. m
      OBVIOUS
    <3>5. g[m] \in Taking
      BY <1>2, <3>3, <3>4, ReadOutsDef
    <3>6. packet = g[m]
      BY <2>1, <3>1, <3>2, <3>3 DEF ReadOut
    <3>. QED BY <3>5, <3>6 DEF Taking
  <2>4. Moved
    BY <1>2, <1>7, <2>2, <2>3 DEF ExtractStarts, ParserState
  <2>. QED BY <1>9, <2>4 DEF UartTypeOK, ParserState
<1>. QED BY <1>10, <1>11, <1>12, <1>13 DEF Parse

LEMMA UartTypeStep == UartTypeOK /\ [UartNext]_uartVars => UartTypeOK'
<1> SUFFICES ASSUME UartTypeOK, [UartNext]_uartVars PROVE UartTypeOK'
  OBVIOUS
<1>1. ASSUME NEW pl \in Payload, Send(pl) PROVE UartTypeOK'
  BY <1>1, SendType
<1>2. ASSUME NEW T \in Noise, Disturb(T) PROVE UartTypeOK'
  <2>1. T \in Seq(Byte) /\ wire \in Seq(Byte)
    BY UartProtocolAssumption DEF UartTypeOK
  <2>2. wire' = wire \o T
    BY <1>2 DEF Disturb
  <2>3. wire' \in Seq(Byte)
    BY <2>1, <2>2
  <2>. QED BY <1>2, <2>3 DEF UartTypeOK, Disturb, scanVars
<1>3. ASSUME NEW n \in 1 .. MaxChunk, Receive(n) PROVE UartTypeOK'
  BY <1>3, ReceiveType
<1>4. ASSUME ScanEnds PROVE UartTypeOK'
  BY <1>4 DEF ScanEnds, sendVars, UartTypeOK
<1>5. ASSUME Parse PROVE UartTypeOK'
  BY <1>5, ParseType
<1>6. ASSUME UNCHANGED uartVars PROVE UartTypeOK'
  BY <1>6 DEF uartVars, sendVars, scanVars, UartTypeOK
<1>. QED BY <1>1, <1>2, <1>3, <1>4, <1>5, <1>6 DEF UartNext, Handle, Parse

LEMMA UartTypeStarts == UartInit => UartTypeOK
<1> SUFFICES ASSUME UartInit PROVE UartTypeOK
  OBVIOUS
<1>1. /\ sn \in FirstSn /\ wire = <<>> /\ read \in StartAt /\ write = read
      /\ pc = "idle" /\ p = 0 /\ status = "SYNC1" /\ recvLen = 0 /\ slen = 0
  BY DEF UartInit
<1>2. PICK b \in Garbage : ring = [i \in 0 .. RbufLen - 1 |-> b]
  BY DEF UartInit
<1>3. sn \in Byte /\ b \in Byte /\ read \in Cursor /\ 0 \in Cursor
  BY <1>1, UartConstants, UartProtocolAssumption DEF Cursor
<1>4. ring \in [Cursor -> Byte]
  BY <1>2, <1>3 DEF Cursor
<1>5. 0 \in 0 .. U16 - 1
  BY Wide
<1>. QED BY <1>1, <1>3, <1>4, <1>5 DEF UartTypeOK

(* Whatever arrives, and however it is cut into chunks, the cursors stay   *)
(* in the ring and recv_len and len in 16 bits.                            *)
THEOREM UartTypesAlways == UartSpec => []UartTypeOK
<1>1. UartInit => UartTypeOK
  BY UartTypeStarts
<1>2. UartTypeOK /\ [UartNext]_uartVars => UartTypeOK'
  BY UartTypeStep
<1>. QED BY <1>1, <1>2, PTL DEF UartSpec
-----------------------------------------------------------------------------
(* The invariant holds.                                                    *)

LEMMA UartStarts == UartFits /\ UartInit => UartInv
<1> SUFFICES ASSUME UartFits, UartInit PROVE UartInv
  OBVIOUS
<1>1. /\ sn \in FirstSn /\ sent = <<>> /\ wire = <<>> /\ read \in StartAt /\ write = read
      /\ pc = "idle" /\ handled = <<>>
  BY DEF UartInit
<1>2. PICK b \in Garbage : ring = [i \in 0 .. RbufLen - 1 |-> b]
  BY DEF UartInit
<1>3. RbufLen \in Nat /\ RbufLen >= 2 /\ read \in 0 .. RbufLen - 1 /\ sn \in Byte /\ b \in Byte /\ b # FE
  BY <1>1, UartConstants, UartProtocolAssumption DEF UartFits
<1>4. PICK a : a = read
  OBVIOUS
<1>5. PICK m : m = a + RbufLen - 1
  OBVIOUS
<1>6. PICK R : R = m + 1
  OBVIOUS
<1>7. PICK S : S = [i \in 1 .. m |-> b]
  OBVIOUS
<1>8. PICK at : at = [i \in 1 .. 0 |-> 0]
  OBVIOUS
<1>9. m \in Nat /\ R \in Nat /\ RbufLen <= R /\ R - R < RbufLen /\ m >= 1 /\ R - 1 = m
  BY <1>3, <1>4, <1>5, <1>6
<1>10. S \in Seq(Byte) /\ Len(S) = m /\ \A i \in 1 .. m : S[i] = b
  BY <1>3, <1>7, <1>9
<1>11. read = Mask(R)
  <2>1. R = RbufLen * 1 + a /\ R \in Int /\ 1 \in Int /\ a \in 0 .. RbufLen - 1 /\ RbufLen \in Nat \ {0}
    BY <1>3, <1>4, <1>5, <1>6
  <2>. QED BY <1>4, <2>1, Remainder DEF Mask
<1>12. ring \in [Cursor -> Byte] /\ \A c \in Cursor : ring[c] = b
  BY <1>2, <1>3 DEF Cursor
<1>13. Line(S, at, at)
  <2>1. Len(sent) = 0 /\ sent \in Seq({Cmd} \X Payload)
    BY <1>1
  <2>2. at \in [1 .. Len(sent) -> Nat] /\ at \in [1 .. Len(sent) -> Byte]
    BY <1>8, <2>1
  <2>3. \A i \in 1 .. Len(sent) : FALSE
    BY <2>1
  <2>4. \A k \in 1 .. Len(S) : S[k] # FE
    BY <1>3, <1>10
  <2>. QED BY <1>10, <2>1, <2>2, <2>3, <2>4 DEF Line
<1>14. Ring(S, R, R)
  <2>1. \A k \in R - 1 .. R - 1 : k = m
    BY <1>9
  <2>2. Mask(m) \in Cursor
    <3>1. m \in Int /\ 0 \in Int
      BY <1>9
    <3>. QED BY <3>1, MaskShift
  <2>3. \A k \in R - 1 .. R - 1 : ring[Mask(k)] = S[k]
    <3>1. m \in 1 .. m
      BY <1>9
    <3>. QED BY <1>10, <1>12, <2>1, <2>2, <3>1
  <2>4. S[R - 1] # FE
    <3>1. m \in 1 .. m
      BY <1>9
    <3>. QED BY <1>3, <1>9, <1>10, <3>1
  <2>5. /\ R <= Len(S) + 1 /\ wire \in Seq(Byte) /\ Len(wire) = 0 /\ Len(S) + 1 - R = 0
    BY <1>1, <1>9, <1>10
  <2>6. \A k \in 1 .. Len(wire) : wire[k] = S[R + k - 1]
    BY <2>5
  <2>. QED BY <1>1, <1>9, <1>11, <1>12, <2>3, <2>4, <2>5, <2>6 DEF Ring
<1>15. Done(at, at, R)
  <2>1. Len(handled) = 0 /\ Len(sent) = 0 /\ handled \in Seq({Cmd} \X Payload)
    BY <1>1
  <2>2. (\A i \in 1 .. Len(handled) : FALSE) /\ (\A i \in Len(handled) + 1 .. Len(sent) : FALSE)
    BY <2>1
  <2>. QED BY <2>1, <2>2 DEF Done
<1>16. Track(S, at, at, R, R, R)
  BY <1>1, <1>13, <1>14, <1>15 DEF Track, Waits
<1>. QED BY <1>3, <1>9, <1>16 DEF UartInv

LEMMA UartStep == UartFits /\ UartInv /\ [UartNext]_uartVars => UartInv'
<1> SUFFICES ASSUME UartFits, UartInv, [UartNext]_uartVars PROVE UartInv'
  OBVIOUS
<1>1. PICK S, at, ns : \E R, W, P \in Nat : Track(S, at, ns, R, W, P)
  BY DEF UartInv
<1>2. PICK R \in Nat, W \in Nat, P \in Nat : Track(S, at, ns, R, W, P)
  BY <1>1
<1>3. sn \in Byte
  BY DEF UartInv
<1>4. ASSUME NEW pl \in Payload, Send(pl) PROVE UartInv'
  <2>1. sn' \in Byte
    <3>1. PICK n : n = IF sn = 0 THEN 1 ELSE sn
      OBVIOUS
    <3>2. n \in Byte /\ sn' = (n + 1) % 256
      BY <1>3, <1>4, <3>1 DEF Send, Byte
    <3>. QED BY <3>2 DEF Byte
  <2>2. \E S2, at2, ns2 : Track(S2, at2, ns2, R, W, P)'
    BY <1>2, <1>3, <1>4, SendStep
  <2>. QED BY <2>1, <2>2 DEF UartInv
<1>5. ASSUME NEW T \in Noise, Disturb(T) PROVE UartInv'
  <2>1. \E S2 : Track(S2, at, ns, R, W, P)'
    BY <1>2, <1>5, DisturbStep
  <2>2. sn' \in Byte
    BY <1>3, <1>5 DEF Disturb
  <2>. QED BY <2>1, <2>2 DEF UartInv
<1>6. ASSUME NEW n \in 1 .. MaxChunk, Receive(n) PROVE UartInv'
  <2>1. Track(S, at, ns, R, W + n, R)'
    BY <1>2, <1>6, ReceiveStep
  <2>2. sn' \in Byte /\ W + n \in Nat
    BY <1>3, <1>6, UartConstants DEF Receive
  <2>. QED BY <2>1, <2>2 DEF UartInv
<1>7. ASSUME ScanEnds PROVE UartInv'
  <2>1. Track(S, at, ns, R, W, P)'
    BY <1>2, <1>7, EndsStep
  <2>2. sn' \in Byte
    BY <1>3, <1>7 DEF ScanEnds, sendVars
  <2>. QED BY <2>1, <2>2 DEF UartInv
<1>8. ASSUME Parse PROVE UartInv'
  <2>1. \E Q, Z \in Nat : Track(S, at, ns, Q, W, Z)'
    BY <1>2, <1>8, ParseStep
  <2>2. sn' \in Byte
    BY <1>3, <1>8 DEF Parse, ScanIllegal, ScanHead, ScanBody, ScanComplete, sendVars
  <2>. QED BY <2>1, <2>2 DEF UartInv
<1>9. ASSUME UNCHANGED uartVars PROVE UartInv'
  <2>1. Track(S, at, ns, R, W, P)'
    BY <1>2, <1>9 DEF uartVars, sendVars, scanVars, Track, Line, Ring, Done, Waits, Scans, Opens,
                      Sees, End, Img, Pkt
  <2>2. sn' \in Byte
    BY <1>3, <1>9 DEF uartVars, sendVars
  <2>. QED BY <2>1, <2>2 DEF UartInv
<1>. QED BY <1>4, <1>5, <1>6, <1>7, <1>8, <1>9 DEF UartNext, Handle, Parse

LEMMA UartOrder == UartFits /\ UartInv => HandledInOrder
<1> SUFFICES ASSUME UartFits, UartInv PROVE HandledInOrder
  OBVIOUS
<1>1. PICK S, at, ns : \E R, W, P \in Nat : Track(S, at, ns, R, W, P)
  BY DEF UartInv
<1>2. PICK R \in Nat, W \in Nat, P \in Nat : Track(S, at, ns, R, W, P)
  BY <1>1
<1>3. PICK Y : Y = {Cmd} \X Payload
  OBVIOUS
<1>4. /\ handled \in Seq(Y) /\ sent \in Seq(Y) /\ Len(handled) <= Len(sent)
      /\ \A i \in 1 .. Len(handled) : handled[i] = sent[i]
  BY <1>2, <1>3 DEF Track, Line, Done
<1> DEFINE h == Len(handled)
<1>5. h \in Nat /\ Len(sent) \in Nat
  BY <1>4
<1>6. SubSeq(handled, 1, h) = handled
  BY <1>4
<1>7. SubSeq(sent, 1, h) = handled
  <2>1. PICK t : t = SubSeq(sent, 1, h)
    OBVIOUS
  <2>2. t \in Seq(Y) /\ Len(t) = h /\ \A i \in 1 .. h : t[i] = sent[i]
    BY <1>4, <1>5, <2>1
  <2>. QED BY <1>4, <2>1, <2>2, SeqEqual
<1>. QED BY <1>4, <1>6, <1>7 DEF HandledInOrder, IsPrefix

LEMMA UartAll == UartFits /\ UartInv => AllHandled
<1> SUFFICES ASSUME UartFits, UartInv, pc = "idle", wire = <<>> PROVE handled = sent /\ read = write
  BY DEF AllHandled
<1>1. PICK S, at, ns : \E R, W, P \in Nat : Track(S, at, ns, R, W, P)
  BY DEF UartInv
<1>2. PICK R \in Nat, W \in Nat, P \in Nat : Track(S, at, ns, R, W, P)
  BY <1>1
<1>3. PICK Y : Y = {Cmd} \X Payload
  OBVIOUS
<1>4. /\ handled \in Seq(Y) /\ sent \in Seq(Y) /\ Len(handled) <= Len(sent)
      /\ \A i \in 1 .. Len(handled) : handled[i] = sent[i]
      /\ \A i \in Len(handled) + 1 .. Len(sent) : R <= at[i] + 1
      /\ Waits(at, ns, R, W) /\ Line(S, at, ns) /\ read = Mask(R) /\ write = Mask(W)
      /\ Len(wire) = Len(S) + 1 - W /\ S \in Seq(Byte)
  BY <1>2, <1>3 DEF Track, Line, Done, Ring
<1> DEFINE h == Len(handled)
           N == Len(sent)
           m == Len(S)
<1>5. h \in Nat /\ N \in Nat /\ m \in Nat /\ W = m + 1
  <2>1. Len(wire) = 0
    OBVIOUS
  <2>2. h \in Nat /\ N \in Nat /\ m \in Nat
    BY <1>4
  <2> HIDE DEF m
  <2>. QED BY <1>4, <2>1, <2>2 DEF m
<1>6. ASSUME NEW i \in 1 .. N PROVE at[i] \in Nat /\ at[i] + 8 <= m /\ End(at, ns, i) <= m
  <2>1. End(at, ns, i) <= m /\ at[i] \in Nat
    BY <1>4 DEF Line
  <2>2. Len(Img(ns, i)) \in Nat /\ Len(Img(ns, i)) >= 8
    <3>1. ImageHas(Pkt(ns, i), Img(ns, i))
      BY <1>4, PktFramed
    <3>2. Len(Pkt(ns, i)) \in Nat /\ Len(Pkt(ns, i)) >= 8
      BY <1>4, Opening
    <3>3. Len(Img(ns, i)) >= Len(Pkt(ns, i)) /\ Img(ns, i) \in Seq(Byte)
      BY <3>1 DEF ImageHas
    <3>4. Len(Img(ns, i)) \in Nat
      BY <3>3
    <3>. QED BY <3>2, <3>3, <3>4
  <2> DEFINE l == Len(Img(ns, i))
             b == at[i]
  <2>3. b \in Nat /\ l \in Nat /\ l >= 8 /\ b + l <= m
    BY <2>1, <2>2 DEF End
  <2> HIDE DEF b, l, m
  <2>4. b + 8 <= m
    BY <1>5, <2>3
  <2>. QED BY <2>1, <2>4 DEF b
<1>7. R = W
  <2>1. ASSUME Opens(at, R), W <= End(at, ns, h + 1) PROVE FALSE
    <3>1. h + 1 \in 1 .. N
      <4>1. h < N
        BY <2>1 DEF Opens
      <4> HIDE DEF h, N
      <4>. QED BY <1>5, <4>1
    <3>2. End(at, ns, h + 1) <= m /\ at[h + 1] \in Nat
      BY <1>6, <3>1
    <3>3. End(at, ns, h + 1) \in Nat
      <4>1. Img(ns, h + 1) \in Seq(Byte)
        BY <1>4, <3>1, PktFramed DEF ImageHas
      <4>. QED BY <3>2, <4>1 DEF End
    <3>. QED BY <1>5, <2>1, <3>2, <3>3
  <2>. QED BY <1>4, <2>1 DEF Waits
<1>8. h = N
  <2>1. ASSUME h < N PROVE FALSE
    <3>1. N \in 1 .. N /\ N \in h + 1 .. N
      <4> HIDE DEF h, N
      <4>. QED BY <1>5, <2>1
    <3>2. R <= at[N] + 1 /\ at[N] \in Nat /\ at[N] + 8 <= m
      BY <1>4, <1>6, <3>1
    <3>. QED BY <1>5, <1>7, <3>2
  <2>. QED BY <1>4, <1>5, <2>1
<1>9. handled = sent
  BY <1>4, <1>8, SeqEqual
<1>. QED BY <1>4, <1>7, <1>9

LEMMA UartInvariant == UartFits => (UartSpec => []UartInv)
<1> SUFFICES ASSUME UartFits PROVE UartSpec => []UartInv
  OBVIOUS
<1>1. UartInit => UartInv
  BY UartStarts
<1>2. UartInv /\ [UartNext]_uartVars => UartInv'
  BY UartStep
<1>. QED BY <1>1, <1>2, PTL DEF UartSpec

(* When no chunk is cut behind a 0xFE and the packets fit into the ring,   *)
(* extract_pro_pkg hands to the callback what was sent: unaltered, in      *)
(* order and nothing twice, for every payload and every cutting of the     *)
(* line into chunks, wherever the cursors stand.                           *)
THEOREM HandledAlwaysInOrder == UartFits => (UartSpec => []HandledInOrder)
<1> SUFFICES ASSUME UartFits PROVE UartSpec => []HandledInOrder
  OBVIOUS
<1>1. UartInv => HandledInOrder
  BY UartOrder
<1>2. UartSpec => []UartInv
  BY UartInvariant
<1>. QED BY <1>1, <1>2, PTL

(* Then, too, no packet stays in the ring once the last byte has come and  *)
(* uart_pro_handle has returned.                                           *)
THEOREM AllAlwaysHandled == UartFits => (UartSpec => []AllHandled)
<1> SUFFICES ASSUME UartFits PROVE UartSpec => []AllHandled
  OBVIOUS
<1>1. UartInv => AllHandled
  BY UartAll
<1>2. UartSpec => []UartInv
  BY UartInvariant
<1>. QED BY <1>1, <1>2, PTL
=============================================================================
