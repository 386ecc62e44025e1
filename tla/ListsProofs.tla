---------------------------- MODULE ListsProofs -----------------------------
(***************************************************************************)
(* What a list keeps when entries are taken out of it, and lemmas on sets  *)
(* of numbers that the proofs about lists need.                            *)
(***************************************************************************)
EXTENDS Lists, FiniteSetTheorems, WellFoundedInduction, TLAPS

(* A set of natural numbers has a least element. *)
LEMMA LeastNat ==
  ASSUME NEW T \in SUBSET Nat, T # {}
  PROVE  \E x \in T : \A y \in T : x <= y
<1> DEFINE R == OpToRel(<, Nat)
<1>1. IsWellFoundedOn(R, Nat)
  BY NatLessThanWellFounded
<1>2. \A x, y \in Nat : x < y => <<x, y>> \in R
  BY DEF OpToRel
<1> HIDE DEF R
<1>3. PICK x \in T : \A y \in T : <<y, x>> \notin R
  BY <1>1, WFMin
<1>4. ASSUME NEW y \in T PROVE x <= y
  <2>1. ~(y < x)
    BY <1>2, <1>3
  <2>. QED BY <2>1
<1>. QED BY <1>4

(* Induction over the numbers, for a set that holds 0 and with each number *)
(* the next: the library's theorem is about an operator, which the provers *)
(* cannot instantiate.                                                     *)
LEMMA NatSetInduction ==
  ASSUME NEW G, 0 \in G, \A n \in Nat : n \in G => n + 1 \in G
  PROVE  \A n \in Nat : n \in G
<1> DEFINE B == {n \in Nat : n \notin G}
<1>1. CASE B = {}
  BY <1>1
<1>2. CASE B # {}
  <2>1. PICK x \in B : \A y \in B : x <= y
    BY <1>2, LeastNat
  <2>2. x \in Nat /\ x # 0 /\ x \notin G
    OBVIOUS
  <2>3. x - 1 \in Nat /\ x = (x - 1) + 1
    BY <2>2
  <2>4. x - 1 \notin B
    BY <2>1, <2>3
  <2>. QED BY <2>2, <2>3, <2>4
<1>. QED BY <1>1, <1>2

(* f holds what is built in m turns from a, each turn by F from the last   *)
(* stage and the number of the turn.                                       *)
Stages(m, a, F, f) == f[0] = a /\ \A n \in 1 .. m : f[n] = F[<<f[n - 1], n>>]

(* There are such stages, all in S: so a recursive function over 0 .. m is *)
(* one.                                                                    *)
LEMMA RecDef ==
  ASSUME NEW m \in Nat, NEW S, NEW a \in S, NEW F \in [S \X (1 .. m) -> S]
  PROVE  \E f \in [0 .. m -> S] : Stages(m, a, F, f)
<1> DEFINE Is(f, k) == f[0] = a /\ \A n \in 1 .. k : f[n] = F[<<f[n - 1], n>>]
           G == {k \in Nat : k <= m => \E f \in [0 .. k -> S] : Is(f, k)}
<1>1. 0 \in G
  <2>1. [n \in 0 .. 0 |-> a] \in [0 .. 0 -> S] /\ Is([n \in 0 .. 0 |-> a], 0)
    OBVIOUS
  <2>. QED BY <2>1
<1>2. ASSUME NEW k \in Nat, k \in G PROVE k + 1 \in G
  <2> SUFFICES ASSUME k + 1 <= m PROVE \E f \in [0 .. k + 1 -> S] : Is(f, k + 1)
    OBVIOUS
  <2>1. PICK f \in [0 .. k -> S] : Is(f, k)
    BY <1>2
  <2> DEFINE x == F[<<f[k], k + 1>>]
             g == [n \in 0 .. k + 1 |-> IF n = k + 1 THEN x ELSE f[n]]
  <2>2. x \in S
    BY <2>1
  <2> HIDE DEF x
  <2>3. g \in [0 .. k + 1 -> S]
    BY <2>2
  <2>4. g[k + 1] = x /\ \A n \in 0 .. k : g[n] = f[n]
    OBVIOUS
  <2> HIDE DEF g
  <2>5. g[0] = a
    BY <2>1, <2>4
  <2>6. ASSUME NEW n \in 1 .. k + 1 PROVE g[n] = F[<<g[n - 1], n>>]
    <3>1. n - 1 \in 0 .. k
      OBVIOUS
    <3>2. CASE n = k + 1
      BY <2>4, <3>1, <3>2 DEF x
    <3>3. CASE n # k + 1
      <4>1. n \in 1 .. k
        BY <3>3
      <4>. QED BY <2>1, <2>4, <3>1, <4>1
    <3>. QED BY <3>2, <3>3
  <2>. QED BY <2>3, <2>5, <2>6
<1>3. m \in G
  <2> HIDE DEF G
  <2>. QED BY <1>1, <1>2, NatSetInduction
<1>. QED BY <1>3 DEF Stages

(* What holds at the start and is kept by each turn holds at every stage.  *)
LEMMA StagesStay ==
  ASSUME NEW m \in Nat, NEW g, NEW S, g[0] \in S,
         \A n \in 1 .. m : g[n - 1] \in S => g[n] \in S
  PROVE  \A n \in 0 .. m : g[n] \in S
<1> DEFINE G == {n \in Nat : n <= m => g[n] \in S}
<1>1. 0 \in G
  OBVIOUS
<1>2. ASSUME NEW n \in Nat, n \in G PROVE n + 1 \in G
  <2> SUFFICES ASSUME n + 1 <= m PROVE g[n + 1] \in S
    OBVIOUS
  <2>1. n + 1 \in 1 .. m /\ (n + 1) - 1 = n /\ g[n] \in S
    BY <1>2
  <2>. QED BY <2>1
<1>3. \A n \in Nat : n \in G
  <2> HIDE DEF G
  <2>. QED BY <1>1, <1>2, NatSetInduction
<1>. QED BY <1>3

(* One turn of the walk. *)
Taken(s, T, f, n) == IF s[n] \in T THEN f[n - 1] ELSE Append(f[n - 1], s[n])

(* There is a function that takes those turns, so Left is one. *)
LEMMA LeftDef ==
  ASSUME NEW s, NEW T, Len(s) \in Nat
  PROVE  Left(s, T) = [n \in 0 .. Len(s) |->
           IF n = 0 THEN <<>> ELSE Taken(s, T, Left(s, T), n)]
<1> DEFINE Is(f, m) == f = [n \in 0 .. m |-> IF n = 0 THEN <<>> ELSE Taken(s, T, f, n)]
           G == {m \in Nat : \E f : Is(f, m)}
<1>1. 0 \in G
  <2>1. Is([n \in 0 .. 0 |-> <<>>], 0)
    OBVIOUS
  <2>. QED BY <2>1
<1>2. ASSUME NEW m \in Nat, m \in G PROVE m + 1 \in G
  <2>1. PICK f : Is(f, m)
    BY <1>2
  <2> DEFINE g == [n \in 0 .. m + 1 |-> IF n = m + 1 THEN Taken(s, T, f, n) ELSE f[n]]
  <2>2. Is(g, m + 1)
    <3>1. ASSUME NEW n \in 0 .. m + 1 PROVE g[n] = IF n = 0 THEN <<>> ELSE Taken(s, T, g, n)
      <4>1. n # 0 => g[n - 1] = f[n - 1]
        OBVIOUS
      <4>2. n # 0 => Taken(s, T, g, n) = Taken(s, T, f, n)
        BY <4>1 DEF Taken
      <4>3. n \in 0 .. m => f[n] = IF n = 0 THEN <<>> ELSE Taken(s, T, f, n)
        BY <2>1
      <4>. QED BY <4>2, <4>3
    <3>. QED BY <3>1
  <2> HIDE DEF Is, g
  <2>. QED BY <2>2
<1>3. \E f : Is(f, Len(s))
  <2> HIDE DEF G
  <2>1. Len(s) \in G
    BY <1>1, <1>2, NatSetInduction
  <2>. QED BY <2>1 DEF G
<1>4. Left(s, T) = CHOOSE f : Is(f, Len(s))
  BY DEF Left, Taken
<1> HIDE DEF Is
<1>5. Is(Left(s, T), Len(s))
  BY <1>3, <1>4
<1>. QED BY <1>5 DEF Is

(* h picks, in order, the places below n that hold no entry of T. *)
Picks(h, w, s, T, n) ==
  /\ h \in [1 .. Len(w) -> 1 .. n]
  /\ \A k \in 1 .. Len(w) : w[k] = s[h[k]] /\ w[k] \notin T
  /\ \A j, k \in 1 .. Len(w) : j < k => h[j] < h[k]
  /\ \A i \in 1 .. n : s[i] \notin T => \E k \in 1 .. Len(w) : h[k] = i

(* One turn keeps what is left in order. *)
LEMMA PicksMore ==
  ASSUME NEW S, NEW s \in Seq(S), NEW T, NEW n \in Nat, n + 1 <= Len(s),
         NEW w \in Seq(S), NEW h, Picks(h, w, s, T, n)
  PROVE  /\ s[n + 1] \in T => Picks(h, w, s, T, n + 1)
         /\ s[n + 1] \notin T => \E g : Picks(g, Append(w, s[n + 1]), s, T, n + 1)
<1>0. h \in [1 .. Len(w) -> 1 .. n] /\ Len(w) \in Nat
  BY DEF Picks
<1>1. ASSUME s[n + 1] \in T PROVE Picks(h, w, s, T, n + 1)
  <2>1. h \in [1 .. Len(w) -> 1 .. n + 1]
    BY <1>0
  <2>2. \A i \in 1 .. n + 1 : s[i] \notin T => i \in 1 .. n
    BY <1>1
  <2>. QED BY <2>1, <2>2 DEF Picks
<1>2. ASSUME s[n + 1] \notin T PROVE \E g : Picks(g, Append(w, s[n + 1]), s, T, n + 1)
  <2> DEFINE v == Append(w, s[n + 1])
             g == [k \in 1 .. Len(v) |-> IF k = Len(v) THEN n + 1 ELSE h[k]]
  <2>0. s[n + 1] \in S
    OBVIOUS
  <2>1. Len(v) = Len(w) + 1 /\ v[Len(v)] = s[n + 1] /\ \A k \in 1 .. Len(w) : v[k] = w[k]
    BY <2>0
  <2> HIDE DEF v
  <2>2. /\ \A k \in 1 .. Len(w) : g[k] = h[k] /\ g[k] \in 1 .. n
        /\ g[Len(v)] = n + 1
    BY <1>0, <2>1
  <2>3. g \in [1 .. Len(v) -> 1 .. n + 1]
    BY <1>0, <2>1
  <2>9. \A k \in 1 .. Len(v) : k = Len(v) \/ k \in 1 .. Len(w)
    BY <1>0, <2>1
  <2> HIDE DEF g
  <2>4. \A k \in 1 .. Len(v) : v[k] = s[g[k]] /\ v[k] \notin T
    BY <1>2, <2>1, <2>2, <2>9 DEF Picks
  <2>5. ASSUME NEW j \in 1 .. Len(v), NEW k \in 1 .. Len(v), j < k PROVE g[j] < g[k]
    <3>1. j \in 1 .. Len(w)
      BY <1>0, <2>1, <2>5
    <3>2. CASE k \in 1 .. Len(w)
      BY <2>2, <2>5, <3>1, <3>2 DEF Picks
    <3>3. CASE k = Len(v)
      BY <2>2, <3>1, <3>3
    <3>. QED BY <2>9, <3>2, <3>3
  <2>6. ASSUME NEW i \in 1 .. n + 1, s[i] \notin T PROVE \E k \in 1 .. Len(v) : g[k] = i
    <3>1. CASE i = n + 1
      BY <1>0, <2>1, <2>2, <3>1
    <3>2. CASE i \in 1 .. n
      <4>1. PICK k \in 1 .. Len(w) : h[k] = i
        BY <2>6, <3>2 DEF Picks
      <4>. QED BY <1>0, <2>1, <2>2, <4>1
    <3>. QED BY <3>1, <3>2
  <2>7. Picks(g, v, s, T, n + 1)
    BY <2>3, <2>4, <2>5, <2>6 DEF Picks
  <2>. QED BY <2>7 DEF v
<1>. QED BY <1>1, <1>2

(* For every list: what is left when the walk has taken out the entries in *)
(* T is the others, each once and in their order (remove_alarm_locked).    *)
THEOREM WithoutPicks ==
  ASSUME NEW S, NEW s \in Seq(S), NEW T
  PROVE  /\ Without(s, T) \in Seq(S)
         /\ \E h : Picks(h, Without(s, T), s, T, Len(s))
<1> DEFINE L == Left(s, T)
           P(n) == L[n] \in Seq(S) /\ \E h : Picks(h, L[n], s, T, n)
           G == {n \in Nat : n <= Len(s) => P(n)}
<1>1. Len(s) \in Nat
  OBVIOUS
<1>2. L = [n \in 0 .. Len(s) |-> IF n = 0 THEN <<>> ELSE Taken(s, T, L, n)]
  BY <1>1, LeftDef
<1> HIDE DEF L
<1>3. P(0)
  <2>1. L[0] = <<>>
    BY <1>1, <1>2
  <2>2. <<>> \in Seq(S) /\ Len(<<>>) = 0
    OBVIOUS
  <2>3. Picks([k \in 1 .. 0 |-> 1], <<>>, s, T, 0)
    BY <2>2 DEF Picks
  <2>. QED BY <2>1, <2>2, <2>3
<1>4. ASSUME NEW n \in Nat, n + 1 <= Len(s), P(n) PROVE P(n + 1)
  <2>1. L[n + 1] = IF s[n + 1] \in T THEN L[n] ELSE Append(L[n], s[n + 1])
    <3>1. n + 1 \in 0 .. Len(s) /\ n + 1 # 0 /\ (n + 1) - 1 = n
      BY <1>1, <1>4
    <3>2. L[n + 1] = Taken(s, T, L, n + 1)
      BY <1>2, <3>1
    <3>. QED BY <3>1, <3>2 DEF Taken
  <2>2. PICK h : Picks(h, L[n], s, T, n)
    BY <1>4
  <2>3. s[n + 1] \in S /\ L[n] \in Seq(S)
    BY <1>4
  <2>4. L[n + 1] \in Seq(S)
    BY <2>1, <2>3
  <2>5. \E g : Picks(g, L[n + 1], s, T, n + 1)
    BY <1>4, <2>1, <2>2, <2>3, PicksMore
  <2>. QED BY <2>4, <2>5
<1> HIDE DEF P
<1>5. 0 \in G
  BY <1>3
<1>6. ASSUME NEW n \in Nat, n \in G PROVE n + 1 \in G
  BY <1>1, <1>4, <1>6
<1>7. Len(s) \in G
  <2> HIDE DEF G
  <2>. QED BY <1>1, <1>5, <1>6, NatSetInduction
<1>8. P(Len(s))
  BY <1>1, <1>7
<1>. QED BY <1>8 DEF P, L, Without
(* A set of places that holds with each place those before it: the places  *)
(* up to its number of elements.                                           *)
LEMMA FrontPlaces ==
  ASSUME NEW n \in Nat, NEW D \in SUBSET (1 .. n),
         \A i \in D : \A j \in 1 .. i : j \in D
  PROVE  Cardinality(D) \in 0 .. n /\ D = 1 .. Cardinality(D)
<1> DEFINE B == {m \in Nat : m + 1 \notin D}
<1>1. n \in B
  OBVIOUS
<1>2. PICK m \in B : \A y \in B : m <= y
  BY <1>1, LeastNat
<1>3. m \in Nat /\ m <= n /\ m + 1 \notin D
  BY <1>1, <1>2
<1>4. D = 1 .. m
  <2>1. ASSUME NEW i \in 1 .. m PROVE i \in D
    <3>1. i - 1 \in Nat /\ ~(m <= i - 1) /\ (i - 1) + 1 = i
      BY <1>3
    <3>. QED BY <1>2, <3>1
  <2>2. ASSUME NEW i \in D PROVE i \in 1 .. m
    <3>1. i \in Nat /\ 1 <= i
      OBVIOUS
    <3>2. ~(m + 1 <= i)
      BY <1>3, <3>1
    <3>. QED BY <1>3, <3>1, <3>2
  <2>. QED BY <2>1, <2>2
<1>5. Cardinality(D) = m
  <2>1. Cardinality(1 .. m) = m
    BY <1>3, FS_Interval
  <2>. QED BY <1>4, <2>1
<1>. QED BY <1>3, <1>4, <1>5
-----------------------------------------------------------------------------
(* Cursors of a ring.                                                      *)

(* What % does within one capacity of the range 0 .. c - 1. *)
Turn(c, a) == IF a < 0 THEN a + c ELSE IF a < c THEN a ELSE a - c

LEMMA ModTurn ==
  ASSUME NEW c \in Nat \ {0}, NEW a \in Int, -c <= a, a - c < c
  PROVE  a % c = Turn(c, a)
<1>1. CASE a < 0
  <2>1. a % c = a + c
    BY <1>1
  <2>. QED BY <1>1, <2>1 DEF Turn
<1>2. CASE 0 <= a /\ a < c
  <2>1. a % c = a
    BY <1>2
  <2>. QED BY <1>2, <2>1 DEF Turn
<1>3. CASE c <= a
  <2>1. a % c = a - c
    BY <1>3
  <2>2. Turn(c, a) = a - c
    BY <1>3 DEF Turn
  <2>. QED BY <2>1, <2>2
<1>. QED BY <1>1, <1>2, <1>3

LEMMA TurnRange ==
  ASSUME NEW c \in Nat \ {0}, NEW a \in Int, -c <= a, a - c < c
  PROVE  Turn(c, a) \in 0 .. c - 1
BY DEF Turn

(* The step of a cursor by at most a whole turn. *)
LEMMA Advance ==
  ASSUME NEW c \in Nat \ {0}, NEW x \in 0 .. c - 1, NEW n \in 0 .. c
  PROVE  (x + n) % c \in 0 .. c - 1 /\ (x + n) % c = Turn(c, x + n)
<1> DEFINE a == x + n
<1>1. a \in Int /\ -c <= a /\ a - c < c
  OBVIOUS
<1> HIDE DEF a
<1>2. a % c = Turn(c, a) /\ Turn(c, a) \in 0 .. c - 1
  BY <1>1, ModTurn, TurnRange
<1>. QED BY <1>2 DEF a

(* The distance from one cursor forward to another. *)
LEMMA Distance ==
  ASSUME NEW c \in Nat \ {0}, NEW x \in 0 .. c - 1, NEW y \in 0 .. c - 1
  PROVE  (y - x) % c \in 0 .. c - 1
<1> DEFINE a == y - x
<1>1. a \in Int /\ -c <= a /\ a - c < c
  OBVIOUS
<1> HIDE DEF a
<1>2. a % c = Turn(c, a) /\ Turn(c, a) \in 0 .. c - 1
  BY <1>1, ModTurn, TurnRange
<1>. QED BY <1>2 DEF a

(* Two steps of a cursor are one. *)
LEMMA TwoSteps ==
  ASSUME NEW c \in Nat \ {0}, NEW t \in 0 .. c - 1, NEW n \in 0 .. c,
         NEW j \in 0 .. c, n + j <= c
  PROVE  (((t + n) % c) + j) % c = (t + (n + j)) % c
<1>1. (t + n) % c \in 0 .. c - 1 /\ (t + n) % c = Turn(c, t + n)
  BY Advance
<1> DEFINE h == (t + n) % c
<1>2. h \in 0 .. c - 1 /\ h = Turn(c, t + n)
  BY <1>1
<1> HIDE DEF h
<1>3. (h + j) % c = Turn(c, h + j)
  BY <1>2, Advance
<1>4. n + j \in 0 .. c
  OBVIOUS
<1>5. (t + (n + j)) % c = Turn(c, t + (n + j))
  BY <1>4, Advance
<1>6. Turn(c, h + j) = Turn(c, t + (n + j))
  BY <1>2 DEF Turn
<1>. QED BY <1>3, <1>5, <1>6 DEF h

(* How far the cell j after tail is from the cell v after tail. *)
LEMMA Between ==
  ASSUME NEW c \in Nat \ {0}, NEW t \in 0 .. c - 1, NEW v \in 0 .. c,
         NEW j \in 0 .. c - 1
  PROVE  (((t + j) % c) - ((t + v) % c)) % c = IF j < v THEN c - v + j ELSE j - v
<1> DEFINE x == (t + j) % c
           h == (t + v) % c
<1>1. x \in 0 .. c - 1 /\ x = Turn(c, t + j)
  BY Advance
<1>2. h \in 0 .. c - 1 /\ h = Turn(c, t + v)
  BY Advance
<1> HIDE DEF x, h
<1>3. (x - h) % c = Turn(c, x - h)
  <2> DEFINE a == x - h
  <2>1. a \in Int /\ -c <= a /\ a - c < c
    BY <1>1, <1>2
  <2> HIDE DEF a
  <2>2. a % c = Turn(c, a)
    BY <2>1, ModTurn
  <2>. QED BY <2>2 DEF a
<1>4. Turn(c, x - h) = IF j < v THEN c - v + j ELSE j - v
  BY <1>1, <1>2 DEF Turn
<1>. QED BY <1>3, <1>4 DEF x, h
=============================================================================
