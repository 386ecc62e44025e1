---------------------------- MODULE AlarmProofs -----------------------------
(***************************************************************************)
(* Theorems about Alarm, for any number of clients, listeners, calls and   *)
(* sessions and any length of time.                                        *)
(***************************************************************************)
EXTENDS Alarm, ListsProofs, SequenceTheorems, TLAPS

(* A client starts only between its init and its deinit. *)
Counts == initCount \in Nat /\ startCount \in Nat /\ startCount <= initCount

(* The thread exists from the first start to the end of the last stop. *)
ThreadRuns == pc # "off" <=> (startCount > 0 \/ stopper # "idle")

(* While the last stop is under way nobody is started, and the device is   *)
(* open: deinit waits for it or has called it.                             *)
StopUnderWay == stopper # "idle" => startCount = 0 /\ DevOpen

ClosingStops == closing => stopper # "idle"

DevIInv == Counts /\ ThreadRuns /\ StopUnderWay /\ ClosingStops

USE DEF Counts, ThreadRuns, StopUnderWay, ClosingStops, DevIInv, DevOpen

-----------------------------------------------------------------------------
(* What the calls on the list, the device and the thread's own steps leave *)
(* alone.                                                                  *)
LEMMA ListAndDevice ==
  ASSUME DevIInv,
         \/ \E l \in Listener, t \in Time : Set(t, l)
         \/ \E l \in Listener : Cancel(l)
         \/ Tick \/ GoOff \/ StopCancels
  PROVE  DevIInv'
  <1>1. UNCHANGED <<pc, initCount, startCount, closing>>
    BY DEF Set, Cancel, Tick, GoOff, StopCancels, threadVars, countVars
  <1>2. stopper' = "idle" <=> stopper = "idle"
    BY DEF Set, Cancel, Tick, GoOff, StopCancels
  <1> QED
    BY <1>1, <1>2

LEMMA ThreadSteps ==
  ASSUME DevIInv, ThreadLoop \/ ListenerCancelled
  PROVE  DevIInv'
  <1>1. pc # "off" /\ pc' # "off" /\ UNCHANGED <<initCount, startCount, closing, stopper>>
    <2>1. CASE LoopTop
      BY <2>1 DEF LoopTop, countVars
    <2>2. CASE WaitForAlarm
      BY <2>2 DEF WaitForAlarm, countVars
    <2>3. CASE CancelledAwake
      BY <2>3 DEF CancelledAwake, countVars
    <2>4. CASE TriggerAlarm
      BY <2>4 DEF TriggerAlarm, countVars
    <2>5. CASE ListenerReturns
      BY <2>5 DEF ListenerReturns, countVars
    <2>6. CASE ListenerCancelled
      BY <2>6 DEF ListenerCancelled, countVars
    <2> QED
      BY <2>1, <2>2, <2>3, <2>4, <2>5, <2>6 DEF ThreadLoop
  <1> QED
    BY <1>1

LEMMA Starting ==
  ASSUME DevIInv, InitManager \/ StartManager
  PROVE  DevIInv'
  <1>1. CASE InitManager
    BY <1>1 DEF InitManager, threadVars
  <1>2. CASE StartManager
    BY <1>2 DEF StartManager
  <1> QED
    BY <1>1, <1>2

LEMMA Stopping ==
  ASSUME DevIInv, StopManager \/ StopJoins
  PROVE  DevIInv'
  <1>1. CASE StopManager
    <2>1. CASE startCount = 1
      BY <1>1, <2>1 DEF StopManager, StopBody, threadVars
    <2>2. CASE startCount # 1
      BY <1>1, <2>2 DEF StopManager, StopBody, threadVars
    <2> QED
      BY <2>1, <2>2
  <1>2. CASE StopJoins
    BY <1>2 DEF StopJoins
  <1> QED
    BY <1>1, <1>2

(* The last deinit finds one of three cases: other clients are left, the   *)
(* thread was stopped, or it has to be stopped first.                      *)
LEMMA Deinit ==
  ASSUME DevIInv, DeinitManager
  PROVE  DevIInv'
  <1>1. initCount' = initCount - 1 /\ ~closing /\ (initCount > startCount \/ initCount = 1)
    BY DEF DeinitManager
  <1>2. CASE initCount > 1 /\ UNCHANGED <<threadVars, startCount, closing, stopper>>
    BY <1>1, <1>2 DEF threadVars
  <1>3. CASE initCount = 1 /\ pc = "off" /\ UNCHANGED <<threadVars, startCount, closing, stopper>>
    BY <1>1, <1>3 DEF threadVars
  <1>4. CASE initCount = 1 /\ stopper = "idle" /\ pc # "off" /\ closing' = TRUE /\ StopBody
    <2>1. startCount = 1
      BY <1>4
    <2> QED
      BY <1>1, <1>4, <2>1 DEF StopBody, threadVars
  <1> QED
    BY <1>2, <1>3, <1>4 DEF DeinitManager

LEMMA StepDevice == DevIInv /\ [Next]_vars => DevIInv'
  <1> SUFFICES ASSUME DevIInv, [Next]_vars PROVE DevIInv'
    OBVIOUS
  <1>1. CASE UNCHANGED vars
    BY <1>1 DEF vars, threadVars, countVars
  <1>2. CASE Next
    BY <1>2, ListAndDevice, ThreadSteps, Starting, Stopping, Deinit DEF Next
  <1> QED
    BY <1>1, <1>2

(* The service thread never outlives the device it waits on, nor the thread*)
(* object that the last deinit frees, however the clients' init, start,    *)
(* stop and deinit interleave with a stop that is under way.               *)
THEOREM ThreadAlwaysHasDevice == Spec => []ThreadHasDevice
  <1>1. Init => DevIInv
    BY DEF Init
  <1>2. DevIInv => ThreadHasDevice
    BY DEF ThreadHasDevice
  <1> QED
    BY <1>1, <1>2, StepDevice, PTL DEF Spec
HIDE DEF Counts, ThreadRuns, StopUnderWay, ClosingStops, DevIInv, DevOpen

-----------------------------------------------------------------------------
(* NoAlarmForgotten.                                                       *)

(* The list is sorted: add_alarm_locked keeps it so. *)
Sorted(l) == \A i, j \in 1 .. Len(l) : i <= j => l[i].when <= l[j].when

ListInv ==
  /\ now \in Time /\ armed \in Time \cup {NoTime} /\ list \in Seq(AlarmRec)
  /\ Sorted(list)
  /\ NoAlarmForgotten

(* Instants are numbers, and NoTime is none. *)
LEMMA Times ==
  /\ \A t \in Time : t \in Nat /\ t # NoTime
  /\ \A a \in AlarmRec : a.when \in Time
BY AlarmAssumption DEF Time, AlarmRec

(* What is left is sorted, and not earlier than the first was. *)
LEMMA RemoveKeepsSorted ==
  ASSUME NEW l \in Seq(AlarmRec), Sorted(l), NEW x
  PROVE  /\ Remove(l, x) \in Seq(AlarmRec) /\ Sorted(Remove(l, x))
         /\ \A k \in 1 .. Len(Remove(l, x)) : l # <<>> /\ l[1].when <= Remove(l, x)[k].when
<1> DEFINE T == {a \in AlarmRec : a.listener = x}
           w == Without(l, T)
<1>1. w \in Seq(AlarmRec) /\ \E h : Picks(h, w, l, T, Len(l))
  <2> HIDE DEF T
  <2>. QED BY WithoutPicks
<1>2. PICK h : Picks(h, w, l, T, Len(l))
  BY <1>1
<1> HIDE DEF w
<1>3. /\ \A k \in 1 .. Len(w) : h[k] \in 1 .. Len(l) /\ w[k] = l[h[k]]
      /\ \A j, k \in 1 .. Len(w) : j < k => h[j] < h[k]
      /\ Len(w) \in Nat /\ Len(l) \in Nat
  BY <1>1, <1>2 DEF Picks
<1>4. ASSUME NEW j \in 1 .. Len(w), NEW k \in 1 .. Len(w), j <= k
      PROVE  w[j].when <= w[k].when
  <2>1. h[j] <= h[k]
    <3>1. CASE j = k
      BY <1>3, <3>1
    <3>2. CASE j < k
      BY <1>3, <3>2
    <3>. QED BY <1>3, <1>4, <3>1, <3>2
  <2>. QED BY <1>3, <2>1 DEF Sorted
<1>5. ASSUME NEW k \in 1 .. Len(w) PROVE l # <<>> /\ l[1].when <= w[k].when
  BY <1>3 DEF Sorted
<1>. QED BY <1>1, <1>4, <1>5 DEF w, Remove, Sorted

(* add_alarm_locked puts the entry behind those that are not later. *)
LEMMA InsertPlaces ==
  ASSUME NEW l \in Seq(AlarmRec), Sorted(l), NEW a \in AlarmRec
  PROVE  \E k \in 0 .. Len(l) :
           /\ Len(Insert(l, a)) = Len(l) + 1 /\ Insert(l, a) \in Seq(AlarmRec)
           /\ \A i \in 1 .. Len(l) + 1 :
                Insert(l, a)[i] = IF i <= k THEN l[i] ELSE IF i = k + 1 THEN a ELSE l[i - 1]
           /\ \A i \in 1 .. k : l[i].when <= a.when
           /\ \A i \in k + 1 .. Len(l) : a.when <= l[i].when
<1> DEFINE D == {i \in 1 .. Len(l) : \A j \in 1 .. i : l[j].when <= a.when}
           k == Cardinality(D)
           v == SubSeq(l, 1, k) \o <<a>> \o SubSeq(l, k + 1, Len(l))
<1>0. Len(l) \in Nat
  OBVIOUS
<1>1. k \in 0 .. Len(l) /\ D = 1 .. k
  <2>1. D \in SUBSET (1 .. Len(l)) /\ \A i \in D : \A j \in 1 .. i : j \in D
    OBVIOUS
  <2> HIDE DEF D
  <2>. QED BY <1>0, <2>1, FrontPlaces
<1>2. \A i \in 1 .. k : l[i].when <= a.when
  <2>1. \A i \in D : l[i].when <= a.when
    OBVIOUS
  <2> HIDE DEF D
  <2>. QED BY <1>1, <2>1
<1>3. ASSUME NEW i \in k + 1 .. Len(l) PROVE a.when <= l[i].when
  <2>0. k \in Nat /\ k + 1 \in 1 .. Len(l) /\ k + 1 \notin D
    <3> HIDE DEF D
    <3>. QED BY <1>0, <1>1
  <2>1. PICK j \in 1 .. k + 1 : ~(l[j].when <= a.when)
    BY <2>0
  <2> HIDE DEF k
  <2>2. j = k + 1
    BY <1>2, <2>0, <2>1
  <2>3. l[j].when <= l[i].when
    BY <2>0, <2>2 DEF Sorted
  <2>4. l[j] \in AlarmRec /\ l[i] \in AlarmRec
    BY <1>0, <2>0
  <2>. QED BY <2>1, <2>3, <2>4, Times
<1> HIDE DEF D, k
<1>4. /\ v \in Seq(AlarmRec) /\ Len(v) = Len(l) + 1
      /\ \A i \in 1 .. Len(l) + 1 :
            v[i] = IF i <= k THEN l[i] ELSE IF i = k + 1 THEN a ELSE l[i - 1]
  <2> DEFINE p == SubSeq(l, 1, k)
             q == SubSeq(l, k + 1, Len(l))
  <2>1. p \in Seq(AlarmRec) /\ Len(p) = k /\ \A i \in 1 .. k : p[i] = l[i]
    BY <1>0, <1>1
  <2>2. /\ q \in Seq(AlarmRec) /\ Len(q) = Len(l) - k
        /\ \A i \in 1 .. Len(l) - k : q[i] = l[k + i]
    BY <1>0, <1>1
  <2>3. k \in Nat /\ Len(l) - k \in Nat
    BY <1>0, <1>1
  <2> HIDE DEF p, q
  <2>4. p \o <<a>> \in Seq(AlarmRec) /\ Len(p \o <<a>>) = k + 1
    BY <2>1, <2>3
  <2>5. \A i \in 1 .. k + 1 : (p \o <<a>>)[i] = IF i <= k THEN p[i] ELSE a
    BY <2>1, <2>3
  <2> DEFINE r == p \o <<a>>
  <2>9. /\ r \in Seq(AlarmRec) /\ Len(r) = k + 1
        /\ \A i \in 1 .. k + 1 : r[i] = IF i <= k THEN p[i] ELSE a
    BY <2>4, <2>5
  <2> HIDE DEF r
  <2>6. r \o q \in Seq(AlarmRec) /\ Len(r \o q) = Len(l) + 1
    <3>0. r \in Seq(AlarmRec) /\ q \in Seq(AlarmRec)
      BY <2>2, <2>9
    <3>1. r \o q \in Seq(AlarmRec) /\ Len(r \o q) = Len(r) + Len(q)
      BY <3>0, ConcatProperties
    <3>. QED BY <1>0, <2>2, <2>3, <2>9, <3>1
  <2>7. \A i \in 1 .. Len(l) + 1 : (r \o q)[i] = IF i <= k + 1 THEN r[i] ELSE q[i - (k + 1)]
    BY <2>2, <2>3, <2>9, <1>0
  <2>8. ASSUME NEW i \in 1 .. Len(l) + 1
        PROVE (r \o q)[i] = IF i <= k THEN l[i] ELSE IF i = k + 1 THEN a ELSE l[i - 1]
    <3>1. CASE i <= k + 1
      BY <2>1, <2>3, <2>9, <2>7, <3>1
    <3>2. CASE i > k + 1
      <4>1. i - (k + 1) \in 1 .. Len(l) - k /\ k + (i - (k + 1)) = i - 1
        BY <1>0, <2>3, <3>2
      <4>2. ~(i <= k + 1) /\ ~(i <= k) /\ i # k + 1
        BY <1>0, <2>3, <3>2
      <4>3. (r \o q)[i] = q[i - (k + 1)]
        BY <2>7, <4>2
      <4>4. q[i - (k + 1)] = l[i - 1]
        BY <2>2, <4>1
      <4>. QED BY <4>2, <4>3, <4>4
    <3>3. i <= k + 1 \/ i > k + 1
      BY <1>0, <2>3
    <3>. QED BY <3>1, <3>2, <3>3
  <2>. QED BY <2>6, <2>8 DEF r, p, q
<1>5. v = Insert(l, a)
  BY DEF Insert, k, D
<1>. QED BY <1>1, <1>2, <1>3, <1>4, <1>5

(* For every list and entry: add_alarm_locked keeps a sorted list sorted,  *)
(* and the first entry is the new one or the one that was.                 *)
THEOREM InsertKeepsSorted ==
  ASSUME NEW l \in Seq(AlarmRec), Sorted(l), NEW a \in AlarmRec
  PROVE  /\ Insert(l, a) \in Seq(AlarmRec) /\ Sorted(Insert(l, a))
         /\ Len(Insert(l, a)) >= 1
         /\ Insert(l, a)[1] = a \/ (Len(l) >= 1 /\ Insert(l, a)[1] = l[1])
<1> DEFINE v == Insert(l, a)
<1>1. PICK k \in 0 .. Len(l) :
           /\ Len(v) = Len(l) + 1 /\ v \in Seq(AlarmRec)
           /\ \A i \in 1 .. Len(l) + 1 :
                v[i] = IF i <= k THEN l[i] ELSE IF i = k + 1 THEN a ELSE l[i - 1]
           /\ \A i \in 1 .. k : l[i].when <= a.when
           /\ \A i \in k + 1 .. Len(l) : a.when <= l[i].when
  BY InsertPlaces
<1>2. Len(l) \in Nat /\ k \in Nat /\ \A i \in 1 .. Len(l) : l[i] \in AlarmRec
  OBVIOUS
<1> HIDE DEF v
<1>5. \A i \in 1 .. Len(l) + 1 : v[i] = IF i <= k THEN l[i] ELSE IF i = k + 1 THEN a ELSE l[i - 1]
  BY <1>1
<1>3. ASSUME NEW i \in 1 .. Len(v), NEW j \in 1 .. Len(v), i <= j
      PROVE  v[i].when <= v[j].when
  <2>0. a.when \in Nat /\ \A m \in 1 .. Len(l) : l[m].when \in Nat
    BY <1>2, Times
  <2>1. i \in 1 .. Len(l) + 1 /\ j \in 1 .. Len(l) + 1
    BY <1>1
  <2>2. CASE j <= k
    <3>0. i <= k
      BY <1>2, <1>3, <2>1, <2>2
    <3>1. v[i] = l[i] /\ v[j] = l[j]
      BY <1>5, <2>1, <2>2, <3>0
    <3>2. i \in 1 .. Len(l) /\ j \in 1 .. Len(l)
      BY <1>2, <2>1, <2>2, <3>0
    <3>. QED BY <1>3, <3>1, <3>2 DEF Sorted
  <2>3. CASE j = k + 1
    <3>1. v[j] = a
      BY <1>1, <1>2, <2>1, <2>3
    <3>2. CASE i = j
      BY <2>0, <3>1, <3>2
    <3>3. CASE i # j
      <4>1. i \in 1 .. k /\ v[i] = l[i]
        BY <1>1, <1>2, <1>3, <2>1, <2>3, <3>3
      <4>. QED BY <1>1, <3>1, <4>1
    <3>. QED BY <3>2, <3>3
  <2>4. CASE j > k + 1
    <3>1. v[j] = l[j - 1] /\ j - 1 \in k + 1 .. Len(l)
      BY <1>1, <1>2, <2>1, <2>4
    <3>2. a.when <= l[j - 1].when /\ \A m \in 1 .. Len(l) : m <= j - 1 => l[m].when <= l[j - 1].when
      BY <1>1, <1>2, <3>1 DEF Sorted
    <3>3. CASE i <= k
      BY <1>1, <1>2, <2>1, <2>4, <3>1, <3>2, <3>3
    <3>4. CASE i = k + 1
      <4>1. v[i] = a
        BY <1>1, <1>2, <2>1, <3>4
      <4>. QED BY <3>1, <3>2, <4>1
    <3>5. CASE i > k + 1
      <4>1. v[i] = l[i - 1] /\ i - 1 \in 1 .. Len(l) /\ i - 1 <= j - 1
        BY <1>1, <1>2, <1>3, <2>1, <3>5
      <4>. QED BY <3>1, <3>2, <4>1
    <3>. QED BY <1>2, <2>1, <3>3, <3>4, <3>5
  <2>. QED BY <1>2, <2>1, <2>2, <2>3, <2>4
<1>4. v[1] = a \/ (Len(l) >= 1 /\ v[1] = l[1])
  <2>0. v[1] = IF 1 <= k THEN l[1] ELSE IF 1 = k + 1 THEN a ELSE l[1 - 1]
    <3>1. 1 \in 1 .. Len(l) + 1
      BY <1>2
    <3>. QED BY <1>5, <3>1
  <2>1. k = 0 \/ (1 <= k /\ Len(l) >= 1)
    BY <1>2
  <2>2. CASE k = 0
    BY <2>0, <2>2
  <2>3. CASE 1 <= k /\ Len(l) >= 1
    BY <2>0, <2>3
  <2>. QED BY <2>1, <2>2, <2>3
<1>. QED BY <1>1, <1>2, <1>3, <1>4 DEF v, Sorted

(* The device is armed for a new first entry, and only then. *)
LEMMA IndexOfFirst ==
  ASSUME NEW l \in Seq(AlarmRec), Len(l) >= 1, NEW t
  PROVE  IndexOf(l, t) = 0 <=> l[1].when = t
<1> DEFINE D == {i \in 1 .. Len(l) : \A j \in 1 .. i : l[j].when # t}
<1>1. Len(l) \in Nat /\ D \in SUBSET (1 .. Len(l)) /\ \A i \in D : \A j \in 1 .. i : j \in D
  OBVIOUS
<1>2. 1 \in D <=> l[1].when # t
  OBVIOUS
<1>3. Cardinality(D) = IndexOf(l, t)
  BY DEF IndexOf
<1> HIDE DEF D
<1>4. Cardinality(D) \in Nat /\ D = 1 .. Cardinality(D)
  BY <1>1, FrontPlaces
<1>. QED BY <1>2, <1>3, <1>4

(* A new first entry arms the device; behind the old first one the device  *)
(* is armed already.                                                       *)
LEMMA SetRepeatStep ==
  ASSUME ListInv, NEW t \in Time, NEW x \in Listener \cup {Dummy}, SetRepeat(t, x),
         UNCHANGED <<now, pending, pc, fresh>>
  PROVE  ListInv'
<1> DEFINE a == [when |-> t, listener |-> x]
           r == Remove(list, x)
           l == Insert(r, a)
<1>0. list \in Seq(AlarmRec) /\ Sorted(list) /\ a \in AlarmRec /\ now \in Time
      /\ armed \in Time \cup {NoTime}
  BY DEF ListInv, AlarmRec
<1>1. r \in Seq(AlarmRec) /\ Sorted(r)
      /\ \A k \in 1 .. Len(r) : list # <<>> /\ list[1].when <= r[k].when
  BY <1>0, RemoveKeepsSorted
<1>2. l \in Seq(AlarmRec) /\ Sorted(l) /\ Len(l) >= 1
      /\ (l[1] = a \/ (Len(r) >= 1 /\ l[1] = r[1]))
  <2> HIDE DEF r, a
  <2>. QED BY <1>0, <1>1, InsertKeepsSorted
<1>3. list' = l /\ armed' = IF IndexOf(l, t) = 0 THEN t ELSE armed
  BY DEF SetRepeat
<1>4. a.when = t
  OBVIOUS
<1> HIDE DEF l, r, a
<1>5. armed' \in Time \cup {NoTime}
  BY <1>0, <1>3
<1>6. NoAlarmForgotten'
  <2> SUFFICES ASSUME fresh PROVE pending \/ pc = "woke" \/ (armed' # NoTime /\ armed' <= l[1].when)
    BY <1>3 DEF NoAlarmForgotten
  <2>1. CASE l[1].when = t
    <3>1. armed' = t
      BY <1>2, <1>3, <2>1, IndexOfFirst
    <3>2. t \in Nat /\ t # NoTime
      BY Times
    <3>. QED BY <2>1, <3>1, <3>2
  <2>2. CASE l[1].when # t
    <3>1. armed' = armed
      BY <1>2, <1>3, <2>2, IndexOfFirst
    <3>2. l[1] = r[1] /\ Len(r) >= 1
      BY <1>2, <1>4, <2>2
    <3>3. list # <<>> /\ list[1].when <= l[1].when
      BY <1>1, <3>2
    <3>4. pending \/ pc = "woke" \/ (armed # NoTime /\ armed <= list[1].when)
      BY <3>3 DEF ListInv, NoAlarmForgotten
    <3>5. list[1].when \in Nat /\ l[1].when \in Nat
      <4>1. list[1] \in AlarmRec /\ l[1] \in AlarmRec
        BY <1>0, <1>2, <3>3
      <4>. QED BY <4>1, Times
    <3>6. armed # NoTime => armed \in Nat
      BY <1>0, Times
    <3>. QED BY <3>1, <3>3, <3>4, <3>5, <3>6
  <2>. QED BY <2>1, <2>2
<1>. QED BY <1>0, <1>2, <1>3, <1>5, <1>6 DEF ListInv

LEMMA SetStep ==
  ASSUME ListInv, NEW x \in Listener, NEW t \in Time, Set(t, x)
  PROVE  ListInv'
<1>1. SetRepeat(t, x) /\ UNCHANGED <<now, pending, pc, fresh>>
  BY DEF Set, threadVars
<1>. QED BY <1>1, SetRepeatStep

(* cancel may leave the device armed for an instant that nobody waits for, *)
(* but never for too late a one.                                           *)
LEMMA CancelStep ==
  ASSUME ListInv, NEW x \in Listener, Cancel(x)
  PROVE  ListInv'
<1> DEFINE r == Remove(list, x)
<1>0. list \in Seq(AlarmRec) /\ Sorted(list) /\ armed \in Time \cup {NoTime}
  BY DEF ListInv
<1>1. r \in Seq(AlarmRec) /\ Sorted(r)
      /\ \A k \in 1 .. Len(r) : list # <<>> /\ list[1].when <= r[k].when
  BY <1>0, RemoveKeepsSorted
<1>2. list' = r /\ UNCHANGED <<now, armed, pending, pc, fresh>>
  BY DEF Cancel, devVars, threadVars, boundVars
<1> HIDE DEF r
<1>3. NoAlarmForgotten'
  <2> SUFFICES ASSUME fresh, r # <<>>
               PROVE  pending \/ pc = "woke" \/ (armed # NoTime /\ armed <= r[1].when)
    BY <1>2 DEF NoAlarmForgotten
  <2>1. 1 \in 1 .. Len(r)
    BY <1>1
  <2>2. list # <<>> /\ list[1].when <= r[1].when
    BY <1>1, <2>1
  <2>3. pending \/ pc = "woke" \/ (armed # NoTime /\ armed <= list[1].when)
    BY <2>2 DEF ListInv, NoAlarmForgotten
  <2>4. list[1].when \in Nat /\ r[1].when \in Nat
    <3>1. list[1] \in AlarmRec /\ r[1] \in AlarmRec
      BY <1>0, <1>1, <2>1, <2>2
    <3>. QED BY <3>1, Times
  <2>5. armed # NoTime => armed \in Nat
    BY <1>0, Times
  <2>. QED BY <2>2, <2>3, <2>4, <2>5
<1>. QED BY <1>1, <1>2, <1>3 DEF ListInv

(* What is due is cut off; the device is armed for the first of the rest.  *)
LEMMA TriggerStep ==
  ASSUME ListInv, TriggerAlarm
  PROVE  ListInv'
<1> DEFINE k == Cardinality({i \in 1 .. Len(list) : \A j \in 1 .. i : list[j].when <= now})
           r == SubSeq(list, k + 1, Len(list))
<1>0. list \in Seq(AlarmRec) /\ Sorted(list) /\ armed \in Time \cup {NoTime} /\ now \in Time
  BY DEF ListInv
<1>1. k \in 0 .. Len(list)
  <2> DEFINE D == {i \in 1 .. Len(list) : \A j \in 1 .. i : list[j].when <= now}
  <2>1. Len(list) \in Nat /\ D \in SUBSET (1 .. Len(list)) /\ \A i \in D : \A j \in 1 .. i : j \in D
    BY <1>0
  <2> HIDE DEF D
  <2>2. Cardinality(D) \in 0 .. Len(list)
    BY <2>1, FrontPlaces
  <2>. QED BY <2>2 DEF D
<1>2. /\ list' = r /\ armed' = IF list' = <<>> THEN armed ELSE list'[1].when
      /\ UNCHANGED now
  BY DEF TriggerAlarm
<1> HIDE DEF k
<1>3. /\ r \in Seq(AlarmRec) /\ Len(r) = Len(list) - k
      /\ \A i \in 1 .. Len(list) - k : r[i] = list[k + i]
  BY <1>0, <1>1
<1>4. Len(list) \in Nat /\ k \in Nat
  BY <1>0, <1>1
<1> HIDE DEF r
<1>5. Sorted(r)
  <2> SUFFICES ASSUME NEW i \in 1 .. Len(r), NEW j \in 1 .. Len(r), i <= j
               PROVE  r[i].when <= r[j].when
    BY DEF Sorted
  <2>1. r[i] = list[k + i] /\ r[j] = list[k + j]
    BY <1>3
  <2>2. k + i \in 1 .. Len(list) /\ k + j \in 1 .. Len(list) /\ k + i <= k + j
    BY <1>3, <1>4
  <2>. QED BY <1>0, <2>1, <2>2 DEF Sorted
<1>6. r # <<>> => armed' = r[1].when /\ r[1].when \in Nat /\ r[1].when \in Time /\ r[1].when # NoTime
  <2> SUFFICES ASSUME r # <<>> PROVE armed' = r[1].when /\ r[1].when \in Nat
                                     /\ r[1].when \in Time /\ r[1].when # NoTime
    OBVIOUS
  <2>1. r[1] \in AlarmRec
    BY <1>3
  <2>. QED BY <1>2, <2>1, Times
<1>7. armed' \in Time \cup {NoTime}
  BY <1>0, <1>2, <1>6
<1>8. NoAlarmForgotten'
  BY <1>2, <1>6 DEF NoAlarmForgotten
<1>. QED BY <1>0, <1>2, <1>3, <1>5, <1>7, <1>8 DEF ListInv

(* A step that leaves list and device alone, and does not take a thread    *)
(* that was woken away, or is one after which the claim ends.              *)
LEMMA OtherSteps ==
  ASSUME ListInv, UNCHANGED list, now' \in Time,
         \/ fresh' = FALSE /\ armed' \in Time \cup {NoTime}
         \/ UNCHANGED armed /\ (fresh' => fresh) /\ (pending => pending' \/ pc' = "woke")
            /\ (pc = "woke" => pc' = "woke")
         \/ pending' = TRUE /\ armed' = NoTime
  PROVE  ListInv'
BY DEF ListInv, NoAlarmForgotten

LEMMA DeviceSteps ==
  ASSUME ListInv, Tick \/ GoOff
  PROVE  ListInv'
<1>1. CASE Tick
  <2>1. now' \in Time
    BY <1>1, AlarmAssumption DEF Tick, ListInv, Time
  <2>. QED BY <1>1, <2>1, OtherSteps DEF Tick, devVars, threadVars
<1>2. CASE GoOff
  <2>1. now' \in Time
    BY <1>2 DEF GoOff, ListInv
  <2>. QED BY <1>2, <2>1, OtherSteps DEF GoOff
<1>. QED BY <1>1, <1>2

LEMMA LoopSteps ==
  ASSUME ListInv, ThreadLoop \/ ListenerCancelled
  PROVE  ListInv'
<1>0. now \in Time /\ armed \in Time \cup {NoTime}
  BY DEF ListInv
<1>1. CASE LoopTop
  BY <1>0, <1>1, OtherSteps DEF LoopTop, devVars
<1>2. CASE WaitForAlarm
  BY <1>0, <1>2, OtherSteps DEF WaitForAlarm, boundVars
<1>3. CASE CancelledAwake
  BY <1>0, <1>3, OtherSteps DEF CancelledAwake, devVars
<1>4. CASE TriggerAlarm
  BY <1>4, TriggerStep
<1>5. CASE ListenerReturns
  BY <1>0, <1>5, OtherSteps DEF ListenerReturns, devVars, boundVars
<1>6. CASE ListenerCancelled
  BY <1>0, <1>6, OtherSteps DEF ListenerCancelled, devVars
<1>. QED BY <1>1, <1>2, <1>3, <1>4, <1>5, <1>6 DEF ThreadLoop

LEMMA StopBodyStep ==
  ASSUME ListInv, StopBody
  PROVE  ListInv'
<1>0. now \in Time /\ UNCHANGED <<now, pending, pc, fresh>>
  BY DEF ListInv, StopBody, threadVars, boundVars
<1>1. CASE startCount = 1
  <2>1. now + StopDelay \in Time /\ SetRepeat(now + StopDelay, Dummy)
    BY <1>0, <1>1, AlarmAssumption DEF StopBody, Time
  <2>2. Dummy \in Listener \cup {Dummy}
    OBVIOUS
  <2>. QED BY <1>0, <2>1, <2>2, SetRepeatStep
<1>2. CASE startCount # 1
  <2>1. UNCHANGED <<list, armed>>
    BY <1>2 DEF StopBody
  <2>. QED BY <1>0, <2>1, OtherSteps
<1>. QED BY <1>1, <1>2

LEMMA ManagerSteps ==
  ASSUME ListInv, DevIInv,
         InitManager \/ StartManager \/ StopManager \/ DeinitManager \/ StopCancels \/ StopJoins
  PROVE  ListInv'
<1>0. now \in Time /\ armed \in Time \cup {NoTime}
  BY DEF ListInv
<1>1. CASE InitManager
  BY <1>0, <1>1, OtherSteps DEF InitManager, devVars, threadVars, boundVars
<1>2. CASE StartManager
  <2>1. startCount = 0 => pc # "woke"
    BY <1>2 DEF StartManager, DevIInv, ThreadRuns
  <2>2. UNCHANGED <<now, list, armed, pending, fresh>> /\ (startCount # 0 => UNCHANGED pc)
    BY <1>2 DEF StartManager, devVars
  <2>. QED BY <1>0, <2>1, <2>2, OtherSteps
<1>3. CASE StopManager
  BY <1>3, StopBodyStep DEF StopManager
<1>4. CASE StopCancels
  BY <1>0, <1>4, OtherSteps DEF StopCancels, devVars, boundVars
<1>5. CASE StopJoins
  <2>1. UNCHANGED <<now, list>> /\ pc = "exited"
        /\ (\/ armed' = NoTime /\ fresh' = FALSE
            \/ UNCHANGED <<armed, pending, fresh>>)
    BY <1>5 DEF StopJoins, CloseDev, devVars
  <2>2. CASE armed' = NoTime /\ fresh' = FALSE
    BY <1>0, <2>1, <2>2, OtherSteps
  <2>3. CASE UNCHANGED <<armed, pending, fresh>>
    BY <1>0, <2>1, <2>3, OtherSteps
  <2>. QED BY <2>1, <2>2, <2>3
<1>6. CASE DeinitManager
  <2>1. CASE StopBody
    BY <2>1, StopBodyStep
  <2>2. CASE ~StopBody
    <3>1. UNCHANGED <<now, list, pc>>
          /\ (\/ armed' = NoTime /\ fresh' = FALSE
              \/ UNCHANGED <<armed, pending, fresh>>)
      BY <1>6, <2>2 DEF DeinitManager, CloseDev, devVars, threadVars, boundVars
    <3>2. CASE armed' = NoTime /\ fresh' = FALSE
      BY <1>0, <3>1, <3>2, OtherSteps
    <3>3. CASE UNCHANGED <<armed, pending, fresh>>
      BY <1>0, <3>1, <3>3, OtherSteps
    <3>. QED BY <3>1, <3>2, <3>3
  <2>. QED BY <2>1, <2>2
<1>. QED BY <1>1, <1>2, <1>3, <1>4, <1>5, <1>6

LEMMA StepList == ListInv /\ DevIInv /\ [Next]_vars => ListInv'
<1> SUFFICES ASSUME ListInv, DevIInv, [Next]_vars PROVE ListInv'
  OBVIOUS
<1>1. CASE UNCHANGED vars
  <2>1. UNCHANGED <<now, list, armed, pending, pc, fresh>> /\ now \in Time
    BY <1>1 DEF vars, devVars, threadVars, boundVars, ListInv
  <2>. QED BY <2>1, OtherSteps
<1>2. CASE Next
  BY <1>2, SetStep, CancelStep, DeviceSteps, LoopSteps, ManagerSteps DEF Next
<1>. QED BY <1>1, <1>2

(* Until the first service thread ends no alarm is forgotten: whenever an  *)
(* alarm is in the list the device goes off no later than the first of     *)
(* them, or has gone off, whichever listeners set and cancel meanwhile.    *)
THEOREM NoAlarmEverForgotten == Spec => []NoAlarmForgotten
<1>1. Init => DevIInv
  BY DEF Init, DevIInv, Counts, ThreadRuns, StopUnderWay, ClosingStops
<1>2. Init => ListInv
  BY AlarmAssumption DEF Init, ListInv, NoAlarmForgotten, Sorted, Time
<1>3. ListInv => NoAlarmForgotten
  BY DEF ListInv
<1>. QED BY <1>1, <1>2, <1>3, StepDevice, StepList, PTL DEF Spec

-----------------------------------------------------------------------------
(* The types that the two invariants lack; the loop that calls listeners   *)
(* has one to call.                                                        *)
AlarmTypes ==
  /\ trigger \in Seq(AlarmRec) /\ (pc = "call" => trigger # <<>>)
  /\ pending \in BOOLEAN /\ cancelled \in BOOLEAN /\ closing \in BOOLEAN
  /\ fresh \in BOOLEAN /\ prompt \in BOOLEAN
  /\ pc \in {"off", "top", "wait", "woke", "call", "exited"}
  /\ stopper \in {"idle", "set", "join"}
  /\ initCount <= MaxClients
  /\ sets \in 0 .. MaxSets /\ sessions \in 0 .. MaxSessions

LEMMA ThreadLoopTypes ==
  ASSUME ListInv, AlarmTypes, ThreadLoop \/ ListenerCancelled
  PROVE  AlarmTypes'
<1>1. CASE LoopTop \/ WaitForAlarm \/ CancelledAwake \/ ListenerCancelled
  BY <1>1 DEF LoopTop, WaitForAlarm, CancelledAwake, ListenerCancelled, AlarmTypes, devVars,
              countVars, boundVars
<1>2. CASE TriggerAlarm
  <2> DEFINE k == Cardinality({i \in 1 .. Len(list) : \A j \in 1 .. i : list[j].when <= now})
  <2>0. list \in Seq(AlarmRec) /\ Len(list) \in Nat
    BY DEF ListInv
  <2>1. k \in 0 .. Len(list)
    <3> DEFINE D == {i \in 1 .. Len(list) : \A j \in 1 .. i : list[j].when <= now}
    <3>1. D \in SUBSET (1 .. Len(list)) /\ \A i \in D : \A j \in 1 .. i : j \in D
      BY <2>0
    <3> HIDE DEF D
    <3>2. Cardinality(D) \in 0 .. Len(list)
      BY <2>0, <3>1, FrontPlaces
    <3>. QED BY <3>2 DEF D
  <2>2. trigger' = SubSeq(list, 1, k)
    BY <1>2 DEF TriggerAlarm
  <2> HIDE DEF k
  <2>3. trigger' \in Seq(AlarmRec)
    BY <2>0, <2>1, <2>2
  <2>. QED BY <1>2, <2>3 DEF TriggerAlarm, AlarmTypes, countVars, boundVars
<1>3. CASE ListenerReturns
  <2>1. trigger' \in Seq(AlarmRec)
    BY <1>3 DEF ListenerReturns, AlarmTypes
  <2>. QED BY <1>3, <2>1 DEF ListenerReturns, AlarmTypes, devVars, countVars, boundVars
<1>. QED BY <1>1, <1>2, <1>3 DEF ThreadLoop

LEMMA CallTypes ==
  ASSUME DevIInv, ListInv, AlarmTypes,
         \/ \E l \in Listener, t \in Time : Set(t, l)
         \/ \E l \in Listener : Cancel(l)
         \/ Tick \/ GoOff
         \/ InitManager \/ StartManager \/ StopManager \/ DeinitManager
         \/ StopCancels \/ StopJoins
  PROVE  AlarmTypes'
<1>0. initCount \in Nat /\ MaxSets \in Nat /\ MaxSessions \in Nat /\ MaxClients \in Nat
  BY AlarmAssumption DEF DevIInv, Counts
<1>1. CASE (\E l \in Listener, t \in Time : Set(t, l)) \/ \E l \in Listener : Cancel(l)
  <2>1. /\ UNCHANGED <<pending, threadVars, countVars, stopper, sessions, fresh, prompt>>
        /\ sets' = sets \/ (sets < MaxSets /\ sets' = sets + 1)
    BY <1>1 DEF Set, Cancel, devVars, boundVars
  <2>2. sets' \in 0 .. MaxSets
    BY <1>0, <2>1 DEF AlarmTypes
  <2>. QED BY <2>1, <2>2 DEF AlarmTypes, threadVars, countVars
<1>2. CASE Tick \/ GoOff
  <2>1. prompt' \in BOOLEAN /\ pending' \in BOOLEAN
    BY <1>2 DEF Tick, GoOff, AlarmTypes, devVars, boundVars
  <2>2. UNCHANGED <<threadVars, countVars, stopper, sets, sessions, fresh>>
    BY <1>2 DEF Tick, GoOff, boundVars
  <2>. QED BY <2>1, <2>2 DEF AlarmTypes, threadVars, countVars
<1>3. CASE InitManager \/ StartManager
  <2>1. /\ UNCHANGED <<pending, trigger, closing, stopper, sets, fresh, prompt>>
        /\ initCount' = initCount \/ (initCount < MaxClients /\ initCount' = initCount + 1)
        /\ UNCHANGED <<pc, cancelled, sessions>>
             \/ (pc' = "top" /\ cancelled' = FALSE /\ sessions < MaxSessions
                 /\ sessions' = sessions + 1)
    BY <1>3 DEF InitManager, StartManager, devVars, threadVars, boundVars
  <2>2. initCount' <= MaxClients /\ sessions' \in 0 .. MaxSessions
    BY <1>0, <2>1 DEF AlarmTypes
  <2>. QED BY <2>1, <2>2 DEF AlarmTypes
<1>4. CASE StopManager \/ DeinitManager
  <2>1. /\ UNCHANGED <<trigger, pc, cancelled, sets, sessions, prompt>>
        /\ pending' \in {pending, FALSE} /\ fresh' \in {fresh, FALSE}
        /\ closing' \in {closing, TRUE} /\ stopper' \in {stopper, "set"}
        /\ initCount' = initCount \/ initCount' = initCount - 1
    BY <1>4 DEF StopManager, DeinitManager, StopBody, CloseDev, devVars, threadVars, boundVars
  <2>2. initCount' <= MaxClients
    BY <1>0, <2>1 DEF AlarmTypes
  <2>. QED BY <2>1, <2>2 DEF AlarmTypes
<1>5. CASE StopCancels \/ StopJoins
  BY <1>5 DEF StopCancels, StopJoins, CloseDev, AlarmTypes, devVars, countVars, boundVars
<1>. QED BY <1>1, <1>2, <1>3, <1>4, <1>5

(* Every variable of the alarm manager keeps its type.                     *)
THEOREM AlarmTypesAlways == Spec => []TypeOK
<1>1. Init => DevIInv
  BY DEF Init, DevIInv, Counts, ThreadRuns, StopUnderWay, ClosingStops
<1>2. Init => ListInv
  BY AlarmAssumption DEF Init, ListInv, NoAlarmForgotten, Sorted, Time
<1>3. Init => AlarmTypes
  <2> SUFFICES ASSUME Init PROVE AlarmTypes
    OBVIOUS
  <2>1. trigger \in Seq(AlarmRec) /\ pc = "off"
    BY DEF Init
  <2>2. initCount <= MaxClients /\ sets \in 0 .. MaxSets /\ sessions \in 0 .. MaxSessions
    BY AlarmAssumption DEF Init
  <2>. QED BY <2>1, <2>2 DEF Init, AlarmTypes
<1>4. DevIInv /\ ListInv /\ AlarmTypes /\ [Next]_vars => AlarmTypes'
  <2>1. ASSUME AlarmTypes, UNCHANGED vars PROVE AlarmTypes'
    BY <2>1 DEF AlarmTypes, vars, devVars, threadVars, countVars, boundVars
  <2>. QED BY <2>1, ThreadLoopTypes, CallTypes DEF Next
<1>5. DevIInv /\ ListInv /\ AlarmTypes => TypeOK
  <2>1. DevIInv /\ AlarmTypes => initCount \in 0 .. MaxClients /\ startCount \in 0 .. MaxClients
    BY AlarmAssumption DEF DevIInv, Counts, AlarmTypes
  <2>. QED BY <2>1 DEF ListInv, AlarmTypes, TypeOK
<1>. QED BY <1>1, <1>2, <1>3, <1>4, <1>5, StepDevice, StepList, PTL DEF Spec
=============================================================================
