--------------------------- MODULE RefClockProofs ---------------------------
(***************************************************************************)
(* That the schedule of CBaseReferenceClock stays ordered and that its     *)
(* advise thread never waits past the first request (ScheduleHolds of      *)
(* RefClock), for every number of requests and corrections, every range of *)
(* times and every cycle of the timer.                                     *)
(***************************************************************************)
EXTENDS RefClock, SequenceTheorems, WellFoundedInduction, TLAPS

-----------------------------------------------------------------------------
(* The inductive invariant.                                                *)

ClockTypes ==
  /\ now \in Nat /\ m_dwPrevSystemTime \in 0..(Cycle - 1)
  /\ m_rtPrivateTime \in Int /\ m_rtLastGotTime \in Int
  /\ rtNow \in Int /\ wakeAt \in Nat \union {Forever} /\ slack \in Nat
  /\ pc \in {"wait", "woken", "timed", "advise", "done"}
  /\ owner \in {"alive", "deleting", "deleted"} /\ deltas \in 0..MaxDeltas

Flags == m_ev \in BOOLEAN /\ m_bAbort \in BOOLEAN

ScheduleTypes ==
  /\ list \in Seq(Packet) /\ m_dwAdviseCount = Len(list)
  /\ m_dwNextCookie \in 0..MaxAdvises /\ m_dwCacheCount \in 0..dwCacheMax

Ordered(s) ==
  \A i, j \in 1..Len(s) : i < j => s[i].time <= s[j].time /\ s[i].cookie # s[j].cookie

\* Cookies are given out in order, so the next one is new.
CookiesGiven(s) == \A i \in 1..Len(s) : s[i].cookie <= m_dwNextCookie

ListInv == ScheduleTypes /\ Ordered(list) /\ CookiesGiven(list)

\* What the thread is about to wait by is not older than the slack allows, unless it will be woken at once.
ReadingHolds ==
  pc \in {"timed", "advise"} /\ ~m_ev /\ list # <<>> => PrivateTime <= rtNow + slack

IInv == ClockTypes /\ Flags /\ ListInv /\ ReadingHolds /\ NeverOversleeps

-----------------------------------------------------------------------------
(* The timer.                                                              *)

LEMMA RemainderUnique ==
  ASSUME NEW n \in Nat \ {0}, NEW p \in Int, NEW q \in Int, NEW r \in 0..(n - 1), NEW s \in 0..(n - 1),
         n * p + r = n * q + s
  PROVE  r = s
<1>1. n * (p - q) = s - r
  OBVIOUS
<1>2. p - q >= 1 => n * (p - q) >= n
  OBVIOUS
<1>3. p - q <= -1 => n * (p - q) <= -n
  OBVIOUS
<1>. QED  BY <1>1, <1>2, <1>3

LEMMA Remainder ==
  ASSUME NEW n \in Nat \ {0}, NEW a \in Int
  PROVE  a % n \in 0..(n - 1) /\ a \div n \in Int /\ a = n * (a \div n) + (a % n)
OBVIOUS

LEMMA RemainderIs ==
  ASSUME NEW n \in Nat \ {0}, NEW a \in Int, NEW q \in Int, NEW r \in 0..(n - 1), a = n * q + r
  PROVE  a % n = r
BY Remainder, RemainderUnique

\* What the timer shows a millisecond later.
LEMMA RemainderNext ==
  ASSUME NEW n \in Nat \ {0}, NEW a \in Int
  PROVE  (a + 1) % n = IF a % n = n - 1 THEN 0 ELSE (a % n) + 1
<1>1. a % n \in 0..(n - 1) /\ a \div n \in Int /\ a = n * (a \div n) + (a % n)
  BY Remainder
<1>2. CASE a % n = n - 1
  <2>1. PICK q, r, b : b = a + 1 /\ r = 0 /\ q = (a \div n) + 1
    OBVIOUS
  <2>2. q \in Int /\ r \in 0..(n - 1) /\ b \in Int /\ b = n * q + r
    BY <1>1, <1>2, <2>1
  <2>3. b % n = r
    BY <2>2, RemainderIs
  <2>. QED  BY <1>2, <2>1, <2>3
<1>3. CASE a % n # n - 1
  <2>1. PICK q, r, b : b = a + 1 /\ r = (a % n) + 1 /\ q = a \div n
    OBVIOUS
  <2>2. q \in Int /\ r \in 0..(n - 1) /\ b \in Int /\ b = n * q + r
    BY <1>1, <1>3, <2>1
  <2>3. b % n = r
    BY <2>2, RemainderIs
  <2>. QED  BY <1>3, <2>1, <2>3
<1>. QED  BY <1>2, <1>3

LEMMA RemainderOfDifference ==
  ASSUME NEW n \in Nat \ {0}, NEW a \in 0..(n - 1), NEW p \in 0..(n - 1)
  PROVE  (a - p) % n = IF a >= p THEN a - p ELSE a - p + n
<1>1. a - p \in Int /\ 0 \in Int /\ -1 \in Int
  OBVIOUS
<1>2. CASE a >= p
  <2>1. a - p = n * 0 + (a - p) /\ a - p \in 0..(n - 1)
    BY <1>2
  <2>. QED  BY <1>1, <1>2, <2>1, RemainderIs
<1>3. CASE ~(a >= p)
  <2>1. a - p = n * (-1) + (a - p + n) /\ a - p + n \in 0..(n - 1)
    BY <1>3
  <2>. QED  BY <1>1, <1>3, <2>1, RemainderIs
<1>. QED  BY <1>2, <1>3

\* In a millisecond the private time goes on by at most one, also where the timer wraps and where the
\* difference changes its sign.
LEMMA PrivateTimeTicks ==
  ASSUME ClockTypes, now' = now + 1, UNCHANGED clockVars
  PROVE  PrivateTime \in Int /\ PrivateTime' \in Int /\ PrivateTime' <= PrivateTime + 2
<1>1. /\ Cycle \in Nat \ {0} /\ now \in Int /\ now + 1 \in Int /\ m_dwPrevSystemTime \in 0..(Cycle - 1)
      /\ m_rtPrivateTime \in Int /\ now % Cycle \in 0..(Cycle - 1) /\ (now + 1) % Cycle \in 0..(Cycle - 1)
  BY ConstantsAssumption, Remainder DEF ClockTypes
<1>2. (now + 1) % Cycle = IF now % Cycle = Cycle - 1 THEN 0 ELSE (now % Cycle) + 1
  BY <1>1, RemainderNext
<1>3. PICK d, e : /\ d = ((now % Cycle) - m_dwPrevSystemTime) % Cycle
                  /\ e = (((now + 1) % Cycle) - m_dwPrevSystemTime) % Cycle
  OBVIOUS
<1>4. /\ d = IF now % Cycle >= m_dwPrevSystemTime THEN (now % Cycle) - m_dwPrevSystemTime
              ELSE (now % Cycle) - m_dwPrevSystemTime + Cycle
      /\ e = IF (now + 1) % Cycle >= m_dwPrevSystemTime THEN ((now + 1) % Cycle) - m_dwPrevSystemTime
              ELSE ((now + 1) % Cycle) - m_dwPrevSystemTime + Cycle
  BY <1>1, <1>3, RemainderOfDifference
<1>5. d \in 0..(Cycle - 1) /\ e = IF d = Cycle - 1 THEN 0 ELSE d + 1
  BY <1>1, <1>2, <1>4
<1>6. /\ Elapsed = IF 2 * d >= Cycle THEN d - Cycle ELSE d
      /\ Elapsed' = IF 2 * e >= Cycle THEN e - Cycle ELSE e
  BY <1>3 DEF Elapsed, timeGetTime, clockVars
<1>. HIDE DEF Elapsed
<1>7. Elapsed \in Int /\ Elapsed' \in Int /\ Elapsed' <= Elapsed + 1
  BY <1>1, <1>5, <1>6
<1>8. PICK x \in Int, u \in Int, v \in Int : x = m_rtPrivateTime /\ u = Elapsed /\ v = Elapsed'
  BY <1>1, <1>7
<1>9. PrivateTime = x + 2 * u /\ PrivateTime' = x + 2 * v
  BY <1>8 DEF PrivateTime, clockVars
<1>10. v <= u + 1
  BY <1>7, <1>8
<1>. QED  BY <1>9, <1>10

\* Reading the time does not change it.
LEMMA PrivateTimeRead ==
  ASSUME ClockTypes
  PROVE  /\ PrivateTime \in Int /\ timeGetTime \in 0..(Cycle - 1)
         /\ GetPrivateTime /\ now' = now => PrivateTime' = PrivateTime
<1>1. /\ Cycle \in Nat \ {0} /\ now \in Int /\ m_dwPrevSystemTime \in 0..(Cycle - 1)
      /\ m_rtPrivateTime \in Int /\ timeGetTime \in 0..(Cycle - 1)
  BY ConstantsAssumption, Remainder DEF ClockTypes, timeGetTime
<1>2. PICK d : d = (timeGetTime - m_dwPrevSystemTime) % Cycle
  OBVIOUS
<1>3. d \in Int
  BY <1>1, <1>2, Remainder
<1>4. PrivateTime = m_rtPrivateTime + 2 * (IF 2 * d >= Cycle THEN d - Cycle ELSE d)
  BY <1>2 DEF PrivateTime, Elapsed
<1>5. PrivateTime \in Int
  BY <1>1, <1>3, <1>4
<1>6. ASSUME GetPrivateTime, now' = now PROVE PrivateTime' = PrivateTime
  <2>1. m_rtPrivateTime' = PrivateTime /\ m_dwPrevSystemTime' = timeGetTime /\ timeGetTime' = timeGetTime
    BY <1>6 DEF GetPrivateTime, timeGetTime
  <2>2. (timeGetTime - timeGetTime) % Cycle = 0
    BY <1>1, RemainderOfDifference
  <2>3. Elapsed' = 0
    BY <1>1, <2>1, <2>2 DEF Elapsed
  <2>. QED  BY <1>5, <2>1, <2>3 DEF PrivateTime
<1>. QED  BY <1>1, <1>5, <1>6

-----------------------------------------------------------------------------
(* The schedule's list.                                                    *)

LEMMA LeastNumber ==
  ASSUME NEW T \in SUBSET Nat, T # {} PROVE \E i \in T : \A j \in T : i <= j
<1> DEFINE R == OpToRel(<, Nat)
<1>1. IsWellFoundedOn(R, Nat)
  BY NatLessThanWellFounded
<1>2. \A i, j \in Nat : <<j, i>> \in R <=> j < i
  BY DEF OpToRel
<1>. HIDE DEF R
<1>3. \E i \in T : \A j \in T : ~(<<j, i>> \in R)
  BY <1>1, WFMin
<1>4. PICK i \in T : \A j \in T : ~(<<j, i>> \in R)
  BY <1>3
<1>5. \A j \in T : ~(j < i)
  BY <1>2, <1>4
<1>. QED  BY <1>5

\* The walk down the list ends before a packet that is not earlier, or at the end; for ShuntHead, not later.
LEMMA PlaceFound ==
  ASSUME NEW s \in Seq(Packet), NEW time \in Int
  PROVE  /\ \E k \in 0..Len(s) : (k = Len(s) \/ s[k + 1].time >= time) /\ \A j \in 1..k : s[j].time < time
         /\ \E k \in 0..Len(s) : (k = Len(s) \/ s[k + 1].time > time) /\ \A j \in 1..k : s[j].time <= time
<1>1. Len(s) \in Nat /\ \A i \in 1..Len(s) : s[i] \in Packet
  OBVIOUS
<1>2. \A i \in 1..Len(s) : s[i].time \in Int
  BY <1>1 DEF Packet
<1>3. PICK T : T = {i \in 0..Len(s) : i = Len(s) \/ s[i + 1].time >= time}
  OBVIOUS
<1>4. PICK U : U = {i \in 0..Len(s) : i = Len(s) \/ s[i + 1].time > time}
  OBVIOUS
<1>5. T \in SUBSET Nat /\ T # {} /\ U \in SUBSET Nat /\ U # {}
  BY <1>1, <1>3, <1>4
<1>6. PICK k \in T : \A j \in T : k <= j
  BY <1>5, LeastNumber
<1>7. PICK l \in U : \A j \in U : l <= j
  BY <1>5, LeastNumber
<1>8. k \in 0..Len(s) /\ (k = Len(s) \/ s[k + 1].time >= time) /\ \A j \in 1..k : s[j].time < time
  <2>1. k \in 0..Len(s) /\ (k = Len(s) \/ s[k + 1].time >= time)
    BY <1>3, <1>6
  <2>2. ASSUME NEW j \in 1..k PROVE s[j].time < time
    <3>1. j - 1 \in 0..Len(s) /\ j - 1 # Len(s) /\ ~(k <= j - 1) /\ j \in 1..Len(s) /\ (j - 1) + 1 = j
      BY <1>1, <2>1
    <3>2. ~(s[j].time >= time)
      BY <1>3, <1>6, <3>1
    <3>. QED  BY <1>2, <3>1, <3>2
  <2>. QED  BY <2>1, <2>2
<1>9. l \in 0..Len(s) /\ (l = Len(s) \/ s[l + 1].time > time) /\ \A j \in 1..l : s[j].time <= time
  <2>1. l \in 0..Len(s) /\ (l = Len(s) \/ s[l + 1].time > time)
    BY <1>4, <1>7
  <2>2. ASSUME NEW j \in 1..l PROVE s[j].time <= time
    <3>1. j - 1 \in 0..Len(s) /\ j - 1 # Len(s) /\ ~(l <= j - 1) /\ j \in 1..Len(s) /\ (j - 1) + 1 = j
      BY <1>1, <2>1
    <3>2. ~(s[j].time > time)
      BY <1>4, <1>7, <3>1
    <3>. QED  BY <1>2, <3>1, <3>2
  <2>. QED  BY <2>1, <2>2
<1>. QED  BY <1>8, <1>9

\* The parts of t: those of s with p after the first k.
Placed(t, s, p, k) ==
  /\ Len(t) = Len(s) + 1
  /\ \A i \in 1..k : t[i] = s[i]
  /\ t[k + 1] = p
  /\ \A i \in (k + 1)..Len(s) : t[i + 1] = s[i]

LEMMA Joined ==
  ASSUME NEW a \in Seq(Packet), NEW b \in Seq(Packet)
  PROVE  /\ a \o b \in Seq(Packet) /\ Len(a \o b) = Len(a) + Len(b) /\ Len(a) \in Nat /\ Len(b) \in Nat
         /\ \A i \in 1..Len(a) : (a \o b)[i] = a[i]
         /\ \A i \in 1..Len(b) : (a \o b)[Len(a) + i] = b[i]
OBVIOUS

LEMMA PlacedIs ==
  ASSUME NEW s \in Seq(Packet), NEW p \in Packet, NEW k \in 0..Len(s)
  PROVE  LET t == SubSeq(s, 1, k) \o <<p>> \o SubSeq(s, k + 1, Len(s))
         IN  t \in Seq(Packet) /\ Placed(t, s, p, k)
<1>1. Len(s) \in Nat /\ \A i \in 1..Len(s) : s[i] \in Packet
  OBVIOUS
<1>4. PICK a, b : a = SubSeq(s, 1, k) /\ b = SubSeq(s, k + 1, Len(s))
  OBVIOUS
<1>5. /\ a \in Seq(Packet) /\ Len(a) = k /\ \A i \in 1..k : a[i] = s[i]
      /\ b \in Seq(Packet) /\ Len(b) = Len(s) - k /\ \A i \in 1..(Len(s) - k) : b[i] = s[k + i]
  BY <1>1, <1>4
<1>6. PICK c : c = a \o <<p>>
  OBVIOUS
<1>7. c \in Seq(Packet) /\ Len(c) = k + 1 /\ (\A i \in 1..k : c[i] = s[i]) /\ c[k + 1] = p
  <2>1. PICK one : one = <<p>>
    OBVIOUS
  <2>2. one \in Seq(Packet) /\ Len(one) = 1 /\ one[1] = p
    BY <2>1
  <2>3. c = a \o one
    BY <1>6, <2>1
  <2>4. a \in Seq(Packet) /\ Len(a) = k
    BY <1>5
  <2>5. /\ c \in Seq(Packet) /\ Len(c) = Len(a) + Len(one) /\ \A i \in 1..Len(a) : c[i] = a[i]
        /\ \A i \in 1..Len(one) : c[Len(a) + i] = one[i]
    BY <2>2, <2>3, <2>4, Joined
  <2>6. c \in Seq(Packet) /\ Len(c) = k + 1 /\ (\A i \in 1..k : c[i] = a[i]) /\ c[k + 1] = p
    <3>1. 1 \in 1..Len(one)
      BY <2>2
    <3>. QED  BY <2>2, <2>4, <2>5, <3>1
  <2>. QED  BY <1>5, <2>6
<1>8. PICK t : t = c \o b
  OBVIOUS
<1>9. /\ t \in Seq(Packet) /\ Len(t) = Len(s) + 1
      /\ \A i \in 1..(k + 1) : t[i] = c[i]
      /\ \A i \in 1..(Len(s) - k) : t[(k + 1) + i] = b[i]
  BY <1>1, <1>5, <1>7, <1>8
<1>10. ASSUME NEW i \in (k + 1)..Len(s) PROVE t[i + 1] = s[i]
  <2>1. PICK m : m = i - k
    OBVIOUS
  <2>2. m \in 1..(Len(s) - k) /\ (k + 1) + m = i + 1 /\ k + m = i
    BY <1>1, <2>1
  <2>. QED  BY <1>5, <1>9, <2>2
<1>11. (\A i \in 1..k : t[i] = s[i]) /\ t[k + 1] = p
  <2>1. k + 1 \in 1..(k + 1) /\ \A i \in 1..k : i \in 1..(k + 1)
    BY <1>1
  <2>. QED  BY <1>7, <1>9, <2>1
<1>. QED  BY <1>4, <1>6, <1>8, <1>9, <1>10, <1>11 DEF Placed

\* A new packet at its place keeps the order.
LEMMA PlacedInOrder ==
  ASSUME NEW s \in Seq(Packet), Ordered(s), NEW p \in Packet, \A i \in 1..Len(s) : s[i].cookie # p.cookie,
         NEW k \in 0..Len(s), k = Len(s) \/ s[k + 1].time >= p.time, \A j \in 1..k : s[j].time <= p.time,
         NEW t \in Seq(Packet), Placed(t, s, p, k)
  PROVE  Ordered(t)
<1>1. Len(s) \in Nat /\ k \in Nat /\ k <= Len(s) /\ Len(t) = Len(s) + 1
  BY DEF Placed
<1>2. \A i \in 1..Len(s) : s[i].time \in Int /\ s[i].cookie \in Int
  <2>1. \A i \in 1..Len(s) : s[i] \in Packet
    OBVIOUS
  <2>. QED  BY <2>1, ConstantsAssumption DEF Packet
<1>3. p.time \in Int
  BY DEF Packet
<1>4. \A i \in 1..Len(t) : i \in 1..k \/ i = k + 1 \/ (i - 1 \in (k + 1)..Len(s) /\ (i - 1) + 1 = i)
  BY <1>1
<1>5. \A i \in 1..Len(t) : i - 1 \in (k + 1)..Len(s) /\ (i - 1) + 1 = i => t[i] = s[i - 1] /\ i - 1 \in 1..Len(s)
  BY <1>1 DEF Placed
<1>6. \A m \in (k + 1)..Len(s) : p.time <= s[m].time
  <2>1. ASSUME NEW m \in (k + 1)..Len(s) PROVE p.time <= s[m].time
    <3>1. m \in 1..Len(s) /\ k + 1 \in 1..Len(s) /\ (k + 1 = m \/ k + 1 < m) /\ k # Len(s)
      BY <1>1
    <3>2. s[k + 1].time <= s[m].time
      BY <1>2, <3>1 DEF Ordered
    <3>. QED  BY <1>2, <1>3, <3>1, <3>2
  <2>. QED  BY <2>1
<1>7. ASSUME NEW i \in 1..Len(t), NEW j \in 1..Len(t), i < j
      PROVE  t[i].time <= t[j].time /\ t[i].cookie # t[j].cookie
  <2>1. CASE i \in 1..k /\ j \in 1..k
    <3>1. i \in 1..Len(s) /\ j \in 1..Len(s) /\ t[i] = s[i] /\ t[j] = s[j]
      BY <1>1, <2>1 DEF Placed
    <3>. QED  BY <1>7, <3>1 DEF Ordered
  <2>2. CASE i \in 1..k /\ j = k + 1
    <3>1. i \in 1..Len(s) /\ t[i] = s[i] /\ t[j] = p
      BY <1>1, <2>2 DEF Placed
    <3>. QED  BY <2>2, <3>1
  <2>3. CASE i \in 1..k /\ j - 1 \in (k + 1)..Len(s)
    <3>1. i \in 1..Len(s) /\ t[i] = s[i]
      BY <1>1, <2>3 DEF Placed
    <3>2. t[j] = s[j - 1] /\ j - 1 \in 1..Len(s)
      BY <1>1, <1>4, <1>5, <2>3
    <3>3. i < j - 1
      BY <1>1, <2>3
    <3>. QED  BY <3>1, <3>2, <3>3 DEF Ordered
  <2>4. CASE i = k + 1 /\ j - 1 \in (k + 1)..Len(s)
    <3>1. t[i] = p /\ t[j] = s[j - 1] /\ j - 1 \in 1..Len(s)
      BY <1>1, <1>4, <1>5, <2>4 DEF Placed
    <3>. QED  BY <1>6, <2>4, <3>1
  <2>5. CASE i - 1 \in (k + 1)..Len(s) /\ j - 1 \in (k + 1)..Len(s)
    <3>1. t[i] = s[i - 1] /\ i - 1 \in 1..Len(s) /\ t[j] = s[j - 1] /\ j - 1 \in 1..Len(s)
      BY <1>1, <1>4, <1>5, <2>5
    <3>2. i - 1 < j - 1
      BY <1>7
    <3>. QED  BY <3>1, <3>2 DEF Ordered
  <2>6. \/ i \in 1..k /\ j \in 1..k
        \/ i \in 1..k /\ j = k + 1
        \/ i \in 1..k /\ j - 1 \in (k + 1)..Len(s)
        \/ i = k + 1 /\ j - 1 \in (k + 1)..Len(s)
        \/ i - 1 \in (k + 1)..Len(s) /\ j - 1 \in (k + 1)..Len(s)
    BY <1>1, <1>7
  <2>. QED  BY <2>1, <2>2, <2>3, <2>4, <2>5, <2>6
<1>. QED  BY <1>7 DEF Ordered

\* Inserted puts a packet with a new cookie at its place.
LEMMA InsertedInOrder ==
  ASSUME NEW s \in Seq(Packet), Ordered(s), NEW p \in Packet, \A i \in 1..Len(s) : s[i].cookie # p.cookie
  PROVE  /\ Inserted(s, p) \in Seq(Packet) /\ Ordered(Inserted(s, p))
         /\ \E k \in 0..Len(s) : Placed(Inserted(s, p), s, p, k)
<1>1. p.time \in Int
  BY DEF Packet
<1> DEFINE place(i) == /\ i = Len(s) \/ s[i + 1].time >= p.time
                       /\ \A j \in 1..i : s[j].time < p.time
           k == CHOOSE i \in 0..Len(s) : place(i)
<1>2. k \in 0..Len(s) /\ place(k)
  <2>1. \E i \in 0..Len(s) : place(i)
    BY <1>1, PlaceFound
  <2>. QED  BY <2>1
<1>3. Inserted(s, p) = SubSeq(s, 1, k) \o <<p>> \o SubSeq(s, k + 1, Len(s))
  BY DEF Inserted
<1>. HIDE DEF k
<1>4. Inserted(s, p) \in Seq(Packet) /\ Placed(Inserted(s, p), s, p, k)
  BY <1>2, <1>3, PlacedIs
<1>5. \A j \in 1..k : s[j].time <= p.time
  <2>1. \A j \in 1..k : j \in 1..Len(s) /\ s[j] \in Packet
    BY <1>2
  <2>2. \A j \in 1..k : s[j].time \in Int
    BY <2>1 DEF Packet
  <2>. QED  BY <1>1, <1>2, <2>2
<1>6. PICK t \in Seq(Packet) : t = Inserted(s, p)
  BY <1>4
<1>7. Ordered(t)
  BY <1>2, <1>4, <1>5, <1>6, PlacedInOrder
<1>. QED  BY <1>2, <1>4, <1>6, <1>7

\* A list without its first packet.
LEMMA TailInOrder ==
  ASSUME NEW s \in Seq(Packet), s # <<>>, Ordered(s)
  PROVE  /\ Tail(s) \in Seq(Packet) /\ Len(Tail(s)) = Len(s) - 1 /\ Ordered(Tail(s))
         /\ Head(s) = s[1] /\ Head(s) \in Packet /\ Len(s) \in Nat \ {0}
         /\ \A i \in 1..Len(Tail(s)) : /\ Tail(s)[i] = s[i + 1] /\ i + 1 \in 1..Len(s)
                                      /\ Tail(s)[i].cookie # Head(s).cookie
<1>1. /\ Len(s) \in Nat \ {0} /\ Tail(s) \in Seq(Packet) /\ Len(Tail(s)) = Len(s) - 1
      /\ \A i \in 1..(Len(s) - 1) : Tail(s)[i] = s[i + 1] /\ i + 1 \in 1..Len(s) /\ 1 < i + 1
      /\ Head(s) = s[1] /\ 1 \in 1..Len(s) /\ s[1] \in Packet
  OBVIOUS
<1>2. \A i, j \in 1..(Len(s) - 1) : i < j => i + 1 < j + 1
  BY <1>1
<1>. QED  BY <1>1, <1>2 DEF Ordered

\* ShuntHead moves the first packet, with a later time, to its place.
LEMMA ShuntedInOrder ==
  ASSUME NEW s \in Seq(Packet), s # <<>>, Ordered(s), NEW time \in Int
  PROVE  /\ ShuntHead(s, time) \in Seq(Packet) /\ Ordered(ShuntHead(s, time)) /\ Len(ShuntHead(s, time)) = Len(s)
         /\ \A c : (\A i \in 1..Len(s) : s[i].cookie <= c)
                   => \A i \in 1..Len(s) : ShuntHead(s, time)[i].cookie <= c
<1>1. PICK r \in Seq(Packet) : r = Tail(s)
  BY TailInOrder
<1>2. PICK p : p = [Head(s) EXCEPT !.time = time]
  OBVIOUS
<1>3. /\ Ordered(r) /\ Len(r) = Len(s) - 1 /\ Len(s) \in Nat \ {0} /\ Head(s) \in Packet /\ Head(s) = s[1]
      /\ \A i \in 1..Len(r) : r[i] = s[i + 1] /\ i + 1 \in 1..Len(s) /\ r[i].cookie # Head(s).cookie
  BY <1>1, TailInOrder
<1>4. p \in Packet /\ p.cookie = s[1].cookie /\ p.time = time
  BY <1>2, <1>3 DEF Packet
<1>5. \A i \in 1..Len(r) : r[i].cookie # p.cookie
  BY <1>3, <1>4
<1> DEFINE place(i) == /\ i = Len(r) \/ r[i + 1].time > time
                       /\ \A j \in 1..i : r[j].time <= time
           k == CHOOSE i \in 0..Len(r) : place(i)
<1>6. k \in 0..Len(r) /\ place(k)
  <2>1. \E i \in 0..Len(r) : place(i)
    BY PlaceFound
  <2>. QED  BY <2>1
<1>7. ShuntHead(s, time) = SubSeq(r, 1, k) \o <<p>> \o SubSeq(r, k + 1, Len(r))
  BY <1>1, <1>2 DEF ShuntHead
<1>. HIDE DEF k
<1>8. PICK t : t = ShuntHead(s, time)
  OBVIOUS
<1>9. t \in Seq(Packet) /\ Placed(t, r, p, k)
  BY <1>4, <1>6, <1>7, <1>8, PlacedIs
<1>10. k = Len(r) \/ r[k + 1].time >= p.time
  <2>1. k # Len(r) => k + 1 \in 1..Len(r) /\ r[k + 1] \in Packet
    BY <1>6
  <2>2. k # Len(r) => r[k + 1].time \in Int
    BY <2>1 DEF Packet
  <2>. QED  BY <1>4, <1>6, <2>2
<1>11. Ordered(t)
  BY <1>3, <1>4, <1>5, <1>6, <1>9, <1>10, PlacedInOrder
<1>12. Len(t) = Len(s)
  BY <1>3, <1>9 DEF Placed
<1>13. ASSUME NEW c, \A i \in 1..Len(s) : s[i].cookie <= c, NEW i \in 1..Len(s) PROVE t[i].cookie <= c
  <2>0. 1 \in 1..Len(s) /\ k \in Nat /\ Len(r) = Len(s) - 1
    BY <1>3, <1>6
  <2>1. CASE i \in 1..k
    <3>1. i \in 1..Len(r) /\ t[i] = r[i]
      BY <1>3, <1>6, <1>9, <2>1 DEF Placed
    <3>. QED  BY <1>3, <1>13, <3>1
  <2>2. CASE i = k + 1
    BY <1>4, <1>9, <1>13, <2>0, <2>2 DEF Placed
  <2>3. CASE i - 1 \in (k + 1)..Len(r) /\ (i - 1) + 1 = i
    <3>1. i - 1 \in 1..Len(r) /\ t[i] = r[i - 1]
      BY <1>9, <2>0, <2>3 DEF Placed
    <3>. QED  BY <1>3, <1>13, <3>1
  <2>. QED  BY <1>3, <2>0, <2>1, <2>2, <2>3
<1>. QED  BY <1>8, <1>9, <1>11, <1>12, <1>13

\* Unadvise takes a packet out.
LEMMA RemovedInOrder ==
  ASSUME NEW s \in Seq(Packet), Ordered(s), NEW k \in 1..Len(s), NEW c \in Int, \A i \in 1..Len(s) : s[i].cookie <= c
  PROVE  LET t == SubSeq(s, 1, k - 1) \o SubSeq(s, k + 1, Len(s))
         IN  /\ t \in Seq(Packet) /\ Ordered(t) /\ Len(t) = Len(s) - 1
             /\ \A i \in 1..Len(t) : t[i].cookie <= c
             /\ t # <<>> => s[1].time <= t[1].time
<1>1. Len(s) \in Nat /\ k - 1 \in 0..Len(s)
  OBVIOUS
<1>2. PICK a, b : a = SubSeq(s, 1, k - 1) /\ b = SubSeq(s, k + 1, Len(s))
  OBVIOUS
<1>3. /\ a \in Seq(Packet) /\ Len(a) = k - 1 /\ \A i \in 1..(k - 1) : a[i] = s[i]
      /\ b \in Seq(Packet) /\ Len(b) = Len(s) - k /\ \A i \in 1..(Len(s) - k) : b[i] = s[k + i]
  BY <1>1, <1>2
<1>4. PICK t : t = a \o b
  OBVIOUS
<1>5. /\ t \in Seq(Packet) /\ Len(t) = Len(s) - 1
      /\ \A i \in 1..(k - 1) : t[i] = a[i]
      /\ \A i \in 1..(Len(s) - k) : t[(k - 1) + i] = b[i]
  BY <1>1, <1>3, <1>4
<1>6. ASSUME NEW i \in 1..Len(t) PROVE \E m \in 1..Len(s) : t[i] = s[m] /\ m = IF i < k THEN i ELSE i + 1
  <2>1. CASE i < k
    BY <1>1, <1>3, <1>5, <2>1
  <2>2. CASE i >= k
    <3>1. PICK m : m = i - k + 1
      OBVIOUS
    <3>2. m \in 1..(Len(s) - k) /\ (k - 1) + m = i /\ k + m = i + 1 /\ i + 1 \in 1..Len(s) /\ ~(i < k)
      BY <1>1, <1>5, <2>2, <3>1
    <3>. QED  BY <1>3, <1>5, <3>2
  <2>. QED  BY <2>1, <2>2
<1>7. ASSUME NEW i \in 1..Len(t), NEW j \in 1..Len(t), i < j
      PROVE  t[i].time <= t[j].time /\ t[i].cookie # t[j].cookie
  <2>1. PICK m \in 1..Len(s) : t[i] = s[m] /\ m = IF i < k THEN i ELSE i + 1
    BY <1>6
  <2>2. PICK n \in 1..Len(s) : t[j] = s[n] /\ n = IF j < k THEN j ELSE j + 1
    BY <1>6
  <2>3. m < n
    BY <1>7, <2>1, <2>2
  <2>. QED  BY <2>1, <2>2, <2>3 DEF Ordered
<1>8. \A i \in 1..Len(t) : t[i].cookie <= c
  BY <1>6
<1>9. ASSUME t # <<>> PROVE s[1].time <= t[1].time
  <2>1. 1 \in 1..Len(t) /\ 1 \in 1..Len(s)
    BY <1>1, <1>5, <1>9
  <2>2. PICK m \in 1..Len(s) : t[1] = s[m]
    BY <1>6, <2>1
  <2>3. s[1] \in Packet /\ (m = 1 \/ 1 < m)
    BY <2>1, <2>2
  <2>4. s[1].time \in Int
    BY <2>3 DEF Packet
  <2>. QED  BY <2>1, <2>2, <2>3, <2>4 DEF Ordered
<1>. QED  BY <1>2, <1>4, <1>5, <1>7, <1>8, <1>9 DEF Ordered

-----------------------------------------------------------------------------
(* The steps.                                                              *)

\* What a client asks for: a packet behind the first, or the event is set.
LEMMA PacketAdded ==
  ASSUME ListInv, NEW time \in Int, NEW period \in Int, m_dwNextCookie < MaxAdvises, AddAdvisePacket(time, period)
  PROVE  /\ ListInv'
         /\ ~m_ev' => ~m_ev /\ list # <<>> /\ Head(list') = Head(list)
<1>1. /\ list \in Seq(Packet) /\ m_dwAdviseCount = Len(list) /\ m_dwNextCookie \in 0..MaxAdvises
      /\ m_dwCacheCount \in 0..dwCacheMax /\ MaxAdvises \in Nat /\ dwCacheMax \in Nat /\ Len(list) \in Nat
  BY ConstantsAssumption DEF ListInv, ScheduleTypes
<1>2. PICK p : p = [cookie |-> m_dwNextCookie + 1, time |-> time, period |-> period]
  OBVIOUS
<1>3. p \in Packet /\ p.cookie = m_dwNextCookie + 1
  BY <1>1, <1>2 DEF Packet
<1>4. /\ m_dwNextCookie' = m_dwNextCookie + 1 /\ list' = Inserted(list, p) /\ m_dwAdviseCount' = m_dwAdviseCount + 1
      /\ m_dwCacheCount' = IF m_dwCacheCount > 0 THEN m_dwCacheCount - 1 ELSE 0
  BY <1>2 DEF AddAdvisePacket
<1>5. \A i \in 1..Len(list) : list[i].cookie # p.cookie /\ list[i].cookie <= m_dwNextCookie'
  <2>1. \A i \in 1..Len(list) : list[i] \in Packet
    BY <1>1
  <2>2. \A i \in 1..Len(list) : list[i].cookie \in Int /\ list[i].cookie <= m_dwNextCookie
    BY <1>1, <2>1 DEF Packet, ListInv, CookiesGiven
  <2>. QED  BY <1>1, <1>3, <1>4, <2>2
<1>6. PICK k \in 0..Len(list) : Placed(list', list, p, k)
  BY <1>1, <1>3, <1>4, <1>5, InsertedInOrder DEF ListInv
<1>7. list' \in Seq(Packet) /\ Ordered(list') /\ Len(list') = Len(list) + 1
  BY <1>1, <1>3, <1>4, <1>5, <1>6, InsertedInOrder DEF ListInv, Placed
<1>8. ScheduleTypes'
  BY <1>1, <1>4, <1>7 DEF ScheduleTypes
<1>9. ASSUME NEW i \in 1..Len(list') PROVE list'[i].cookie <= m_dwNextCookie'
  <2>1. CASE i \in 1..k
    <3>1. i \in 1..Len(list) /\ list'[i] = list[i]
      BY <1>1, <1>6, <2>1 DEF Placed
    <3>. QED  BY <1>5, <3>1
  <2>2. CASE i = k + 1
    BY <1>1, <1>3, <1>4, <1>6, <2>2 DEF Placed
  <2>3. CASE i - 1 \in (k + 1)..Len(list) /\ (i - 1) + 1 = i
    <3>1. i - 1 \in 1..Len(list) /\ list'[i] = list[i - 1]
      BY <1>1, <1>6, <2>3 DEF Placed
    <3>. QED  BY <1>5, <3>1
  <2>. QED  BY <1>1, <1>7, <2>1, <2>2, <2>3
<1>10. ASSUME ~m_ev' PROVE ~m_ev /\ list # <<>> /\ Head(list') = Head(list)
  <2>1. ~m_ev /\ Head(list').cookie # m_dwNextCookie'
    BY <1>10, Zenon DEF AddAdvisePacket
  <2>2. Head(list') = list'[1]
    BY <1>1, <1>7
  <2>3. k # 0
    BY <1>3, <1>4, <1>6, <2>1, <2>2 DEF Placed
  <2>4. 1 \in 1..k /\ list # <<>>
    BY <1>1, <2>3
  <2>5. list'[1] = list[1] /\ Head(list) = list[1]
    BY <1>1, <1>6, <2>4 DEF Placed
  <2>. QED  BY <2>1, <2>2, <2>4, <2>5
<1>. QED  BY <1>7, <1>8, <1>9, <1>10 DEF ListInv, CookiesGiven

\* What is left when a client cancels is not earlier.
LEMMA PacketRemoved ==
  ASSUME ListInv, NEW k \in 1..Len(list), Unadvise(k)
  PROVE  ListInv' /\ (list' # <<>> => list # <<>> /\ Head(list).time <= Head(list').time)
<1>1. /\ list \in Seq(Packet) /\ m_dwAdviseCount = Len(list) /\ m_dwNextCookie \in Int
      /\ m_dwCacheCount \in 0..dwCacheMax /\ dwCacheMax \in Nat /\ Len(list) \in Nat
  BY ConstantsAssumption DEF ListInv, ScheduleTypes
<1>2. /\ list' = SubSeq(list, 1, k - 1) \o SubSeq(list, k + 1, Len(list))
      /\ m_dwNextCookie' = m_dwNextCookie /\ Delete
  BY DEF Unadvise
<1>3. /\ list' \in Seq(Packet) /\ Ordered(list') /\ Len(list') = Len(list) - 1
      /\ \A i \in 1..Len(list') : list'[i].cookie <= m_dwNextCookie
      /\ list' # <<>> => list[1].time <= list'[1].time
  BY <1>1, <1>2, RemovedInOrder DEF ListInv, CookiesGiven
<1>4. m_dwCacheCount' \in 0..dwCacheMax /\ m_dwAdviseCount' = Len(list')
  <2>1. Delete /\ Len(list') = Len(list) - 1
    BY <1>2, <1>3
  <2>. QED  BY <1>1, <2>1 DEF Delete
<1>5. list # <<>> /\ Head(list) = list[1] /\ (list' # <<>> => Head(list') = list'[1])
  BY <1>1, <1>3
<1>. QED  BY <1>2, <1>3, <1>4, <1>5 DEF ListInv, ScheduleTypes, CookiesGiven

LEMMA PacketFired ==
  ASSUME ListInv, Fire
  PROVE  ListInv' /\ list # <<>>
<1>1. /\ list \in Seq(Packet) /\ m_dwAdviseCount = Len(list) /\ m_dwNextCookie \in 0..MaxAdvises
      /\ m_dwCacheCount \in 0..dwCacheMax /\ dwCacheMax \in Nat /\ Len(list) \in Nat /\ Ordered(list)
      /\ \A i \in 1..Len(list) : list[i].cookie <= m_dwNextCookie
  BY ConstantsAssumption DEF ListInv, ScheduleTypes, CookiesGiven
<1>2. list # <<>> /\ m_dwNextCookie' = m_dwNextCookie
  BY DEF Fire, Expired
<1>3. /\ Tail(list) \in Seq(Packet) /\ Len(Tail(list)) = Len(list) - 1 /\ Ordered(Tail(list))
      /\ Head(list) \in Packet /\ \A i \in 1..Len(Tail(list)) : Tail(list)[i] = list[i + 1] /\ i + 1 \in 1..Len(list)
  BY <1>1, <1>2, TailInOrder
<1>4. CASE list' = Tail(list) /\ Delete
  <2>1. m_dwCacheCount' \in 0..dwCacheMax /\ m_dwAdviseCount' = Len(list')
    BY <1>1, <1>3, <1>4 DEF Delete
  <2>2. \A i \in 1..Len(list') : list'[i].cookie <= m_dwNextCookie'
    BY <1>1, <1>2, <1>3, <1>4
  <2>. QED  BY <1>1, <1>2, <1>3, <1>4, <2>1, <2>2 DEF ListInv, ScheduleTypes, CookiesGiven
<1>5. CASE list' = ShuntHead(list, Head(list).time + Head(list).period) /\ UNCHANGED <<m_dwAdviseCount, m_dwCacheCount>>
  <2>1. PICK time : time = Head(list).time + Head(list).period
    OBVIOUS
  <2>2. time \in Int
    BY <1>3, <2>1 DEF Packet
  <2>3. /\ list' \in Seq(Packet) /\ Ordered(list') /\ Len(list') = Len(list)
        /\ \A i \in 1..Len(list) : list'[i].cookie <= m_dwNextCookie
    BY <1>1, <1>2, <1>5, <2>1, <2>2, ShuntedInOrder
  <2>. QED  BY <1>1, <1>2, <1>5, <2>3 DEF ListInv, ScheduleTypes, CookiesGiven
<1>. QED  BY <1>2, <1>4, <1>5 DEF Fire

\* The requests of clients.
Asks == \E t \in Times : AdviseTime(t) \/ \E p \in Periods : AdvisePeriodic(t, p)

LEMMA Asked ==
  ASSUME ListInv, Asks
  PROVE  /\ ListInv'
         /\ ~m_ev' => ~m_ev /\ list # <<>> /\ Head(list') = Head(list)
         /\ UNCHANGED <<now, clockVars, m_rtLastGotTime, m_bAbort, threadVars, owner, deltas, slack>>
<1>1. PICK t \in Int, p \in Int : m_dwNextCookie < MaxAdvises /\ AddAdvisePacket(t, p)
  <2>1. PICK t \in Times : AdviseTime(t) \/ \E p \in Periods : AdvisePeriodic(t, p)
    BY DEF Asks
  <2>2. CASE AdviseTime(t)
    BY <2>2, ConstantsAssumption DEF AdviseTime
  <2>3. ASSUME NEW p \in Periods, AdvisePeriodic(t, p) PROVE \E u \in Int, v \in Int : m_dwNextCookie < MaxAdvises /\ AddAdvisePacket(u, v)
    BY <2>3, ConstantsAssumption DEF AdvisePeriodic
  <2>. QED  BY <2>1, <2>2, <2>3
<1>2. UNCHANGED <<now, clockVars, m_rtLastGotTime, m_bAbort, threadVars, owner, deltas, slack>>
  BY DEF Asks, AdviseTime, AdvisePeriodic
<1>3. /\ ListInv'
      /\ ~m_ev' => ~m_ev /\ list # <<>> /\ Head(list') = Head(list)
  BY <1>1, PacketAdded
<1>. QED  BY <1>2, <1>3

Removes == \E i \in 1..Len(list) : Unadvise(i)
Corrects == \E d \in Deltas : SetTimeDelta(d)

LEMMA ListStep == ListInv /\ [Next]_vars => ListInv'
<1> SUFFICES ASSUME ListInv, [Next]_vars PROVE ListInv'
  OBVIOUS
<1>1. CASE Asks
  BY <1>1, Asked
<1>2. CASE Removes
  BY <1>2, PacketRemoved DEF Removes
<1>3. CASE Fire
  BY <1>3, PacketFired
<1>4. CASE Destroyed
  <2>1. list' = <<>> /\ m_dwAdviseCount' = 0 /\ m_dwCacheCount' = 0 /\ m_dwNextCookie' = m_dwNextCookie
    BY <1>4 DEF Destroyed
  <2>2. <<>> \in Seq(Packet) /\ Len(<<>>) = 0
    OBVIOUS
  <2>. QED  BY <2>1, <2>2, ConstantsAssumption DEF ListInv, ScheduleTypes, Ordered, CookiesGiven
<1>5. CASE UNCHANGED scheduleVars
  BY <1>5 DEF ListInv, ScheduleTypes, Ordered, CookiesGiven, scheduleVars
<1>6. CASE GetTime \/ Destroy \/ Corrects \/ Wake \/ ReadTime \/ EnterAdvise \/ Sleep \/ Tick \/ UNCHANGED vars
  BY <1>5, <1>6 DEF GetTime, Destroy, Corrects, SetTimeDelta, Wake, ReadTime, EnterAdvise, Sleep, Tick, vars
<1>. QED  BY <1>1, <1>2, <1>3, <1>4, <1>6 DEF Next, ClientStep, ThreadStep, Asks, Removes, Corrects

\* The private time but in SetTimeDelta.
LEMMA ClockStep == ClockTypes /\ ListInv /\ [Next]_vars => ClockTypes'
<1> SUFFICES ASSUME ClockTypes, ListInv, [Next]_vars PROVE ClockTypes'
  OBVIOUS
<1> USE DEF clockVars, scheduleVars, threadVars
<1>1. PrivateTime \in Int /\ timeGetTime \in 0..(Cycle - 1)
  BY PrivateTimeRead
<1>2. CASE Asks
  BY <1>2, Asked DEF ClockTypes
<1>3. CASE GetTime
  <2>1. /\ m_rtPrivateTime' = PrivateTime /\ m_dwPrevSystemTime' = timeGetTime
        /\ m_rtLastGotTime' \in {PrivateTime, m_rtLastGotTime}
        /\ UNCHANGED <<now, threadVars, owner, deltas, slack>>
    BY <1>3 DEF GetTime, GetPrivateTime
  <2>. QED  BY <1>1, <2>1 DEF ClockTypes
<1>4. CASE ReadTime
  <2>1. /\ \/ m_rtPrivateTime' = PrivateTime /\ m_dwPrevSystemTime' = timeGetTime /\ rtNow' = PrivateTime /\ slack' = 0
           \/ UNCHANGED <<clockVars, rtNow, slack>>
        /\ pc' \in {"done", "timed"} /\ UNCHANGED <<now, m_rtLastGotTime, wakeAt, owner, deltas>>
    BY <1>4 DEF ReadTime, GetPrivateTime
  <2>. QED  BY <1>1, <2>1 DEF ClockTypes
<1>5. CASE Corrects
  <2>1. PICK d \in Deltas : SetTimeDelta(d)
    BY <1>5 DEF Corrects
  <2>2. /\ d \in Int /\ m_rtPrivateTime' = m_rtPrivateTime + d /\ deltas' = deltas + 1 /\ deltas < MaxDeltas
        /\ slack' = IF d > 0 /\ d <= 1 THEN slack + d ELSE slack
        /\ UNCHANGED <<now, m_dwPrevSystemTime, m_rtLastGotTime, threadVars, owner>>
    BY <2>1, ConstantsAssumption DEF SetTimeDelta
  <2>3. slack' \in Nat /\ m_rtPrivateTime' \in Int /\ deltas' \in 0..MaxDeltas
    BY <2>2, ConstantsAssumption DEF ClockTypes
  <2>. QED  BY <2>2, <2>3 DEF ClockTypes
<1>6. CASE Sleep
  <2>1. /\ pc' \in {"done", "wait"} /\ rtNow' = 0 /\ ~Expired
        /\ wakeAt' = IF list = <<>> THEN Forever ELSE now + ((Head(list).time - rtNow) \div 2)
        /\ UNCHANGED <<now, clockVars, m_rtLastGotTime, owner, deltas, slack>>
    BY <1>6 DEF Sleep
  <2>2. list # <<>> => Head(list).time \in Int
    <3>1. list # <<>> => Head(list) \in Packet
      BY DEF ListInv, ScheduleTypes
    <3>. QED  BY <3>1 DEF Packet
  <2>3. list # <<>> => Head(list).time - rtNow \in Nat
    BY <2>1, <2>2 DEF Expired, ClockTypes
  <2>4. wakeAt' \in Nat \union {Forever}
    BY <2>1, <2>3 DEF ClockTypes
  <2>. QED  BY <2>1, <2>4 DEF ClockTypes
<1>7. CASE Tick
  <2>1. /\ now' = now + 1 /\ slack' \in {slack, slack + 2}
        /\ UNCHANGED <<clockVars, m_rtLastGotTime, threadVars, owner, deltas>>
    BY <1>7 DEF Tick
  <2>2. now' \in Nat /\ slack' \in Nat
    BY <2>1 DEF ClockTypes
  <2>. QED  BY <2>1, <2>2 DEF ClockTypes
<1>8. CASE Removes \/ Destroy \/ Destroyed \/ Wake \/ EnterAdvise \/ Fire \/ UNCHANGED vars
  <2>1. /\ UNCHANGED <<now, clockVars, m_rtLastGotTime, rtNow, deltas, slack>>
        /\ owner' \in {owner, "deleting", "deleted"} /\ wakeAt' \in {wakeAt, Forever} /\ pc' \in {pc, "woken", "advise"}
    BY <1>8 DEF Removes, Unadvise, Destroy, Destroyed, Wake, EnterAdvise, Fire, vars
  <2>. QED  BY <2>1 DEF ClockTypes
<1>. QED  BY <1>2, <1>3, <1>4, <1>5, <1>6, <1>7, <1>8 DEF Next, ClientStep, ThreadStep, Asks, Removes, Corrects

LEMMA FlagsStep == Flags /\ [Next]_vars => Flags'
<1> SUFFICES ASSUME Flags, [Next]_vars PROVE Flags'
  OBVIOUS
<1> USE DEF Flags, clockVars, scheduleVars, threadVars
<1>1. CASE GetTime \/ Destroy
  BY <1>1, Zenon DEF GetTime, Destroy
<1>2. CASE Asks
  <2>1. ASSUME NEW t, NEW p, AddAdvisePacket(t, p) PROVE m_ev' \in BOOLEAN
    BY <2>1, Zenon DEF AddAdvisePacket
  <2>2. m_ev' \in BOOLEAN /\ m_bAbort' = m_bAbort
    BY <1>2, <2>1, Zenon DEF Asks, AdviseTime, AdvisePeriodic
  <2>. QED  BY <2>2, Zenon
<1>3. CASE Removes
  BY <1>3, Zenon DEF Removes, Unadvise
<1>4. CASE Corrects
  <2>1. PICK d \in Deltas : SetTimeDelta(d)
    BY <1>4 DEF Corrects
  <2>. QED  BY <2>1, Zenon DEF SetTimeDelta
<1>5. CASE Destroyed \/ Wake
  BY <1>5, Zenon DEF Destroyed, Wake
<1>6. CASE ReadTime \/ EnterAdvise
  BY <1>6, Zenon DEF ReadTime, EnterAdvise
<1>7. CASE Fire \/ Sleep
  BY <1>7, Zenon DEF Fire, Sleep
<1>8. CASE Tick
  BY <1>8, Zenon DEF Tick
<1>9. CASE UNCHANGED vars
  BY <1>9, Zenon DEF vars
<1>. QED  BY <1>1, <1>2, <1>3, <1>4, <1>5, <1>6, <1>7, <1>8, <1>9 DEF Next, ClientStep, ThreadStep, Asks, Removes, Corrects

\* The thread's reading and its wait survive every step: of clients, of time and of its own.
LEMMA WaitStep ==
  ASSUME ClockTypes, ListInv, Flags, ReadingHolds, NeverOversleeps, [Next]_vars
  PROVE  ReadingHolds' /\ NeverOversleeps'
<1> USE DEF clockVars, scheduleVars, threadVars
<1>1. /\ PrivateTime \in Int /\ now \in Int /\ rtNow \in Int /\ slack \in Nat /\ wakeAt \in Int
      /\ wakeAt # Forever => wakeAt \in Nat
  BY PrivateTimeRead DEF ClockTypes, Forever
<1>2. list # <<>> => Head(list).time \in Int
  <2>1. list # <<>> => Head(list) \in Packet
    BY DEF ListInv, ScheduleTypes
  <2>. QED  BY <2>1 DEF Packet
<1>3. list' # <<>> => Head(list').time \in Int
  <2>1. ListInv'
    BY ListStep
  <2>2. list' # <<>> => Head(list') \in Packet
    BY <2>1 DEF ListInv, ScheduleTypes
  <2>. QED  BY <2>2 DEF Packet
<1>4. ASSUME ~m_ev' /\ list' # <<>> => ~m_ev /\ list # <<>> /\ Head(list).time <= Head(list').time,
             PrivateTime' = PrivateTime, UNCHANGED <<now, threadVars, slack>>
      PROVE  ReadingHolds' /\ NeverOversleeps'
  <2>1. ReadingHolds'
    BY <1>4 DEF ReadingHolds
  <2>2. NeverOversleeps'
    <3>1. SUFFICES ASSUME pc' = "wait", ~m_ev', list' # <<>>
                   PROVE  wakeAt' # Forever /\ PrivateTime' + 2 * (wakeAt' - now') <= Head(list').time + slack'
      BY DEF NeverOversleeps
    <3>2. /\ wakeAt # Forever /\ PrivateTime + 2 * (wakeAt - now) <= Head(list).time + slack
          /\ Head(list).time <= Head(list').time /\ list # <<>>
      BY <1>4, <3>1 DEF NeverOversleeps
    <3>3. PrivateTime + 2 * (wakeAt - now) <= Head(list').time + slack
      BY <1>1, <1>2, <1>3, <3>1, <3>2
    <3>. QED  BY <1>4, <3>2, <3>3
  <2>. QED  BY <2>1, <2>2
<1>5. UNCHANGED <<now, clockVars>> => PrivateTime' = PrivateTime
  BY DEF PrivateTime, Elapsed, timeGetTime
<1>6. CASE Asks
  <2>1. /\ UNCHANGED <<now, clockVars, threadVars, slack>>
        /\ ~m_ev' => ~m_ev /\ list # <<>> /\ Head(list') = Head(list)
    BY <1>6, Asked
  <2>. QED  BY <1>2, <1>4, <1>5, <2>1
<1>7. CASE Removes
  <2>1. UNCHANGED <<now, clockVars, threadVars, slack, m_ev>>
    BY <1>7 DEF Removes, Unadvise
  <2>2. list' # <<>> => list # <<>> /\ Head(list).time <= Head(list').time
    BY <1>7, PacketRemoved DEF Removes
  <2>. QED  BY <1>4, <1>5, <2>1, <2>2
<1>8. CASE GetTime
  <2>1. GetPrivateTime /\ UNCHANGED <<now, threadVars, slack, m_ev, list>>
    BY <1>8 DEF GetTime
  <2>2. PrivateTime' = PrivateTime
    BY <2>1, PrivateTimeRead
  <2>. QED  BY <1>2, <1>4, <2>1, <2>2
<1>9. CASE Corrects
  <2>1. PICK d \in Deltas : SetTimeDelta(d)
    BY <1>9 DEF Corrects
  <2>2. /\ d \in Int /\ m_rtPrivateTime' = m_rtPrivateTime + d
        /\ slack' = IF d > 0 /\ d <= 1 THEN slack + d ELSE slack
        /\ UNCHANGED <<now, m_dwPrevSystemTime, threadVars, list>>
    BY <2>1, ConstantsAssumption DEF SetTimeDelta
  <2>3. ~m_ev' => ~m_ev /\ ~SetTimeDelta_Trigger(d)
    BY <2>1, Zenon DEF SetTimeDelta
  <2>4. list # <<>> => m_dwAdviseCount > 0
    BY DEF ListInv, ScheduleTypes
  <2>5. ~m_ev' /\ list # <<>> => d <= 1 /\ slack' \in Nat /\ slack + d <= slack'
    BY <1>1, <2>2, <2>3, <2>4 DEF SetTimeDelta_Trigger
  <2>6. PrivateTime' = PrivateTime + d
    <3>1. Elapsed' = Elapsed
      BY <2>2 DEF Elapsed, timeGetTime
    <3>2. PICK x, u : x = m_rtPrivateTime /\ u = Elapsed
      OBVIOUS
    <3>3. x \in Int /\ x + 2 * u \in Int
      BY <1>1, <3>2 DEF ClockTypes, PrivateTime
    <3>4. u \in Int
      <4>1. (timeGetTime - m_dwPrevSystemTime) % Cycle \in Int
        BY PrivateTimeRead, Remainder, ConstantsAssumption DEF ClockTypes
      <4>. QED  BY <3>2, <4>1, ConstantsAssumption DEF Elapsed
    <3>. QED  BY <2>2, <3>1, <3>2, <3>3, <3>4 DEF PrivateTime
  <2>7. ReadingHolds'
    <3>1. SUFFICES ASSUME pc' \in {"timed", "advise"}, ~m_ev', list' # <<>> PROVE PrivateTime' <= rtNow' + slack'
      BY DEF ReadingHolds
    <3>2. PrivateTime <= rtNow + slack
      BY <2>2, <2>3, <3>1 DEF ReadingHolds
    <3>3. slack' \in Nat /\ slack + d <= slack'
      BY <2>2, <2>5, <3>1
    <3>4. PrivateTime + d <= rtNow + slack'
      BY <1>1, <2>2, <3>2, <3>3
    <3>. QED  BY <2>2, <2>6, <3>4
  <2>8. NeverOversleeps'
    <3>1. SUFFICES ASSUME pc' = "wait", ~m_ev', list' # <<>>
                   PROVE  wakeAt' # Forever /\ PrivateTime' + 2 * (wakeAt' - now') <= Head(list').time + slack'
      BY DEF NeverOversleeps
    <3>2. wakeAt # Forever /\ PrivateTime + 2 * (wakeAt - now) <= Head(list).time + slack /\ list # <<>>
      BY <2>2, <2>3, <3>1 DEF NeverOversleeps
    <3>3. slack' \in Nat /\ slack + d <= slack'
      BY <2>2, <2>5, <3>1
    <3>4. PrivateTime + d + 2 * (wakeAt - now) <= Head(list).time + slack'
      BY <1>1, <1>2, <2>2, <3>2, <3>3
    <3>. QED  BY <2>2, <2>6, <3>2, <3>4
  <2>. QED  BY <2>7, <2>8
<1>10. CASE Destroy
  <2>1. m_ev'
    BY <1>10, Zenon DEF Destroy
  <2>. QED  BY <2>1 DEF ReadingHolds, NeverOversleeps
<1>11. CASE Destroyed \/ Wake
  <2>1. list' = <<>> \/ pc' = "woken"
    BY <1>11 DEF Destroyed, Wake
  <2>. QED  BY <2>1 DEF ReadingHolds, NeverOversleeps
<1>12. CASE ReadTime
  <2>1. pc' = "done" \/ (pc' = "timed" /\ GetPrivateTime /\ rtNow' = PrivateTime /\ slack' = 0 /\ now' = now)
    BY <1>12 DEF ReadTime
  <2>2. pc' = "timed" => PrivateTime' = PrivateTime
    BY <2>1, PrivateTimeRead
  <2>. QED  BY <1>1, <2>1, <2>2 DEF ReadingHolds, NeverOversleeps
<1>13. CASE EnterAdvise
  <2>1. pc = "timed" /\ pc' = "advise" /\ UNCHANGED <<now, clockVars, rtNow, slack, m_ev, list>>
    BY <1>13 DEF EnterAdvise
  <2>. QED  BY <1>5, <2>1 DEF ReadingHolds, NeverOversleeps
<1>14. CASE Fire
  <2>1. pc = "advise" /\ UNCHANGED <<now, clockVars, threadVars, slack, m_ev>> /\ list # <<>>
    BY <1>14 DEF Fire, Expired
  <2>. QED  BY <1>5, <2>1 DEF ReadingHolds, NeverOversleeps
<1>15. CASE Sleep
  <2>1. /\ pc = "advise" /\ pc' \in {"done", "wait"} /\ ~Expired
        /\ wakeAt' = IF list = <<>> THEN Forever ELSE now + ((Head(list).time - rtNow) \div 2)
        /\ UNCHANGED <<now, clockVars, slack, m_ev, list>>
    BY <1>15 DEF Sleep
  <2>2. ReadingHolds'
    BY <2>1 DEF ReadingHolds
  <2>3. NeverOversleeps'
    <3>1. SUFFICES ASSUME ~m_ev, list # <<>>
                   PROVE  wakeAt' # Forever /\ PrivateTime' + 2 * (wakeAt' - now') <= Head(list').time + slack'
      BY <2>1 DEF NeverOversleeps
    <3>2. PICK w : w = (Head(list).time - rtNow) \div 2
      OBVIOUS
    <3>3. Head(list).time - rtNow \in Nat
      BY <1>1, <1>2, <2>1, <3>1 DEF Expired
    <3>4. w \in Nat /\ 2 * w <= Head(list).time - rtNow
      BY <3>2, <3>3
    <3>5. PrivateTime <= rtNow + slack
      BY <2>1, <3>1 DEF ReadingHolds
    <3>6. wakeAt' = now + w /\ now \in Nat
      BY <2>1, <3>1, <3>2 DEF ClockTypes
    <3>7. wakeAt' # Forever /\ 2 * (wakeAt' - now) = 2 * w
      BY <3>4, <3>6 DEF Forever
    <3>8. PrivateTime + 2 * w <= Head(list).time + slack
      BY <1>1, <1>2, <3>1, <3>4, <3>5
    <3>. QED  BY <1>5, <2>1, <3>7, <3>8
  <2>. QED  BY <2>2, <2>3
<1>16. CASE Tick
  <2>1. /\ now' = now + 1 /\ UNCHANGED <<clockVars, threadVars, m_ev, list>>
        /\ slack' = IF pc \in {"timed", "advise"} THEN slack + 2 ELSE slack
    BY <1>16 DEF Tick
  <2>2. PrivateTime' \in Int /\ PrivateTime' <= PrivateTime + 2
    BY <2>1, PrivateTimeTicks
  <2>3. ReadingHolds'
    <3>1. SUFFICES ASSUME pc \in {"timed", "advise"}, ~m_ev, list # <<>> PROVE PrivateTime' <= rtNow' + slack'
      BY <2>1 DEF ReadingHolds
    <3>2. PrivateTime <= rtNow + slack /\ slack' = slack + 2 /\ rtNow' = rtNow
      BY <2>1, <3>1 DEF ReadingHolds
    <3>. QED  BY <1>1, <2>2, <3>2
  <2>4. NeverOversleeps'
    <3>1. SUFFICES ASSUME pc = "wait", ~m_ev, list # <<>>
                   PROVE  wakeAt' # Forever /\ PrivateTime' + 2 * (wakeAt' - now') <= Head(list').time + slack'
      BY <2>1 DEF NeverOversleeps
    <3>2. wakeAt # Forever /\ PrivateTime + 2 * (wakeAt - now) <= Head(list).time + slack
      BY <3>1 DEF NeverOversleeps
    <3>3. slack' = slack
      BY <2>1, <3>1
    <3>4. PrivateTime' + 2 * (wakeAt - (now + 1)) <= Head(list).time + slack
      BY <1>1, <1>2, <2>2, <3>1, <3>2
    <3>. QED  BY <2>1, <3>2, <3>3, <3>4
  <2>. QED  BY <2>3, <2>4
<1>17. CASE UNCHANGED vars
  <2>1. UNCHANGED <<now, clockVars, threadVars, slack, m_ev, list>>
    BY <1>17 DEF vars
  <2>. QED  BY <1>2, <1>4, <1>5, <2>1
<1>. QED  BY <1>6, <1>7, <1>8, <1>9, <1>10, <1>11, <1>12, <1>13, <1>14, <1>15, <1>16, <1>17
          DEF Next, ClientStep, ThreadStep, Asks, Removes, Corrects

\* The advise thread of CBaseReferenceClock finds an ordered list of requests with different cookies, and never
\* waits past the first of them by more than the corrections SetTimeDelta leaves out and the time it needed
\* itself, across wraps of the timer (CAMSchedule, AdviseThread, SetTimeDelta).
THEOREM ScheduleAlwaysHolds == Spec => []ScheduleHolds
<1>1. Init => IInv
  <2> SUFFICES ASSUME Init PROVE IInv
    OBVIOUS
  <2>1. <<>> \in Seq(Packet) /\ Len(<<>>) = 0 /\ list = <<>>
    BY DEF Init
  <2>2. ClockTypes
    BY ConstantsAssumption DEF Init, ClockTypes
  <2>3. ListInv
    BY <2>1, ConstantsAssumption DEF Init, ListInv, ScheduleTypes, Ordered, CookiesGiven
  <2>4. Flags
    BY Zenon DEF Init, Flags
  <2>. QED  BY <2>1, <2>2, <2>3, <2>4 DEF IInv, ReadingHolds, NeverOversleeps
<1>2. IInv /\ [Next]_vars => IInv'
  BY ClockStep, ListStep, FlagsStep, WaitStep DEF IInv
<1>3. IInv => ScheduleHolds
  <2> SUFFICES ASSUME IInv PROVE ScheduleHolds
    OBVIOUS
  <2>1. TypeOK
    BY DEF IInv, ClockTypes, ListInv, ScheduleTypes, Flags, TypeOK
  <2>2. ListOrdered
    BY DEF IInv, ListInv, Ordered, ListOrdered
  <2>. QED  BY <2>1, <2>2 DEF IInv, ScheduleHolds
<1>. QED  BY <1>1, <1>2, <1>3, PTL DEF Spec
=============================================================================
