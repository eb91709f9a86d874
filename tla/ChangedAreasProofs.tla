------------------------- MODULE ChangedAreasProofs -------------------------
(***************************************************************************)
(* Proofs about the query of a chain, ChangedAreas.  Of every chain: types *)
(* and that the areas of a finished file do not overlap.  Of a chain whose *)
(* files have no larger clusters than the file below them, and of which    *)
(* only the base and the newest file end in a cut cluster: that every      *)
(* sector is attributed to the newest file that has it, and that no step   *)
(* of a sweep gives a sector up.                                           *)
(***************************************************************************)
EXTENDS ChangedAreas, WellFoundedInduction, TLAPS

-----------------------------------------------------------------------------
(* The naturals.                                                           *)

LEMMA Smallest ==
    ASSUME NEW T \in SUBSET Nat, T # {}
    PROVE  \E m \in T : \A k \in T : m <= k
<1>1. \E x \in T : \A y \in T : ~ (<<y, x>> \in OpToRel(<, Nat))
  BY NatLessThanWellFounded, WFMin
<1>2. \A x, y \in Nat : x < y => <<x, y>> \in OpToRel(<, Nat)
  BY DEF OpToRel
<1>3. PICK x \in T : \A y \in T : ~ (<<y, x>> \in OpToRel(<, Nat))
  BY <1>1
<1>4. \A y \in T : ~(y < x)
  BY <1>2, <1>3
<1> QED
  BY <1>4

LEMMA Induct ==
    ASSUME NEW S, 0 \in S, \A n \in Nat : n \in S => n + 1 \in S
    PROVE  Nat \subseteq S
<1> SUFFICES ASSUME Nat \ S # {} PROVE FALSE
  OBVIOUS
<1>1. PICK m \in Nat \ S : \A k \in Nat \ S : m <= k
  BY Smallest
<1>2. m # 0 /\ m - 1 \in Nat
  BY <1>1
<1>3. m - 1 \in S
  BY <1>1, <1>2
<1> QED
  BY <1>1, <1>2, <1>3

\* The sectors of the cluster c are those from c * n on, n of them.
LEMMA ClusterOf ==
    ASSUME NEW s \in Nat, NEW n \in Nat \ {0}
    PROVE  /\ s \div n \in Nat
           /\ s % n \in 0..(n - 1)
           /\ s = (s \div n) * n + (s % n)
           /\ \A c \in Nat : c * n <= s /\ s < c * n + n => s \div n = c
           /\ \A c \in Nat : s < c * n <=> s \div n < c
<1> DEFINE q == s \div n
           r == s % n
<1>1. q \in Nat /\ r \in 0..(n - 1)
  OBVIOUS
<1>2. s = q * n + r
  OBVIOUS
<1> HIDE DEF q, r
<1>3. ASSUME NEW a \in Nat, NEW b \in Nat, a < b PROVE a * n + n <= b * n
  <2>1. PICK d \in Nat : b = a + 1 + d
    <3>1. b - a - 1 \in Nat /\ b = a + 1 + (b - a - 1)
      BY <1>3
    <3> QED
      BY <3>1
  <2>2. b * n = a * n + n + d * n /\ d * n \in Nat
    BY <2>1
  <2> QED
    BY <2>2
<1>4. q * n \in Nat
  BY <1>1
<1>5. ASSUME NEW c \in Nat PROVE s < c * n <=> q < c
  <2>1. c * n \in Nat
    OBVIOUS
  <2>2. q < c => s < c * n
    BY <1>1, <1>2, <1>3, <1>4, <2>1
  <2>3. c < q => c * n + n <= q * n
    BY <1>1, <1>3
  <2>4. ~(q < c) => c * n <= q * n
    BY <1>1, <1>4, <2>1, <2>3
  <2> QED
    BY <1>1, <1>2, <1>4, <2>1, <2>2, <2>4
<1>6. ASSUME NEW c \in Nat, c * n <= s, s < c * n + n PROVE q = c
  <2>1. c * n \in Nat /\ (c + 1) * n = c * n + n
    OBVIOUS
  <2>2. ~(q < c) /\ q < c + 1
    BY <1>1, <1>2, <1>4, <1>5, <1>6, <2>1
  <2> QED
    BY <1>1, <2>2
<1> QED
  BY <1>1, <1>2, <1>5, <1>6 DEF q, r

-----------------------------------------------------------------------------
(* The extent of the map.                                                  *)

EndSector(f) == ClusterCount(f) * ClusterSectors[f]

LEMMA Counts ==
    ASSUME NEW f \in Files
    PROVE  /\ ClusterSectors[f] \in Nat \ {0}
           /\ ClusterCount(f) \in Nat
           /\ EndSector(f) \in Nat
           /\ SizeSectors[f] <= EndSector(f)
<1> DEFINE n == ClusterSectors[f]
           s == SizeSectors[f] + n - 1
<1>1. n \in Nat \ {0} /\ SizeSectors[f] \in Nat \ {0} /\ s \in Nat
  BY ClusterAssumption, SizeAssumption
<1>2. ClusterCount(f) = s \div n /\ s = SizeSectors[f] + n - 1
  BY DEF ClusterCount
<1> HIDE DEF n, s
<1>3. s \div n \in Nat /\ s % n \in 0..(n - 1) /\ s = (s \div n) * n + (s % n)
  BY <1>1, ClusterOf
<1>4. (s \div n) * n \in Nat
  BY <1>1, <1>3
<1>5. ASSUME NEW p \in Nat, NEW r \in 0..(n - 1), s = p + r PROVE SizeSectors[f] <= p
  BY <1>1, <1>2, <1>5
<1>6. SizeSectors[f] <= (s \div n) * n
  BY <1>3, <1>4, <1>5
<1> QED
  BY <1>1, <1>2, <1>3, <1>4, <1>6 DEF EndSector, n

LEMMA ReachBounds ==
    /\ Reach \in Nat
    /\ \A f \in Files : EndSector(f) <= Reach
<1> DEFINE S == {n \in Nat : n \in 1..NFiles =>
                   \E f \in 1..n : \A g \in 1..n : EndSector(g) <= EndSector(f)}
<1>0. NFiles \in Nat \ {0} /\ \A f \in Files : EndSector(f) \in Nat
  BY NFilesAssumption, Counts
<1>1. 0 \in S
  OBVIOUS
<1>2. ASSUME NEW n \in Nat, n \in S PROVE n + 1 \in S
  <2> SUFFICES ASSUME n + 1 \in 1..NFiles
               PROVE  \E f \in 1..(n + 1) : \A g \in 1..(n + 1) : EndSector(g) <= EndSector(f)
    OBVIOUS
  <2>1. CASE n = 0
    <3>1. \A g \in 1..(n + 1) : g = 1
      BY <2>1
    <3>2. 1 \in 1..(n + 1) /\ 1 \in Files
      BY <2>1, <1>0 DEF Files
    <3> QED
      BY <3>1, <3>2, <1>0
  <2>2. CASE n # 0
    <3>1. n \in 1..NFiles
      BY <2>2, <1>0
    <3>2. PICK f \in 1..n : \A g \in 1..n : EndSector(g) <= EndSector(f)
      BY <3>1, <1>2
    <3>3. f \in Files /\ n + 1 \in Files /\ f \in 1..(n + 1) /\ n + 1 \in 1..(n + 1)
      BY <3>1, <3>2, <1>0 DEF Files
    <3>4. \A g \in 1..(n + 1) : g \in 1..n \/ g = n + 1
      OBVIOUS
    <3>5. EndSector(f) \in Nat /\ EndSector(n + 1) \in Nat
      BY <3>3, <1>0
    <3>6. \A g \in 1..n : EndSector(g) \in Nat
      BY <3>1, <1>0 DEF Files
    <3>7. CASE EndSector(n + 1) <= EndSector(f)
      BY <3>2, <3>3, <3>4, <3>7
    <3>8. CASE EndSector(f) < EndSector(n + 1)
      <4>1. \A g \in 1..n : EndSector(g) <= EndSector(n + 1)
        BY <3>2, <3>5, <3>6, <3>8
      <4> QED
        BY <3>3, <3>4, <3>5, <4>1
    <3> QED
      BY <3>5, <3>7, <3>8
  <2> QED
    BY <2>1, <2>2
<1>3. NFiles \in S
  <2> HIDE DEF S
  <2>1. Nat \subseteq S
    BY <1>1, <1>2, Induct
  <2> QED
    BY <1>0, <2>1
<1>4. PICK f \in Files : \A g \in Files : EndSector(g) <= EndSector(f)
  BY <1>0, <1>3 DEF Files
<1> DEFINE E == {EndSector(g) : g \in Files}
<1>5. EndSector(f) \in E /\ \A e \in E : e \in Nat /\ EndSector(f) >= e
  BY <1>0, <1>4
<1>6. Reach = Max(E)
  BY DEF Reach, EndSector
<1>7. Max(E) \in E /\ \A e \in E : Max(E) >= e
  BY <1>5 DEF Max
<1> HIDE DEF E
<1>8. Reach \in E /\ \A e \in E : Reach >= e
  BY <1>6, <1>7
<1>9. \A g \in Files : EndSector(g) \in E
  BY DEF E
<1> QED
  BY <1>5, <1>8, <1>9

-----------------------------------------------------------------------------
(* The map of areas.  t is the last file that is finished: areas of later  *)
(* files are new, and may overlap the old ones until they are trimmed.     *)

MapTypes(m) ==
    /\ DOMAIN m \subseteq Nat
    /\ \A k \in DOMAIN m :
          /\ m[k] \in [len : Nat \ {0}, file : Files]
          /\ EndOf(m, k) <= Reach

\* Old areas do not overlap, and new ones do not.
Ordered(m, t) ==
    \A j, k \in DOMAIN m :
        j < k /\ (m[j].file <= t <=> m[k].file <= t) => EndOf(m, j) <= k

\* Some area gives the sector x to the file g.
Has(m, x, g) == \E k \in DOMAIN m : Covers(m, k, x) /\ m[k].file = g

\* b comes next after a.
Next(m, a, b) ==
    /\ a \in DOMAIN m /\ b \in DOMAIN m /\ a < b
    /\ \A k \in DOMAIN m : k <= a \/ b <= k

LEMMA LeastIs ==
    ASSUME NEW S \in SUBSET Nat
    PROVE  /\ Least(S) = End <=> S = {}
           /\ S # {} => Least(S) \in S /\ \A k \in S : Least(S) <= k
<1>1. CASE S = {}
  BY <1>1 DEF Least
<1>2. CASE S # {}
  <2>1. \E m \in S : \A k \in S : m <= k
    BY <1>2, Smallest
  <2>2. Min(S) \in S /\ \A k \in S : Min(S) <= k
    BY <2>1 DEF Min
  <2>3. Least(S) = Min(S)
    BY <1>2 DEF Least
  <2>4. Min(S) \in Nat
    BY <2>2
  <2>5. Min(S) # End
    BY <2>4 DEF End
  <2> QED
    BY <1>2, <2>2, <2>3, <2>5
<1> QED
  BY <1>1, <1>2

LEMMA KeyIs ==
    ASSUME NEW m, DOMAIN m \subseteq Nat
    PROVE  /\ Begin(m) = End <=> DOMAIN m = {}
           /\ Begin(m) # End => /\ Begin(m) \in DOMAIN m
                                /\ \A k \in DOMAIN m : Begin(m) <= k
           /\ \A a \in DOMAIN m :
                 /\ NextKey(m, a) = End => \A k \in DOMAIN m : k <= a
                 /\ NextKey(m, a) # End => Next(m, a, NextKey(m, a))
<1>1. /\ Begin(m) = End <=> DOMAIN m = {}
      /\ Begin(m) # End => /\ Begin(m) \in DOMAIN m
                           /\ \A k \in DOMAIN m : Begin(m) <= k
  BY LeastIs DEF Begin
<1>2. ASSUME NEW a \in DOMAIN m
      PROVE  /\ NextKey(m, a) = End => \A k \in DOMAIN m : k <= a
             /\ NextKey(m, a) # End => Next(m, a, NextKey(m, a))
  <2> DEFINE S == {x \in DOMAIN m : x > a}
  <2>1. NextKey(m, a) = Least(S) /\ S \in SUBSET Nat
    BY DEF NextKey
  <2>2. \A k \in DOMAIN m : k \in Nat /\ (k \in S \/ k <= a) /\ a \in Nat
    OBVIOUS
  <2>3. \A k \in S : k \in DOMAIN m /\ a < k
    BY <2>2
  <2> HIDE DEF S
  <2>4. /\ Least(S) = End <=> S = {}
        /\ S # {} => Least(S) \in S /\ \A k \in S : Least(S) <= k
    BY <2>1, LeastIs
  <2> QED
    BY <2>1, <2>2, <2>3, <2>4 DEF Next
<1> QED
  BY <1>1, <1>2

\* The area at s goes on behind n sectors.
Exceeds(m, s, n) == s \in DOMAIN m /\ m[s].len > n

\* The map r after n sectors of the file f were recorded at s in m.
Recorded(r, m, s, n, f) ==
    /\ DOMAIN r = DOMAIN m \cup {s} \cup (IF Exceeds(m, s, n) THEN {s + n} ELSE {})
    /\ r[s] = Area(n, f)
    /\ \A k \in DOMAIN m : k # s => r[k] = m[k]
    /\ Exceeds(m, s, n) /\ s + n \notin DOMAIN m =>
          r[s + n] = Area(m[s].len - n, m[s].file)

LEMMA RecordIs ==
    ASSUME NEW m, NEW s \in Nat, NEW n \in Nat \ {0}, NEW f, NEW r,
           DOMAIN m \subseteq Nat, r = Record(m, s, n, f)
    PROVE  Recorded(r, m, s, n, f)
<1> DEFINE put == Exceeds(m, s, n)
           gone == Erase(m, {s})
           old == Area(m[s].len - n, m[s].file)
           rest == IF put THEN Insert(gone, s + n, old) ELSE gone
<1>1. r = Insert(rest, s, Area(n, f))
  BY DEF Record, Exceeds
<1>2. DOMAIN gone = DOMAIN m \ {s} /\ \A k \in DOMAIN m : k # s => gone[k] = m[k]
  BY DEF Erase, Restrict
<1> HIDE DEF gone
<1>3. s \notin DOMAIN gone /\ s + n # s
  BY <1>2
<1>4. /\ DOMAIN rest = (DOMAIN m \ {s}) \cup (IF put THEN {s + n} ELSE {})
      /\ \A k \in DOMAIN m : k # s => rest[k] = m[k]
      /\ put /\ s + n \notin DOMAIN m => rest[s + n] = old
  <2> HIDE DEF old, put
  <2>1. CASE put
    <3>1. rest = Insert(gone, s + n, old)
      BY <2>1
    <3> HIDE DEF rest
    <3> QED
      BY <1>2, <1>3, <2>1, <3>1 DEF Insert
  <2>2. CASE ~put
    BY <1>2, <2>2
  <2> QED
    BY <2>1, <2>2
<1>5. s \notin DOMAIN rest
  BY <1>3, <1>4
<1> HIDE DEF rest, old, put
<1>6. /\ DOMAIN r = DOMAIN rest \cup {s} /\ r[s] = Area(n, f)
      /\ \A k \in DOMAIN rest : r[k] = rest[k]
  BY <1>1, <1>5 DEF Insert
<1>7. /\ DOMAIN r = DOMAIN m \cup {s} \cup (IF put THEN {s + n} ELSE {})
      /\ r[s] = Area(n, f)
      /\ \A k \in DOMAIN m : k # s => r[k] = m[k]
      /\ put /\ s + n \notin DOMAIN m => r[s + n] = old
  BY <1>4, <1>6
<1> QED
  BY <1>7 DEF Recorded, old, put

\* The map r after a and b were merged in m, after b was cut to what it has
\* beyond a, and after b was cut out of a.
Joined(r, m, a, b) ==
    /\ DOMAIN r = DOMAIN m \ {b}
    /\ r[a] = Area(m[a].len + m[b].len, m[a].file)
    /\ \A k \in DOMAIN m : k # a /\ k # b => r[k] = m[k]
SecondCut(r, m, a, b) ==
    /\ DOMAIN r = (DOMAIN m \ {b}) \cup
          (IF EndOf(m, a) < EndOf(m, b) THEN {EndOf(m, a)} ELSE {})
    /\ \A k \in DOMAIN m : k # b => r[k] = m[k]
    /\ EndOf(m, a) < EndOf(m, b) /\ EndOf(m, a) \notin DOMAIN m =>
          r[EndOf(m, a)] = Area(EndOf(m, b) - EndOf(m, a), m[b].file)
FirstCut(r, m, a, b) ==
    /\ DOMAIN r = DOMAIN m \cup
          (IF EndOf(m, a) > EndOf(m, b) THEN {EndOf(m, b)} ELSE {})
    /\ r[a] = Area(b - a, m[a].file)
    /\ \A k \in DOMAIN m : k # a => r[k] = m[k]
    /\ EndOf(m, a) > EndOf(m, b) /\ EndOf(m, b) \notin DOMAIN m =>
          r[EndOf(m, b)] = Area(EndOf(m, a) - EndOf(m, b), m[a].file)

LEMMA MergedIs ==
    ASSUME NEW m, NEW a \in DOMAIN m, NEW b \in DOMAIN m, NEW r,
           a # b, r = Merged(m, a, b)
    PROVE  Joined(r, m, a, b)
BY DEF Joined, Merged, Insert, Erase, Restrict

LEMMA CutSecondIs ==
    ASSUME NEW m, NEW a \in DOMAIN m, NEW b \in DOMAIN m, NEW r,
           a # b, EndOf(m, a) # b, r = CutSecond(m, a, b)
    PROVE  SecondCut(r, m, a, b)
BY DEF SecondCut, CutSecond, Insert, Erase, Restrict

LEMMA CutFirstIs ==
    ASSUME NEW m, NEW a \in DOMAIN m, NEW b \in DOMAIN m, NEW r,
           a # b, EndOf(m, b) # a, r = CutFirst(m, a, b)
    PROVE  FirstCut(r, m, a, b)
BY DEF FirstCut, CutFirst, Insert, Erase, Restrict

-----------------------------------------------------------------------------
(* What the operations keep.                                               *)

LEMMA RecordKeeps ==
    ASSUME NEW m, NEW t \in Nat, NEW s \in Nat, NEW n \in Nat \ {0},
           NEW f \in Files, NEW r,
           MapTypes(m), Ordered(m, t), t < f, s + n <= Reach,
           \A k \in DOMAIN m : m[k].file > t => EndOf(m, k) <= s,
           r = Record(m, s, n, f)
    PROVE  /\ MapTypes(r) /\ Ordered(r, t)
           /\ \A k \in DOMAIN r : r[k].file > t => EndOf(r, k) <= s + n
           /\ \A k \in DOMAIN r : r[k].file = f \/ \E j \in DOMAIN m : r[k].file = m[j].file
<1>0. f \in Nat /\ Reach \in Nat /\ Files \subseteq Nat
  BY NFilesAssumption, ReachBounds DEF Files
<1>1. /\ DOMAIN m \subseteq Nat
      /\ \A k \in DOMAIN m : /\ k \in Nat /\ m[k].len \in Nat \ {0}
                             /\ m[k].file \in Files /\ m[k].file \in Nat
                             /\ EndOf(m, k) = k + m[k].len /\ EndOf(m, k) <= Reach
  BY <1>0 DEF MapTypes, EndOf
<1> DEFINE put == Exceeds(m, s, n)
           Same(k) == k \in DOMAIN m /\ k # s /\ r[k] = m[k]
           Rest(k) == /\ k = s + n /\ s + n \notin DOMAIN m /\ put
                      /\ r[k] = Area(m[s].len - n, m[s].file)
<1>2. /\ DOMAIN r = DOMAIN m \cup {s} \cup (IF put THEN {s + n} ELSE {})
      /\ r[s] = Area(n, f)
      /\ \A k \in DOMAIN m : k # s => r[k] = m[k]
      /\ put /\ s + n \notin DOMAIN m => r[s + n] = Area(m[s].len - n, m[s].file)
  <2>1. Recorded(r, m, s, n, f)
    BY <1>1, RecordIs
  <2> QED
    BY <2>1 DEF Recorded
<1>3. \A k \in DOMAIN r : k = s \/ Same(k) \/ Rest(k)
  BY <1>2
<1>4. r[s].len = n /\ r[s].file = f /\ EndOf(r, s) = s + n
  BY <1>2 DEF Area, EndOf
<1>5. \A k : Same(k) => /\ k \in DOMAIN m /\ k # s /\ r[k] = m[k]
                        /\ EndOf(r, k) = EndOf(m, k)
  BY DEF EndOf
<1>6. s \in DOMAIN m => m[s].file <= t
  BY <1>0, <1>1
<1>7. \A k : Rest(k) => /\ k = s + n /\ k \notin DOMAIN m /\ s \in DOMAIN m
                        /\ r[k].len = m[s].len - n /\ r[k].file = m[s].file
                        /\ m[s].len > n /\ EndOf(r, k) = EndOf(m, s)
  BY <1>1 DEF Area, EndOf, Exceeds
<1> HIDE DEF Same, Rest
<1>8. \A k \in DOMAIN r : r[k] \in [len : Nat \ {0}, file : Files]
  <2> TAKE k \in DOMAIN r
  <2>1. CASE k = s
    BY <1>2, <2>1 DEF Area
  <2>2. CASE Same(k)
    BY <1>5, <2>2 DEF MapTypes
  <2>3. CASE Rest(k)
    <3>1. m[s].len - n \in Nat \ {0}
      BY <1>1, <1>7, <2>3
    <3>2. r[k] = Area(m[s].len - n, m[s].file)
      BY <2>3 DEF Rest
    <3> QED
      BY <1>1, <1>7, <2>3, <3>1, <3>2 DEF Area
  <2> QED
    BY <1>3, <2>1, <2>2, <2>3
<1>9. \A k \in DOMAIN r : k \in Nat /\ EndOf(r, k) <= Reach /\ EndOf(r, k) \in Nat
  <2> TAKE k \in DOMAIN r
  <2>1. CASE k = s
    BY <1>4, <2>1
  <2>2. CASE Same(k)
    BY <1>1, <1>5, <2>2
  <2>3. CASE Rest(k)
    BY <1>1, <1>7, <2>3
  <2> QED
    BY <1>3, <2>1, <2>2, <2>3
<1>10. MapTypes(r)
  <2>1. DOMAIN r \subseteq Nat
    BY <1>9
  <2> QED
    BY <1>8, <1>9, <2>1 DEF MapTypes
<1>11. ASSUME NEW k \in DOMAIN r, r[k].file > t
       PROVE  k = s \/ (Same(k) /\ EndOf(r, k) <= s)
  <2>1. CASE Same(k)
    BY <1>1, <1>5, <1>11, <2>1
  <2>2. CASE Rest(k)
    BY <1>0, <1>1, <1>6, <1>7, <1>11, <2>2
  <2> QED
    BY <1>3, <2>1, <2>2
<1>12. \A k \in DOMAIN r : r[k].file > t => EndOf(r, k) <= s + n
  BY <1>4, <1>9, <1>11
<1>13. \A k \in DOMAIN r : r[k].file = f \/ \E j \in DOMAIN m : r[k].file = m[j].file
  BY <1>3, <1>4, <1>5, <1>7
<1>14. ASSUME NEW j \in DOMAIN r, NEW k \in DOMAIN r, j < k,
              r[j].file <= t <=> r[k].file <= t
       PROVE  EndOf(r, j) <= k
  <2>0. /\ j \in Nat /\ k \in Nat /\ r[j].file \in Nat /\ r[k].file \in Nat
        /\ EndOf(r, j) \in Nat
    BY <1>0, <1>8, <1>9
  <2>1. CASE r[j].file > t
    <3>1. r[k].file > t
      BY <1>14, <2>0, <2>1
    <3>2. CASE k = s
      BY <1>11, <1>14, <2>0, <2>1, <3>2
    <3>3. CASE Same(k) /\ EndOf(r, k) <= s
      <4>1. j # s /\ Same(j)
        BY <1>1, <1>5, <1>11, <1>14, <2>0, <2>1, <3>3
      <4> QED
        BY <1>1, <1>5, <1>14, <2>0, <2>1, <3>1, <3>3, <4>1 DEF Ordered
    <3> QED
      BY <1>11, <3>1, <3>2, <3>3
  <2>2. CASE r[j].file <= t
    <3>1. r[k].file <= t /\ j # s /\ k # s
      BY <1>0, <1>4, <1>14, <2>2
    <3>2. CASE Same(j) /\ Same(k)
      BY <1>5, <1>14, <2>2, <3>1, <3>2 DEF Ordered
    <3>3. CASE Same(j) /\ Rest(k)
      <4>1. j \in DOMAIN m /\ s \in DOMAIN m /\ j # s /\ m[j].file <= t /\ m[s].file <= t
        BY <1>5, <1>6, <1>7, <2>2, <3>3
      <4>2. j < s => EndOf(m, j) <= s
        BY <4>1 DEF Ordered
      <4>3. s < j => EndOf(m, s) <= j
        BY <4>1 DEF Ordered
      <4> QED
        BY <1>1, <1>5, <1>7, <1>14, <3>3, <4>1, <4>2, <4>3
    <3>4. CASE Rest(j) /\ Same(k)
      <4>1. k \in DOMAIN m /\ s \in DOMAIN m /\ s < k /\ m[k].file <= t /\ m[s].file <= t
        BY <1>5, <1>6, <1>7, <1>14, <2>0, <3>1, <3>4
      <4>2. EndOf(m, s) <= k
        BY <4>1 DEF Ordered
      <4> QED
        BY <1>7, <3>4, <4>2
    <3>5. CASE Rest(j) /\ Rest(k)
      BY <1>7, <1>14, <2>0, <3>5
    <3> QED
      BY <1>3, <3>1, <3>2, <3>3, <3>4, <3>5
  <2> QED
    BY <2>0, <2>1, <2>2
<1>15. Ordered(r, t)
  BY <1>14 DEF Ordered
<1> QED
  BY <1>10, <1>12, <1>13, <1>15

LEMMA MergedKeeps ==
    ASSUME NEW m, NEW t \in Nat, NEW a, NEW b, NEW r,
           MapTypes(m), Ordered(m, t), Next(m, a, b),
           m[a].file = m[b].file, EndOf(m, a) = b, r = Merged(m, a, b)
    PROVE  /\ MapTypes(r) /\ Ordered(r, t)
           /\ \A k \in DOMAIN r : k \in DOMAIN m /\ r[k].file = m[k].file
<1>1. /\ a \in DOMAIN m /\ b \in DOMAIN m /\ a < b /\ a \in Nat /\ b \in Nat
      /\ \A k \in DOMAIN m : k \in Nat /\ (k <= a \/ b <= k)
      /\ \A k \in DOMAIN m : /\ m[k].len \in Nat \ {0} /\ m[k].file \in Files
                             /\ EndOf(m, k) = k + m[k].len
                             /\ EndOf(m, k) <= Reach /\ EndOf(m, k) \in Nat
  BY DEF Next, MapTypes, EndOf
<1>2. Joined(r, m, a, b)
  BY <1>1, MergedIs
<1>3. DOMAIN r = DOMAIN m \ {b} /\ \A k \in DOMAIN r : k # a => r[k] = m[k]
  BY <1>2 DEF Joined
<1>4. r[a] = Area(m[a].len + m[b].len, m[a].file) /\ m[a].len + m[b].len \in Nat \ {0}
  BY <1>1, <1>2 DEF Joined
<1>5. /\ r[a].len = m[a].len + m[b].len /\ r[a].file = m[a].file
      /\ EndOf(r, a) = EndOf(m, b)
  BY <1>1, <1>4 DEF Area, EndOf
<1>6. \A k \in DOMAIN r : /\ k \in DOMAIN m /\ k # b /\ r[k].file = m[k].file
                          /\ k # a => EndOf(r, k) = EndOf(m, k)
  BY <1>1, <1>3, <1>5 DEF EndOf
<1>7. \A k \in DOMAIN r : r[k] \in [len : Nat \ {0}, file : Files]
  <2>1. r[a] \in [len : Nat \ {0}, file : Files]
    BY <1>1, <1>4 DEF Area
  <2> QED
    BY <1>3, <1>6, <2>1 DEF MapTypes
<1>8. MapTypes(r)
  <2>1. \A k \in DOMAIN r : EndOf(r, k) <= Reach
    BY <1>1, <1>5, <1>6
  <2> QED
    BY <1>3, <1>7, <2>1 DEF MapTypes
<1>9. ASSUME NEW j \in DOMAIN r, NEW k \in DOMAIN r, j < k,
             r[j].file <= t <=> r[k].file <= t
      PROVE  EndOf(r, j) <= k
  <2>1. /\ j \in DOMAIN m /\ k \in DOMAIN m /\ k # b /\ j # b /\ j \in Nat /\ k \in Nat
        /\ m[j].file <= t <=> m[k].file <= t
    BY <1>1, <1>6, <1>9
  <2>2. CASE j = a
    <3>1. b < k
      BY <1>1, <1>9, <2>1, <2>2
    <3> QED
      BY <1>1, <1>5, <2>1, <2>2, <3>1 DEF Ordered
  <2>3. CASE j # a
    BY <1>6, <1>9, <2>1, <2>3 DEF Ordered
  <2> QED
    BY <2>2, <2>3
<1> QED
  BY <1>6, <1>8, <1>9 DEF Ordered

LEMMA CutSecondKeeps ==
    ASSUME NEW m, NEW t \in Nat, NEW a, NEW b, NEW r,
           MapTypes(m), Ordered(m, t), Next(m, a, b),
           m[a].file > t, m[b].file <= t, EndOf(m, a) > b, r = CutSecond(m, a, b)
    PROVE  /\ MapTypes(r) /\ Ordered(r, t)
           /\ \A k \in DOMAIN r : \E j \in DOMAIN m : r[k].file = m[j].file
           /\ SecondCut(r, m, a, b)
<1>1. /\ a \in DOMAIN m /\ b \in DOMAIN m /\ a < b /\ a \in Nat /\ b \in Nat
      /\ \A k \in DOMAIN m : k \in Nat /\ (k <= a \/ b <= k)
      /\ \A k \in DOMAIN m : /\ m[k].len \in Nat \ {0} /\ m[k].file \in Files
                             /\ EndOf(m, k) = k + m[k].len
                             /\ EndOf(m, k) <= Reach /\ EndOf(m, k) \in Nat
  BY DEF Next, MapTypes, EndOf
<1> DEFINE e == EndOf(m, a)
           Rest(k) == /\ k = e /\ e \notin DOMAIN m /\ e < EndOf(m, b)
                      /\ r[k] = Area(EndOf(m, b) - e, m[b].file)
           Same(k) == k \in DOMAIN m /\ k # b /\ r[k] = m[k]
<1>2. SecondCut(r, m, a, b)
  BY <1>1, CutSecondIs
<1>3. /\ DOMAIN r = (DOMAIN m \ {b}) \cup (IF e < EndOf(m, b) THEN {e} ELSE {})
      /\ \A k \in DOMAIN m : k # b => r[k] = m[k]
      /\ e < EndOf(m, b) /\ e \notin DOMAIN m => r[e] = Area(EndOf(m, b) - e, m[b].file)
  BY <1>2 DEF SecondCut
<1>4. e \in Nat /\ a < e /\ b < e
  BY <1>1
<1> HIDE DEF e
<1>5. \A k \in DOMAIN r : Same(k) \/ Rest(k)
  BY <1>1, <1>3, <1>4
<1>6. \A k : Same(k) => k \in DOMAIN m /\ k # b /\ r[k] = m[k] /\ EndOf(r, k) = EndOf(m, k)
  BY DEF EndOf
<1>7. \A k : Rest(k) => /\ k = e /\ k \notin DOMAIN m /\ r[k].file = m[b].file
                        /\ r[k].len = EndOf(m, b) - e /\ e < EndOf(m, b)
                        /\ EndOf(r, k) = EndOf(m, b)
  BY <1>1, <1>4 DEF Area, EndOf
<1>8. \A k \in DOMAIN r : /\ r[k] \in [len : Nat \ {0}, file : Files] /\ k \in Nat
                          /\ EndOf(r, k) <= Reach
  <2> TAKE k \in DOMAIN r
  <2>1. CASE Same(k)
    BY <1>1, <1>6, <2>1 DEF MapTypes
  <2>2. CASE Rest(k)
    <3>1. EndOf(m, b) - e \in Nat \ {0}
      BY <1>1, <1>4, <1>7, <2>2
    <3>2. r[k] \in [len : Nat \ {0}, file : Files]
      BY <1>1, <2>2, <3>1 DEF Area
    <3> HIDE DEF Rest
    <3> QED
      BY <1>1, <1>4, <1>7, <2>2, <3>2
  <2> QED
    BY <1>5, <2>1, <2>2
<1> HIDE DEF Rest, Same
<1>9. MapTypes(r)
  BY <1>8 DEF MapTypes
<1>10. ASSUME NEW j \in DOMAIN r, NEW k \in DOMAIN r, j < k,
             r[j].file <= t <=> r[k].file <= t
       PROVE  EndOf(r, j) <= k
  <2>0. j \in Nat /\ k \in Nat
    BY <1>8
  <2>1. CASE Same(j) /\ Same(k)
    BY <1>6, <1>10, <2>1 DEF Ordered
  <2>2. CASE Same(j) /\ Rest(k)
    <3>1. j \in DOMAIN m /\ j # b /\ m[j].file <= t /\ k = e /\ EndOf(r, j) = EndOf(m, j)
      BY <1>6, <1>7, <1>10, <2>2
    <3>2. j < b => EndOf(m, j) <= b
      BY <1>1, <3>1 DEF Ordered
    <3>3. b < j => EndOf(m, b) <= j
      BY <1>1, <3>1 DEF Ordered
    <3> QED
      BY <1>1, <1>4, <1>7, <1>10, <2>0, <2>2, <3>1, <3>2, <3>3
  <2>3. CASE Rest(j) /\ Same(k)
    <3>2. j = e /\ EndOf(r, j) = EndOf(m, b) /\ r[j].file <= t
      BY <1>7, <2>3
    <3>3. k \in DOMAIN m /\ r[k].file = m[k].file
      BY <1>6, <2>3
    <3>1. k \in DOMAIN m /\ m[k].file <= t /\ j = e /\ EndOf(r, j) = EndOf(m, b) /\ b < k
      BY <1>1, <1>4, <1>10, <2>0, <3>2, <3>3
    <3> QED
      BY <1>1, <3>1 DEF Ordered
  <2>4. CASE Rest(j) /\ Rest(k)
    BY <1>7, <1>10, <2>0, <2>4
  <2> QED
    BY <1>5, <2>1, <2>2, <2>3, <2>4
<1>11. Ordered(r, t)
  BY <1>10 DEF Ordered
<1>12. \A k \in DOMAIN r : \E j \in DOMAIN m : r[k].file = m[j].file
  BY <1>1, <1>5, <1>6, <1>7
<1> QED
  BY <1>2, <1>9, <1>11, <1>12

LEMMA CutFirstKeeps ==
    ASSUME NEW m, NEW t \in Nat, NEW a, NEW b, NEW r,
           MapTypes(m), Ordered(m, t), Next(m, a, b),
           m[a].file <= t, m[b].file > t, EndOf(m, a) > b, r = CutFirst(m, a, b)
    PROVE  /\ MapTypes(r) /\ Ordered(r, t)
           /\ \A k \in DOMAIN r : \E j \in DOMAIN m : r[k].file = m[j].file
           /\ \A k \in DOMAIN r : k \in DOMAIN m \/ b < k
           /\ EndOf(r, a) = b
           /\ FirstCut(r, m, a, b)
<1>1. /\ a \in DOMAIN m /\ b \in DOMAIN m /\ a < b /\ a \in Nat /\ b \in Nat
      /\ \A k \in DOMAIN m : k \in Nat /\ (k <= a \/ b <= k)
      /\ \A k \in DOMAIN m : /\ m[k].len \in Nat \ {0} /\ m[k].file \in Files
                             /\ EndOf(m, k) = k + m[k].len
                             /\ EndOf(m, k) <= Reach /\ EndOf(m, k) \in Nat
  BY DEF Next, MapTypes, EndOf
<1> DEFINE e == EndOf(m, b)
           Rest(k) == /\ k = e /\ e \notin DOMAIN m /\ e < EndOf(m, a)
                      /\ r[k] = Area(EndOf(m, a) - e, m[a].file)
           Same(k) == k \in DOMAIN m /\ k # a /\ r[k] = m[k]
<1>4. e \in Nat /\ a < e /\ b < e
  BY <1>1
<1>2. FirstCut(r, m, a, b)
  BY <1>1, <1>4, CutFirstIs
<1>3. /\ DOMAIN r = DOMAIN m \cup (IF EndOf(m, a) > e THEN {e} ELSE {})
      /\ r[a] = Area(b - a, m[a].file)
      /\ \A k \in DOMAIN m : k # a => r[k] = m[k]
      /\ EndOf(m, a) > e /\ e \notin DOMAIN m => r[e] = Area(EndOf(m, a) - e, m[a].file)
  BY <1>2 DEF FirstCut
<1> HIDE DEF e
<1>5. \A k \in DOMAIN r : k = a \/ Same(k) \/ Rest(k)
  BY <1>1, <1>3, <1>4
<1>6. \A k : Same(k) => k \in DOMAIN m /\ k # a /\ r[k] = m[k] /\ EndOf(r, k) = EndOf(m, k)
  BY DEF EndOf
<1>7. \A k : Rest(k) => /\ k = e /\ k \notin DOMAIN m /\ r[k].file = m[a].file
                        /\ r[k].len = EndOf(m, a) - e /\ e < EndOf(m, a)
                        /\ EndOf(r, k) = EndOf(m, a)
  BY <1>1, <1>4 DEF Area, EndOf
<1>15. r[a].len = b - a /\ r[a].file = m[a].file /\ EndOf(r, a) = b
  BY <1>1, <1>3 DEF Area, EndOf
<1>8. \A k \in DOMAIN r : /\ r[k] \in [len : Nat \ {0}, file : Files] /\ k \in Nat
                          /\ EndOf(r, k) <= Reach
  <2> TAKE k \in DOMAIN r
  <2>1. CASE Same(k)
    BY <1>1, <1>6, <2>1 DEF MapTypes
  <2>2. CASE Rest(k)
    <3>1. EndOf(m, a) - e \in Nat \ {0}
      BY <1>1, <1>4, <1>7, <2>2
    <3>2. r[k] \in [len : Nat \ {0}, file : Files]
      BY <1>1, <2>2, <3>1 DEF Area
    <3> HIDE DEF Rest
    <3> QED
      BY <1>1, <1>4, <1>7, <2>2, <3>2
  <2>3. CASE k = a
    <3>1. b - a \in Nat \ {0}
      BY <1>1
    <3>2. r[k] \in [len : Nat \ {0}, file : Files]
      BY <1>1, <1>3, <2>3, <3>1 DEF Area
    <3>3. b <= Reach
      BY <1>1, ReachBounds
    <3> QED
      BY <1>1, <1>15, <2>3, <3>2, <3>3
  <2> QED
    BY <1>5, <2>1, <2>2, <2>3
<1> HIDE DEF Rest, Same
<1>9. MapTypes(r)
  BY <1>8 DEF MapTypes
<1>10. ASSUME NEW j \in DOMAIN r, NEW k \in DOMAIN r, j < k,
             r[j].file <= t <=> r[k].file <= t
       PROVE  EndOf(r, j) <= k
  <2>0. j \in Nat /\ k \in Nat
    BY <1>8
  <2>1. CASE Same(j) /\ (Same(k) \/ k = a)
    <3>1. j \in DOMAIN m /\ k \in DOMAIN m /\ r[k].file = m[k].file
      BY <1>1, <1>6, <1>15, <2>1
    <3> QED
      BY <1>6, <1>10, <2>1, <3>1 DEF Ordered
  <2>2. CASE Same(j) /\ Rest(k)
    <3>1. j \in DOMAIN m /\ j # a /\ m[j].file <= t /\ k = e /\ EndOf(r, j) = EndOf(m, j)
      BY <1>6, <1>7, <1>10, <2>2
    <3>2. j < a => EndOf(m, j) <= a
      BY <1>1, <3>1 DEF Ordered
    <3>3. a < j => EndOf(m, a) <= j
      BY <1>1, <3>1 DEF Ordered
    <3> QED
      BY <1>1, <1>4, <1>7, <1>10, <2>0, <2>2, <3>1, <3>2, <3>3
  <2>3. CASE Rest(j) /\ Same(k)
    <3>2. j = e /\ EndOf(r, j) = EndOf(m, a) /\ r[j].file <= t
      BY <1>7, <2>3
    <3>3. k \in DOMAIN m /\ r[k].file = m[k].file
      BY <1>6, <2>3
    <3>1. k \in DOMAIN m /\ m[k].file <= t /\ j = e /\ EndOf(r, j) = EndOf(m, a) /\ a < k
      BY <1>1, <1>4, <1>10, <2>0, <3>2, <3>3
    <3> QED
      BY <1>1, <3>1 DEF Ordered
  <2>4. CASE Rest(j) /\ (Rest(k) \/ k = a)
    BY <1>1, <1>4, <1>7, <1>10, <2>0, <2>4
  <2>5. CASE j = a
    <3>1. k \in DOMAIN m => b <= k
      BY <1>1, <1>10, <2>0, <2>5
    <3>2. Rest(k) => b <= k
      BY <1>1, <1>4, <1>7
    <3>3. k \in DOMAIN m \/ Rest(k)
      BY <1>1, <1>5, <1>6
    <3> QED
      BY <1>15, <2>5, <3>1, <3>2, <3>3
  <2> QED
    BY <1>5, <2>1, <2>2, <2>3, <2>4, <2>5
<1>11. Ordered(r, t)
  BY <1>10 DEF Ordered
<1>12. \A k \in DOMAIN r : \E j \in DOMAIN m : r[k].file = m[j].file
  BY <1>1, <1>5, <1>6, <1>7, <1>15
<1>13. \A k \in DOMAIN r : k \in DOMAIN m \/ b < k
  BY <1>1, <1>4, <1>5, <1>6, <1>7
<1> QED
  BY <1>2, <1>9, <1>11, <1>12, <1>13, <1>15

-----------------------------------------------------------------------------
(* The invariant of every chain.                                           *)

StateTypes ==
    /\ \A f \in Files : held[f] \in Contents(f)
    /\ file \in Files
    /\ cluster \in 0..ClusterCount(file)
    /\ phase \in {"scan", "merge", "trim", "done"}
    /\ phase = "done" => file = NFiles
    /\ at \in DOMAIN areas \cup {End}
    /\ MapTypes(areas)
    /\ \A k \in DOMAIN areas : areas[k].file <= file

\* The clusters of this file that were recorded are behind the scan.
Front ==
    phase = "scan" =>
        \A k \in DOMAIN areas :
            areas[k].file > Settled => EndOf(areas, k) <= cluster * ClusterSectors[file]

\* Nothing overlaps an area the trimming sweep has passed.
Swept ==
    /\ phase = "trim" =>
          \A j, k \in DOMAIN areas : j < at /\ j < k => EndOf(areas, j) <= k
    /\ phase \in {"merge", "trim"} /\ at = End => DOMAIN areas = {}

Inv == StateTypes /\ Ordered(areas, Settled) /\ Front /\ Swept

LEMMA InvFacts ==
    ASSUME Inv
    PROVE  /\ NFiles \in Nat \ {0} /\ file \in Nat /\ file \in Files
           /\ file <= NFiles /\ Files \subseteq Nat
           /\ Settled \in Nat /\ Settled <= file
           /\ phase # "done" => Settled = file - 1
           /\ cluster \in Nat /\ ClusterSectors[file] \in Nat \ {0}
           /\ cluster * ClusterSectors[file] \in Nat
           /\ DOMAIN areas \subseteq Nat
           /\ \A k \in DOMAIN areas :
                 /\ k \in Nat /\ EndOf(areas, k) \in Nat
                 /\ areas[k].len \in Nat \ {0} /\ EndOf(areas, k) = k + areas[k].len
                 /\ areas[k].file \in Nat /\ areas[k].file <= file
<1>1. NFiles \in Nat \ {0} /\ file \in Files /\ Files \subseteq Nat
      /\ file \in Nat /\ file <= NFiles /\ 1 <= file /\ (phase = "done" => file = NFiles)
  BY NFilesAssumption DEF Inv, StateTypes, Files
<1>2. Settled \in Nat /\ Settled <= file /\ (phase # "done" => Settled = file - 1)
  <2>1. CASE phase = "done"
    BY <1>1, <2>1 DEF Settled
  <2>2. CASE phase # "done"
    BY <1>1, <2>2 DEF Settled
  <2> QED
    BY <2>1, <2>2
<1>3. /\ cluster \in Nat /\ ClusterSectors[file] \in Nat \ {0}
      /\ cluster * ClusterSectors[file] \in Nat
  <2>1. ClusterSectors[file] \in Nat \ {0} /\ ClusterCount(file) \in Nat
    BY <1>1, Counts
  <2>2. cluster \in Nat
    BY <2>1 DEF Inv, StateTypes
  <2> QED
    BY <2>1, <2>2
<1>4. MapTypes(areas) /\ \A k \in DOMAIN areas : areas[k].file <= file
  BY DEF Inv, StateTypes
<1>5. DOMAIN areas \subseteq Nat
  BY <1>4 DEF MapTypes
<1>6. ASSUME NEW k \in DOMAIN areas
      PROVE  /\ k \in Nat /\ EndOf(areas, k) \in Nat
             /\ areas[k].len \in Nat \ {0} /\ EndOf(areas, k) = k + areas[k].len
             /\ areas[k].file \in Nat /\ areas[k].file <= file
  <2>1. areas[k] \in [len : Nat \ {0}, file : Files] /\ k \in Nat
    BY <1>4 DEF MapTypes
  <2>2. areas[k].len \in Nat \ {0} /\ areas[k].file \in Files /\ areas[k].file <= file
    BY <1>4, <2>1
  <2>3. EndOf(areas, k) = k + areas[k].len
    BY DEF EndOf
  <2>4. areas[k].file \in Nat
    BY <1>1, <2>2
  <2>5. EndOf(areas, k) \in Nat
    BY <2>1, <2>2, <2>3
  <2> QED
    BY <2>1, <2>2, <2>3, <2>4, <2>5
<1> QED
  BY <1>1, <1>2, <1>3, <1>5, <1>6

-----------------------------------------------------------------------------
(* Every step keeps it.                                                    *)

\* Turning to the next file makes the areas of this one old.
LEMMA NextFileSettles ==
    ASSUME Inv, phase \in {"scan", "trim"}, NextFile, UNCHANGED <<held, areas>>,
           \A j, k \in DOMAIN areas : j < k => EndOf(areas, j) <= k
    PROVE  /\ Inv' /\ Settled' = file /\ file' \in Files
           /\ file' # file => file' = file + 1 /\ phase' = "scan" /\ cluster' = 0
           /\ file' = file => phase' = "done"
<1>1. /\ NFiles \in Nat \ {0} /\ file \in Nat /\ 1 <= file /\ file <= NFiles
      /\ file \in Files /\ Files = 1..NFiles
  BY InvFacts DEF Files
<1>2. \/ file' = file /\ phase' = "done" /\ file = NFiles
      \/ file' = file + 1 /\ phase' = "scan" /\ file # NFiles
  BY DEF NextFile
<1>3. cluster' = 0 /\ at' = End /\ areas' = areas /\ held' = held
  BY DEF NextFile
<1>4. file' \in Files /\ file' \in Nat /\ file <= file'
  BY <1>1, <1>2
<1>5. Settled' = file
  <2>1. CASE phase' = "done"
    BY <1>1, <1>2, <2>1 DEF Settled
  <2>2. CASE phase' = "scan"
    BY <1>1, <1>2, <2>2 DEF Settled
  <2> QED
    BY <1>2, <2>1, <2>2
<1>6. /\ MapTypes(areas) /\ \A k \in DOMAIN areas : areas[k].file \in Nat /\ areas[k].file <= file
      /\ \A f \in Files : held[f] \in Contents(f)
  BY InvFacts DEF Inv, StateTypes
<1>7. 0 \in 0..ClusterCount(file')
  BY <1>4, Counts
<1>8. StateTypes'
  BY <1>1, <1>2, <1>3, <1>4, <1>6, <1>7 DEF StateTypes
<1>9. Ordered(areas, file)
  BY DEF Ordered
<1>10. Front'
  BY <1>1, <1>3, <1>5, <1>6 DEF Front
<1>11. Swept'
  BY <1>2 DEF Swept
<1> QED
  BY <1>1, <1>2, <1>3, <1>4, <1>5, <1>8, <1>9, <1>10, <1>11 DEF Inv

LEMMA SkipEmptyKeeps == ASSUME Inv, SkipEmpty PROVE Inv'
<1>1. phase = "scan" /\ cluster = 0 /\ NextFile /\ UNCHANGED <<held, areas>>
  BY DEF SkipEmpty
<1>2. \A k \in DOMAIN areas : areas[k].file <= Settled
  BY <1>1, InvFacts DEF Inv, Front
<1>3. \A j, k \in DOMAIN areas : j < k => EndOf(areas, j) <= k
  BY <1>2 DEF Inv, Ordered
<1> QED
  BY <1>1, <1>3, NextFileSettles

LEMMA ScanClusterKeeps == ASSUME Inv, ScanCluster PROVE Inv'
<1> DEFINE n == ClusterSectors[file]
           len == held[file][cluster]
<1>1. /\ phase = "scan" /\ cluster \in Clusters(file) /\ cluster' = cluster + 1
      /\ held' = held /\ file' = file /\ phase' = phase /\ at' = at
      /\ areas' = IF len = 0 THEN areas ELSE Record(areas, cluster * n, len, file)
  BY DEF ScanCluster
<1>2. /\ cluster \in Nat /\ n \in Nat \ {0} /\ cluster * n \in Nat /\ file \in Files
      /\ Settled \in Nat /\ Settled < file /\ file \in Nat /\ ClusterCount(file) \in Nat
      /\ cluster + 1 \in 0..ClusterCount(file)
  BY <1>1, InvFacts, Counts DEF Clusters
<1>3. len \in 0..n
  <2>1. held[file] \in [Clusters(file) -> 0..n]
    BY <1>2 DEF Inv, StateTypes, Contents
  <2> QED
    BY <1>1, <2>1
<1>4. (cluster + 1) * n = cluster * n + n /\ (cluster + 1) * n <= Reach
  <2>1. (cluster + 1) * n = cluster * n + n
    BY <1>2
  <2>2. EndSector(file) = ClusterCount(file) * n
    BY DEF EndSector
  <2>3. \E d \in Nat : ClusterCount(file) = cluster + 1 + d
    <3>1. ClusterCount(file) - (cluster + 1) \in Nat
      BY <1>2
    <3>2. ClusterCount(file) = cluster + 1 + (ClusterCount(file) - (cluster + 1))
      BY <1>2
    <3> QED
      BY <3>1, <3>2
  <2>4. PICK d \in Nat : ClusterCount(file) = cluster + 1 + d
    BY <2>3
  <2>5. ClusterCount(file) * n = (cluster + 1) * n + d * n /\ d * n \in Nat
    BY <1>2, <2>4
  <2>6. EndSector(file) <= Reach /\ EndSector(file) \in Nat /\ Reach \in Nat
    BY <1>2, ReachBounds, Counts
  <2>7. (cluster + 1) * n \in Nat
    BY <1>2
  <2> QED
    BY <2>1, <2>2, <2>5, <2>6, <2>7
<1>5. /\ MapTypes(areas) /\ Ordered(areas, Settled)
      /\ \A k \in DOMAIN areas : areas[k].file > Settled => EndOf(areas, k) <= cluster * n
      /\ \A k \in DOMAIN areas : areas[k].file <= file
  BY <1>1 DEF Inv, StateTypes, Front
<1> HIDE DEF n, len
<1>6. /\ MapTypes(areas') /\ Ordered(areas', Settled)
      /\ \A k \in DOMAIN areas' :
            areas'[k].file > Settled => EndOf(areas', k) <= cluster * n + n
      /\ \A k \in DOMAIN areas' : areas'[k].file <= file
      /\ DOMAIN areas \subseteq DOMAIN areas'
  <2>1. CASE len = 0
    <3>1. areas' = areas
      BY <1>1, <2>1
    <3>2. \A k \in DOMAIN areas : EndOf(areas, k) \in Nat
      BY InvFacts
    <3> QED
      BY <1>2, <1>5, <3>1, <3>2
  <2>2. CASE len # 0
    <3>1. /\ len \in Nat \ {0} /\ len <= n /\ cluster * n + len <= Reach
          /\ areas' = Record(areas, cluster * n, len, file)
      BY <1>1, <1>2, <1>3, <1>4, <2>2, ReachBounds
    <3>2. /\ MapTypes(areas') /\ Ordered(areas', Settled)
          /\ \A k \in DOMAIN areas' :
                areas'[k].file > Settled => EndOf(areas', k) <= cluster * n + len
          /\ \A k \in DOMAIN areas' :
                areas'[k].file = file \/ \E j \in DOMAIN areas : areas'[k].file = areas[j].file
      BY <1>2, <1>5, <3>1, RecordKeeps
    <3>3. \A k \in DOMAIN areas' : k \in Nat /\ areas'[k].len \in Nat
      BY <3>2 DEF MapTypes
    <3>4. \A k \in DOMAIN areas' : EndOf(areas', k) \in Nat
      BY <3>3 DEF EndOf
    <3>5. \A k \in DOMAIN areas' :
             areas'[k].file > Settled => EndOf(areas', k) <= cluster * n + n
      BY <1>2, <3>1, <3>2, <3>4
    <3>6. \A k \in DOMAIN areas' : areas'[k].file <= file
      BY <1>2, <1>5, <3>2
    <3>7. DOMAIN areas \subseteq DOMAIN areas'
      <4>1. Recorded(areas', areas, cluster * n, len, file)
        BY <1>2, <1>5, <3>1, RecordIs DEF MapTypes
      <4> QED
        BY <4>1 DEF Recorded
    <3> QED
      BY <3>2, <3>5, <3>6, <3>7
  <2> QED
    BY <2>1, <2>2
<1>7. Settled' = Settled
  BY <1>1 DEF Settled
<1>8. StateTypes'
  BY <1>1, <1>2, <1>6 DEF Inv, StateTypes
<1>9. Front'
  BY <1>1, <1>2, <1>4, <1>6, <1>7 DEF Front, n
<1>10. Swept'
  BY <1>1 DEF Swept
<1> QED
  BY <1>6, <1>7, <1>8, <1>9, <1>10 DEF Inv

LEMMA ScanEndKeeps == ASSUME Inv, ScanEnd PROVE Inv'
<1>1. /\ phase = "scan" /\ phase' = "merge" /\ at' = Begin(areas)
      /\ held' = held /\ areas' = areas /\ file' = file /\ cluster' = cluster
  BY DEF ScanEnd
<1>2. /\ at' = End => DOMAIN areas = {}
      /\ at' \in DOMAIN areas \cup {End}
  BY <1>1, InvFacts, KeyIs
<1>3. Settled' = Settled
  BY <1>1 DEF Settled
<1> QED
  BY <1>1, <1>2, <1>3 DEF Inv, StateTypes, Front, Swept

LEMMA MergeEndKeeps == ASSUME Inv, MergeEnd PROVE Inv'
<1>1. /\ phase = "merge" /\ phase' = "trim" /\ at' = Begin(areas)
      /\ held' = held /\ areas' = areas /\ file' = file /\ cluster' = cluster
  BY DEF MergeEnd
<1>2. /\ at' = End => DOMAIN areas = {}
      /\ at' \in DOMAIN areas \cup {End}
      /\ at' # End => \A k \in DOMAIN areas : at' <= k
  BY <1>1, InvFacts, KeyIs
<1>3. Settled' = Settled
  BY <1>1 DEF Settled
<1>4. \A j \in DOMAIN areas : ~(j < at')
  BY <1>2, InvFacts
<1> QED
  BY <1>1, <1>2, <1>3, <1>4 DEF Inv, StateTypes, Front, Swept

LEMMA MergeStepKeeps == ASSUME Inv, MergeStep PROVE Inv'
<1> DEFINE b == NextKey(areas, at)
<1>1. /\ phase = "merge" /\ phase' = phase /\ at # End /\ b # End
      /\ held' = held /\ file' = file /\ cluster' = cluster
      /\ \/ /\ areas[at].file = areas[b].file /\ EndOf(areas, at) = b
            /\ areas' = Merged(areas, at, b) /\ at' = at
         \/ at' = b /\ areas' = areas
  BY DEF MergeStep
<1>2. at \in DOMAIN areas
  BY <1>1 DEF Inv, StateTypes
<1>3. Next(areas, at, b)
  BY <1>1, <1>2, InvFacts, KeyIs
<1> HIDE DEF b
<1>4. Settled' = Settled
  BY <1>1 DEF Settled
<1>5. CASE at' = b /\ areas' = areas
  BY <1>1, <1>3, <1>4, <1>5 DEF Inv, StateTypes, Front, Swept, Next
<1>6. CASE /\ areas[at].file = areas[b].file /\ EndOf(areas, at) = b
           /\ areas' = Merged(areas, at, b) /\ at' = at
  <2>1. /\ MapTypes(areas') /\ Ordered(areas', Settled)
        /\ \A k \in DOMAIN areas' : k \in DOMAIN areas /\ areas'[k].file = areas[k].file
    BY <1>3, <1>6, InvFacts, MergedKeeps DEF Inv, StateTypes
  <2>2. at \in DOMAIN areas'
    <3>1. Joined(areas', areas, at, b) /\ at # b
      BY <1>3, <1>6, InvFacts, MergedIs DEF Next
    <3> QED
      BY <1>2, <3>1 DEF Joined
  <2>3. StateTypes'
    BY <1>1, <1>6, <2>1, <2>2 DEF Inv, StateTypes
  <2> QED
    BY <1>1, <1>4, <1>6, <2>1, <2>3 DEF Inv, Front, Swept
<1> QED
  BY <1>1, <1>5, <1>6

\* The trimming sweep at a and the next area b: a new area cuts an old one
\* behind it or before it, or nothing is cut.
TrimCase(a, b) ==
    \/ /\ areas[a].file > Settled /\ areas[b].file <= Settled
       /\ EndOf(areas, a) > b
       /\ areas' = CutSecond(areas, a, b)
       /\ at' = IF EndOf(areas, a) < EndOf(areas, b) THEN Begin(areas') ELSE a
    \/ /\ areas[a].file <= Settled /\ areas[b].file > Settled
       /\ EndOf(areas, a) > b
       /\ areas' = CutFirst(areas, a, b)
       /\ at' = b
    \/ EndOf(areas, a) <= b /\ at' = b /\ areas' = areas

LEMMA TrimCases ==
    ASSUME Inv, TrimStep
    PROVE  /\ phase = "trim" /\ phase' = "trim" /\ UNCHANGED <<held, file, cluster>>
           /\ at \in DOMAIN areas /\ at # End
           /\ Next(areas, at, NextKey(areas, at))
           /\ TrimCase(at, NextKey(areas, at))
<1> DEFINE b == NextKey(areas, at)
<1>1. /\ phase = "trim" /\ phase' = phase /\ at # End /\ b # End
      /\ UNCHANGED <<held, file, cluster>>
      /\ \/ /\ EndOf(areas, at) > b /\ areas[at].file = file
            /\ areas' = CutSecond(areas, at, b)
            /\ at' = IF EndOf(areas, at) < EndOf(areas, b) THEN Begin(areas') ELSE at
         \/ /\ EndOf(areas, at) > b /\ areas[at].file # file /\ areas[b].file = file
            /\ areas' = CutFirst(areas, at, b) /\ at' = b
         \/ /\ EndOf(areas, at) > b => areas[at].file # file /\ areas[b].file # file
            /\ at' = b /\ areas' = areas
  BY DEF TrimStep
<1>2. at \in DOMAIN areas
  BY <1>1 DEF Inv, StateTypes
<1>3. Next(areas, at, b)
  BY <1>1, <1>2, InvFacts, KeyIs
<1> HIDE DEF b
<1>4. /\ \A k \in DOMAIN areas : areas[k].file <= Settled <=> areas[k].file # file
      /\ \A k \in DOMAIN areas : areas[k].file > Settled <=> areas[k].file = file
      /\ b \in DOMAIN areas /\ at < b /\ EndOf(areas, at) \in Nat /\ b \in Nat
  <2>1. Settled = file - 1 /\ file \in Nat
    BY <1>1, InvFacts
  <2>2. \A k \in DOMAIN areas : areas[k].file \in Nat /\ areas[k].file <= file
    BY InvFacts
  <2>3. b \in DOMAIN areas /\ at < b
    BY <1>3 DEF Next
  <2>4. EndOf(areas, at) \in Nat /\ b \in Nat
    BY <1>2, <2>3, InvFacts
  <2> QED
    BY <2>1, <2>2, <2>3, <2>4
<1>5. EndOf(areas, at) > b => ~(areas[at].file <= Settled <=> areas[b].file <= Settled)
  BY <1>2, <1>4 DEF Inv, Ordered
<1>6. TrimCase(at, b)
  <2>1. CASE /\ EndOf(areas, at) > b /\ areas[at].file = file
             /\ areas' = CutSecond(areas, at, b)
             /\ at' = IF EndOf(areas, at) < EndOf(areas, b) THEN Begin(areas') ELSE at
    BY <1>2, <1>4, <1>5, <2>1 DEF TrimCase
  <2>2. CASE /\ EndOf(areas, at) > b /\ areas[at].file # file /\ areas[b].file = file
             /\ areas' = CutFirst(areas, at, b) /\ at' = b
    BY <1>2, <1>4, <2>2 DEF TrimCase
  <2>3. CASE /\ EndOf(areas, at) > b => areas[at].file # file /\ areas[b].file # file
             /\ at' = b /\ areas' = areas
    <3>1. EndOf(areas, at) <= b
      BY <1>2, <1>4, <1>5, <2>3
    <3> QED
      BY <2>3, <3>1 DEF TrimCase
  <2> QED
    BY <1>1, <2>1, <2>2, <2>3
<1> QED
  BY <1>1, <1>2, <1>3, <1>6 DEF b

LEMMA TrimStepKeeps == ASSUME Inv, TrimStep PROVE Inv'
<1> DEFINE a == at
           b == NextKey(areas, at)
<1>1. /\ phase = "trim" /\ phase' = "trim" /\ UNCHANGED <<held, file, cluster>>
      /\ a \in DOMAIN areas /\ a # End /\ a = at
      /\ Next(areas, a, b) /\ TrimCase(a, b)
  BY TrimCases
<1> HIDE DEF a, b
<1>2. /\ a < b /\ b \in DOMAIN areas /\ a \in Nat /\ b \in Nat
      /\ \A k \in DOMAIN areas : k \in Nat /\ (k <= a \/ b <= k)
      /\ \A k \in DOMAIN areas : EndOf(areas, k) \in Nat
  BY <1>1, InvFacts DEF Next
<1>3. Settled' = Settled /\ Settled \in Nat
  BY <1>1, InvFacts DEF Settled
<1>4. MapTypes(areas) /\ Ordered(areas, Settled)
  BY DEF Inv, StateTypes
<1>5. \A j, k \in DOMAIN areas : j < a /\ j < k => EndOf(areas, j) <= k
  BY <1>1 DEF Inv, Swept
<1>6. \A k \in DOMAIN areas : areas[k].file <= file
  BY DEF Inv, StateTypes
<1>7. SUFFICES /\ MapTypes(areas') /\ Ordered(areas', Settled)
               /\ at' \in DOMAIN areas' /\ at' # End
               /\ \A k \in DOMAIN areas' : areas'[k].file <= file
               /\ \A j, k \in DOMAIN areas' : j < at' /\ j < k => EndOf(areas', j) <= k
  <2>1. StateTypes'
    BY <1>1, <1>7 DEF Inv, StateTypes
  <2> QED
    BY <1>1, <1>3, <1>7, <2>1 DEF Inv, Front, Swept
<1>8. CASE /\ areas[a].file > Settled /\ areas[b].file <= Settled
           /\ EndOf(areas, a) > b
           /\ areas' = CutSecond(areas, a, b)
           /\ at' = IF EndOf(areas, a) < EndOf(areas, b) THEN Begin(areas') ELSE a
  <2>1. /\ MapTypes(areas') /\ Ordered(areas', Settled)
        /\ \A k \in DOMAIN areas' : \E j \in DOMAIN areas : areas'[k].file = areas[j].file
        /\ SecondCut(areas', areas, a, b)
    BY <1>1, <1>3, <1>4, <1>8, CutSecondKeeps
  <2>6. /\ \A k \in DOMAIN areas : k # b => k \in DOMAIN areas' /\ areas'[k] = areas[k]
        /\ ~(EndOf(areas, a) < EndOf(areas, b)) => DOMAIN areas' = DOMAIN areas \ {b}
    BY <2>1 DEF SecondCut
  <2>2. \A k \in DOMAIN areas' : areas'[k].file <= file
    BY <1>6, <2>1
  <2>3. a \in DOMAIN areas' /\ DOMAIN areas' \subseteq Nat
    BY <1>1, <1>2, <2>1, <2>6 DEF MapTypes
  <2>4. CASE EndOf(areas, a) < EndOf(areas, b)
    <3>1. at' = Begin(areas')
      BY <1>8, <2>4
    <3>2. /\ Begin(areas') \in DOMAIN areas' /\ Begin(areas') # End
          /\ \A k \in DOMAIN areas' : Begin(areas') <= k
      BY <2>3, KeyIs
    <3>3. \A k \in DOMAIN areas' : ~(k < at')
      BY <2>3, <3>1, <3>2
    <3> QED
      BY <2>1, <2>2, <3>1, <3>2, <3>3
  <2>5. CASE ~(EndOf(areas, a) < EndOf(areas, b))
    <3>1. at' = a /\ DOMAIN areas' = DOMAIN areas \ {b}
      BY <1>8, <2>6, <2>5
    <3>2. \A k \in DOMAIN areas' : k \in DOMAIN areas /\ EndOf(areas', k) = EndOf(areas, k)
      BY <2>6, <3>1 DEF EndOf
    <3> QED
      BY <1>1, <1>5, <2>1, <2>2, <2>3, <3>1, <3>2
  <2> QED
    BY <2>4, <2>5
<1>9. CASE /\ areas[a].file <= Settled /\ areas[b].file > Settled
           /\ EndOf(areas, a) > b
           /\ areas' = CutFirst(areas, a, b)
           /\ at' = b
  <2>1. /\ MapTypes(areas') /\ Ordered(areas', Settled)
        /\ \A k \in DOMAIN areas' : \E j \in DOMAIN areas : areas'[k].file = areas[j].file
        /\ \A k \in DOMAIN areas' : k \in DOMAIN areas \/ b < k
        /\ EndOf(areas', a) = b
        /\ FirstCut(areas', areas, a, b)
    BY <1>1, <1>3, <1>4, <1>9, CutFirstKeeps
  <2>5. \A k \in DOMAIN areas : k \in DOMAIN areas' /\ (k # a => areas'[k] = areas[k])
    BY <2>1 DEF FirstCut
  <2>2. \A k \in DOMAIN areas' : areas'[k].file <= file
    BY <1>6, <2>1
  <2>3. b \in DOMAIN areas' /\ DOMAIN areas' \subseteq Nat /\ b # End
    BY <1>2, <2>1, <2>5 DEF MapTypes, End
  <2>4. ASSUME NEW j \in DOMAIN areas', NEW k \in DOMAIN areas', j < b, j < k
        PROVE  EndOf(areas', j) <= k
    <3>0. j \in Nat /\ k \in Nat
      BY <2>3
    <3>1. j \in DOMAIN areas /\ j <= a
      BY <1>2, <2>1, <2>4, <3>0
    <3>2. CASE j = a
      BY <1>2, <2>1, <2>4, <3>0, <3>2
    <3>3. CASE j # a
      <4>1. j < a /\ EndOf(areas', j) = EndOf(areas, j)
        BY <1>2, <2>5, <3>0, <3>1, <3>3 DEF EndOf
      <4>2. EndOf(areas, j) <= a /\ EndOf(areas, j) \in Nat
        BY <1>1, <1>2, <1>5, <3>1, <4>1
      <4>3. CASE k \in DOMAIN areas
        BY <1>5, <2>4, <3>1, <4>1, <4>3
      <4>4. CASE b < k
        BY <1>2, <3>0, <4>1, <4>2, <4>4
      <4> QED
        BY <2>1, <4>3, <4>4
    <3> QED
      BY <3>2, <3>3
  <2> QED
    BY <1>9, <2>1, <2>2, <2>3, <2>4
<1>10. CASE EndOf(areas, a) <= b /\ at' = b /\ areas' = areas
  <2>1. ASSUME NEW j \in DOMAIN areas, NEW k \in DOMAIN areas, j < b, j < k
        PROVE  EndOf(areas, j) <= k
    <3>1. CASE j < a
      BY <1>5, <2>1, <3>1
    <3>2. CASE j = a
      BY <1>2, <1>10, <2>1, <3>2
    <3> QED
      BY <1>2, <2>1, <3>1, <3>2
  <2>2. b # End
    BY <1>2 DEF End
  <2> QED
    BY <1>2, <1>4, <1>6, <1>10, <2>1, <2>2
<1> QED
  BY <1>1, <1>8, <1>9, <1>10 DEF TrimCase

LEMMA TrimEndFacts ==
    ASSUME Inv, TrimEnd
    PROVE  /\ phase = "trim" /\ NextFile /\ UNCHANGED <<held, areas>>
           /\ \A j, k \in DOMAIN areas : j < k => EndOf(areas, j) <= k
<1>1. phase = "trim" /\ SweepOver /\ NextFile /\ UNCHANGED <<held, areas>>
  BY DEF TrimEnd
<1>2. CASE at = End
  BY <1>1, <1>2 DEF Inv, Swept
<1>3. CASE at # End
  <2>1. at \in DOMAIN areas /\ NextKey(areas, at) = End
    BY <1>1, <1>3 DEF SweepOver, Inv, StateTypes
  <2>2. \A k \in DOMAIN areas : k <= at /\ k \in Nat
    BY <2>1, InvFacts, KeyIs
  <2>3. \A j, k \in DOMAIN areas : j < at /\ j < k => EndOf(areas, j) <= k
    BY <1>1 DEF Inv, Swept
  <2>4. \A j, k \in DOMAIN areas : j < k => j < at
    BY <2>1, <2>2
  <2> QED
    BY <1>1, <2>3, <2>4
<1> QED
  BY <1>2, <1>3

LEMMA TrimEndKeeps == ASSUME Inv, TrimEnd PROVE Inv'
BY TrimEndFacts, NextFileSettles

LEMMA InitInv == Init => Inv
<1> SUFFICES ASSUME Init PROVE Inv
  OBVIOUS
<1>1. /\ \A f \in Files : held[f] \in Contents(f)
      /\ areas = <<>> /\ file = 1 /\ cluster = 0 /\ phase = "scan" /\ at = End
  BY DEF Init
<1>2. DOMAIN areas = {}
  BY <1>1
<1>3. 1 \in Files /\ cluster \in 0..ClusterCount(1)
  <2>1. 1 \in Files
    BY NFilesAssumption DEF Files
  <2> QED
    BY <1>1, <2>1, Counts
<1> QED
  BY <1>1, <1>2, <1>3 DEF Inv, StateTypes, MapTypes, Ordered, Front, Swept

LEMMA StepInv == Inv /\ [Query]_vars => Inv'
<1> SUFFICES ASSUME Inv, [Query]_vars PROVE Inv'
  OBVIOUS
<1>1. CASE SkipEmpty
  BY <1>1, SkipEmptyKeeps
<1>2. CASE ScanCluster
  BY <1>2, ScanClusterKeeps
<1>3. CASE ScanEnd
  BY <1>3, ScanEndKeeps
<1>4. CASE MergeStep
  BY <1>4, MergeStepKeeps
<1>5. CASE MergeEnd
  BY <1>5, MergeEndKeeps
<1>6. CASE TrimStep
  BY <1>6, TrimStepKeeps
<1>7. CASE TrimEnd
  BY <1>7, TrimEndKeeps
<1>8. CASE UNCHANGED vars
  <2>1. Settled' = Settled
    BY <1>8 DEF vars, Settled
  <2> QED
    BY <1>8, <2>1 DEF vars, Inv, StateTypes, Front, Swept
<1> QED
  BY <1>1, <1>2, <1>3, <1>4, <1>5, <1>6, <1>7, <1>8 DEF Query

LEMMA InvHolds == Spec => []Inv
BY InitInv, StepInv, PTL DEF Spec

LEMMA InvTypes == Inv => TypeOK
<1> SUFFICES ASSUME Inv PROVE TypeOK
  OBVIOUS
<1>1. Reach \in Nat
  BY ReachBounds
<1>2. ASSUME NEW k \in DOMAIN areas
      PROVE  k \in 0..Reach /\ areas[k] \in [len : 1..Reach, file : Files]
  <2>1. /\ areas[k] \in [len : Nat \ {0}, file : Files] /\ EndOf(areas, k) <= Reach
        /\ k \in Nat
    BY <1>2 DEF Inv, StateTypes, MapTypes
  <2>2. areas[k].len \in Nat \ {0} /\ EndOf(areas, k) = k + areas[k].len
    BY <2>1 DEF EndOf
  <2>3. areas[k].len \in 1..Reach /\ k \in 0..Reach
    BY <1>1, <2>1, <2>2
  <2> QED
    BY <2>1, <2>3
<1> QED
  BY <1>2 DEF TypeOK, Inv, StateTypes

LEMMA InvDisjoint == Inv => AreasDisjoint
<1> SUFFICES ASSUME Inv, AtRest PROVE \A j, k \in DOMAIN areas : j < k => EndOf(areas, j) <= k
  BY DEF AreasDisjoint
<1>1. \A k \in DOMAIN areas : areas[k].file <= Settled
  <2>1. CASE phase = "done"
    BY <2>1, InvFacts DEF Settled
  <2>2. CASE phase = "scan" /\ cluster = 0
    BY <2>2, InvFacts DEF Inv, Front
  <2> QED
    BY <2>1, <2>2 DEF AtRest
<1> QED
  BY <1>1 DEF Inv, Ordered

\* The query of any chain keeps to its types: an area is inside the disk, and
\* of a file that was worked in.  (QueryChangedDiskAreas)
THEOREM TypeCorrect == Spec => []TypeOK
BY InvHolds, InvTypes, PTL

\* Whatever the clusters of the files and however they end, no two areas of a
\* finished file overlap.  (QueryChangedAreas, lines 676-732)
THEOREM AreasNeverOverlap == Spec => []AreasDisjoint
BY InvHolds, InvDisjoint, PTL

-----------------------------------------------------------------------------
(* Which file has a sector, by the map and by the files.                   *)

LEMMA MapFacts ==
    ASSUME NEW m, MapTypes(m)
    PROVE  /\ DOMAIN m \subseteq Nat
           /\ \A k \in DOMAIN m : /\ k \in Nat /\ m[k].len \in Nat \ {0}
                                  /\ m[k].file \in Nat
                                  /\ EndOf(m, k) = k + m[k].len /\ EndOf(m, k) \in Nat
<1>1. Files \subseteq Nat
  BY NFilesAssumption DEF Files
<1>2. DOMAIN m \subseteq Nat
  BY DEF MapTypes
<1>3. ASSUME NEW k \in DOMAIN m
      PROVE  /\ k \in Nat /\ m[k].len \in Nat \ {0} /\ m[k].file \in Nat
             /\ EndOf(m, k) = k + m[k].len /\ EndOf(m, k) \in Nat
  <2>1. m[k] \in [len : Nat \ {0}, file : Files]
    BY DEF MapTypes
  <2>2. k \in Nat /\ m[k].len \in Nat \ {0} /\ m[k].file \in Files
    BY <1>2, <2>1
  <2>3. EndOf(m, k) = k + m[k].len
    BY DEF EndOf
  <2>4. EndOf(m, k) \in Nat
    BY <2>2, <2>3
  <2> QED
    BY <1>1, <2>2, <2>3, <2>4
<1> QED
  BY <1>2, <1>3

LEMMA RecordHas ==
    ASSUME NEW m, NEW t \in Nat, NEW s \in Nat, NEW n \in Nat \ {0},
           NEW f \in Files, NEW r,
           MapTypes(m), Ordered(m, t), t < f,
           \A k \in DOMAIN m : m[k].file > t => EndOf(m, k) <= s,
           Recorded(r, m, s, n, f)
    PROVE  /\ s \in DOMAIN m => m[s].file <= t
           /\ Exceeds(m, s, n) => s + n \notin DOMAIN m
           /\ \A x \in Nat : Has(r, x, f) <=> Has(m, x, f) \/ (s <= x /\ x < s + n)
           /\ \A x \in Nat, g \in Files : g # f =>
                 /\ Has(r, x, g) => Has(m, x, g)
                 /\ Has(m, x, g) => Has(r, x, g) \/ (s <= x /\ x < s + n)
<1>0. f \in Nat /\ Files \subseteq Nat
  BY NFilesAssumption DEF Files
<1>1. /\ DOMAIN m \subseteq Nat
      /\ \A k \in DOMAIN m : /\ k \in Nat /\ m[k].len \in Nat \ {0}
                             /\ m[k].file \in Nat
                             /\ EndOf(m, k) = k + m[k].len /\ EndOf(m, k) \in Nat
  BY MapFacts
<1>2. s \in DOMAIN m => m[s].file <= t
  BY <1>0, <1>1
<1>3. ASSUME Exceeds(m, s, n) PROVE s + n \notin DOMAIN m
  <2>1. s \in DOMAIN m /\ EndOf(m, s) > s + n /\ m[s].file <= t
    BY <1>1, <1>2, <1>3 DEF Exceeds
  <2>2. SUFFICES ASSUME s + n \in DOMAIN m PROVE FALSE
    OBVIOUS
  <2>3. m[s + n].file <= t
    BY <1>0, <1>1, <2>2
  <2>4. EndOf(m, s) <= s + n
    BY <1>1, <2>1, <2>2, <2>3 DEF Ordered
  <2> QED
    BY <1>1, <2>1, <2>4
<1>4. /\ DOMAIN r = DOMAIN m \cup {s} \cup (IF Exceeds(m, s, n) THEN {s + n} ELSE {})
      /\ r[s] = Area(n, f)
      /\ \A k \in DOMAIN m : k # s => r[k] = m[k]
      /\ Exceeds(m, s, n) => r[s + n] = Area(m[s].len - n, m[s].file)
  BY <1>3 DEF Recorded
<1>5. s \in DOMAIN r /\ r[s].file = f /\ EndOf(r, s) = s + n
  BY <1>4 DEF Area, EndOf
<1>6. \A k \in DOMAIN m : k # s => k \in DOMAIN r /\ r[k] = m[k] /\ EndOf(r, k) = EndOf(m, k)
  BY <1>4 DEF EndOf
<1>7. Exceeds(m, s, n) => /\ s \in DOMAIN m /\ s + n \in DOMAIN r /\ r[s + n].file = m[s].file
                          /\ EndOf(r, s + n) = EndOf(m, s) /\ s + n < EndOf(m, s)
  BY <1>1, <1>4 DEF Area, EndOf, Exceeds
<1>8. \A k \in DOMAIN r : k = s \/ (k \in DOMAIN m /\ k # s) \/ (k = s + n /\ Exceeds(m, s, n))
  BY <1>4
<1>9. \A x, g : Has(r, x, g) <=> \E k \in DOMAIN r : k <= x /\ x < EndOf(r, k) /\ r[k].file = g
  BY DEF Has, Covers
<1>10. \A x, g : Has(m, x, g) <=> \E k \in DOMAIN m : k <= x /\ x < EndOf(m, k) /\ m[k].file = g
  BY DEF Has, Covers
<1>11. ASSUME NEW x \in Nat, NEW g, Has(r, x, g)
       PROVE  Has(m, x, g) \/ (g = f /\ s <= x /\ x < s + n)
  <2>1. PICK k \in DOMAIN r : k <= x /\ x < EndOf(r, k) /\ r[k].file = g
    BY <1>9, <1>11
  <2>2. CASE k = s
    BY <1>5, <2>1, <2>2
  <2>3. CASE k \in DOMAIN m /\ k # s
    BY <1>6, <1>10, <2>1, <2>3
  <2>4. CASE k = s + n /\ Exceeds(m, s, n)
    <3>1. s \in DOMAIN m /\ s <= x /\ x < EndOf(m, s) /\ m[s].file = g
      BY <1>7, <2>1, <2>4
    <3> QED
      BY <1>10, <3>1
  <2> QED
    BY <1>8, <2>2, <2>3, <2>4
<1>12. ASSUME NEW x \in Nat, NEW g, Has(m, x, g)
       PROVE  Has(r, x, g) \/ (g # f /\ s <= x /\ x < s + n)
  <2>1. PICK k \in DOMAIN m : k <= x /\ x < EndOf(m, k) /\ m[k].file = g
    BY <1>10, <1>12
  <2>2. CASE k # s
    BY <1>6, <1>9, <2>1, <2>2
  <2>3. CASE k = s
    <3>1. g # f
      BY <1>0, <1>1, <1>2, <2>1, <2>3
    <3>2. CASE s <= x /\ x < s + n
      BY <3>1, <3>2
    <3>3. CASE s + n <= x
      <4>1. Exceeds(m, s, n)
        BY <1>1, <2>1, <2>3, <3>3 DEF Exceeds
      <4>2. s + n \in DOMAIN r /\ x < EndOf(r, s + n) /\ r[s + n].file = g
        BY <1>7, <2>1, <2>3, <4>1
      <4> QED
        BY <1>9, <3>3, <4>2
    <3> QED
      BY <2>1, <2>3, <3>2, <3>3
  <2> QED
    BY <2>2, <2>3
<1>13. ASSUME NEW x \in Nat, s <= x, x < s + n PROVE Has(r, x, f)
  BY <1>5, <1>9, <1>13
<1> QED
  BY <1>2, <1>3, <1>11, <1>12, <1>13

LEMMA MergedHas ==
    ASSUME NEW m, NEW a, NEW b, NEW r, MapTypes(m), Next(m, a, b),
           m[a].file = m[b].file, EndOf(m, a) = b, r = Merged(m, a, b)
    PROVE  /\ EndOf(r, a) = EndOf(m, b)
           /\ \A k \in DOMAIN m : k # a /\ k # b => EndOf(r, k) = EndOf(m, k)
           /\ \A x \in Nat, g \in Files : Has(r, x, g) <=> Has(m, x, g)
<1>1. /\ a \in DOMAIN m /\ b \in DOMAIN m /\ a < b /\ a \in Nat /\ b \in Nat
      /\ \A k \in DOMAIN m : /\ k \in Nat /\ m[k].len \in Nat \ {0}
                             /\ EndOf(m, k) = k + m[k].len /\ EndOf(m, k) \in Nat
  BY DEF Next, MapTypes, EndOf
<1>2. Joined(r, m, a, b)
  BY <1>1, MergedIs
<1>3. /\ DOMAIN r = DOMAIN m \ {b}
      /\ \A k \in DOMAIN m : k # a /\ k # b => r[k] = m[k] /\ EndOf(r, k) = EndOf(m, k)
      /\ r[a].file = m[a].file /\ r[a].len = m[a].len + m[b].len
  BY <1>2 DEF Joined, EndOf, Area
<1>4. EndOf(r, a) = EndOf(m, b)
  BY <1>1, <1>3 DEF EndOf
<1>5. ASSUME NEW x \in Nat, NEW g, Has(r, x, g) PROVE Has(m, x, g)
  <2>1. PICK k \in DOMAIN r : k <= x /\ x < EndOf(r, k) /\ r[k].file = g
    BY <1>5 DEF Has, Covers
  <2>2. CASE k # a
    BY <1>3, <2>1, <2>2 DEF Has, Covers
  <2>3. CASE k = a /\ x < b
    BY <1>1, <1>3, <2>1, <2>3 DEF Has, Covers
  <2>4. CASE k = a /\ b <= x
    <3>1. b \in DOMAIN m /\ b <= x /\ x < EndOf(m, b) /\ m[b].file = g
      BY <1>1, <1>3, <1>4, <2>1, <2>4
    <3> QED
      BY <3>1 DEF Has, Covers
  <2> QED
    BY <1>1, <2>2, <2>3, <2>4
<1>6. ASSUME NEW x \in Nat, NEW g, Has(m, x, g) PROVE Has(r, x, g)
  <2>1. PICK k \in DOMAIN m : k <= x /\ x < EndOf(m, k) /\ m[k].file = g
    BY <1>6 DEF Has, Covers
  <2>2. CASE k # a /\ k # b
    BY <1>3, <2>1, <2>2 DEF Has, Covers
  <2>3. CASE k = a \/ k = b
    <3>1. a \in DOMAIN r /\ a <= x /\ r[a].file = g
      BY <1>1, <1>3, <2>1, <2>3
    <3>2. EndOf(m, a) <= EndOf(m, b)
      BY <1>1
    <3>3. x < EndOf(r, a)
      BY <1>1, <1>4, <2>1, <2>3, <3>2
    <3> QED
      BY <3>1, <3>3 DEF Has, Covers
  <2> QED
    BY <2>2, <2>3
<1> QED
  BY <1>3, <1>4, <1>5, <1>6

LEMMA CutFirstHas ==
    ASSUME NEW m, NEW a, NEW b, NEW r, MapTypes(m), Next(m, a, b),
           m[a].file # m[b].file, EndOf(m, a) > b, FirstCut(r, m, a, b),
           EndOf(m, a) > EndOf(m, b) => EndOf(m, b) \notin DOMAIN m
    PROVE  /\ \A x \in Nat, g \in Files :
                 /\ Has(r, x, g) => Has(m, x, g)
                 /\ Has(m, x, g) => Has(r, x, g) \/ (g = m[a].file /\ Has(r, x, m[b].file))
           /\ \A k \in DOMAIN r :
                 \/ k \in DOMAIN m /\ k # a /\ r[k] = m[k] /\ EndOf(r, k) = EndOf(m, k)
                 \/ k = a /\ r[a].file = m[a].file /\ EndOf(r, a) = b
                 \/ k = EndOf(m, b) /\ k \notin DOMAIN m /\ r[k].file = m[a].file
<1>1. /\ a \in DOMAIN m /\ b \in DOMAIN m /\ a < b /\ a \in Nat /\ b \in Nat
      /\ \A k \in DOMAIN m : /\ k \in Nat /\ m[k].len \in Nat \ {0}
                             /\ EndOf(m, k) = k + m[k].len /\ EndOf(m, k) \in Nat
  BY DEF Next, MapTypes, EndOf
<1> DEFINE e == EndOf(m, b)
           put == EndOf(m, a) > e
<1>2. e \in Nat /\ b < e
  BY <1>1
<1>3. /\ DOMAIN r = DOMAIN m \cup (IF put THEN {e} ELSE {})
      /\ r[a] = Area(b - a, m[a].file)
      /\ \A k \in DOMAIN m : k # a => r[k] = m[k]
      /\ put => e \notin DOMAIN m /\ r[e] = Area(EndOf(m, a) - e, m[a].file)
  BY DEF FirstCut
<1>4. a \in DOMAIN r /\ r[a].file = m[a].file /\ EndOf(r, a) = b
  BY <1>1, <1>3 DEF Area, EndOf
<1>5. put => /\ e \in DOMAIN r /\ e \notin DOMAIN m /\ r[e].file = m[a].file
             /\ EndOf(r, e) = EndOf(m, a)
  BY <1>1, <1>2, <1>3 DEF Area, EndOf
<1>6. \A k \in DOMAIN m : k # a => k \in DOMAIN r /\ r[k] = m[k] /\ EndOf(r, k) = EndOf(m, k)
  BY <1>3 DEF EndOf
<1> HIDE DEF e, put
<1>7. \A k \in DOMAIN r : (k \in DOMAIN m /\ k # a) \/ k = a \/ (put /\ k = e)
  BY <1>3
<1>8. ASSUME NEW x \in Nat, NEW g, Has(r, x, g) PROVE Has(m, x, g)
  <2>1. PICK k \in DOMAIN r : k <= x /\ x < EndOf(r, k) /\ r[k].file = g
    BY <1>8 DEF Has, Covers
  <2>2. CASE k \in DOMAIN m /\ k # a
    BY <1>6, <2>1, <2>2 DEF Has, Covers
  <2>3. CASE k = a
    <3>1. x < EndOf(m, a) /\ m[a].file = g
      BY <1>1, <1>4, <2>1, <2>3
    <3> QED
      BY <1>1, <2>1, <2>3, <3>1 DEF Has, Covers
  <2>4. CASE put /\ k = e
    <3>1. a <= x /\ x < EndOf(m, a) /\ m[a].file = g
      BY <1>1, <1>2, <1>5, <2>1, <2>4
    <3> QED
      BY <1>1, <3>1 DEF Has, Covers
  <2> QED
    BY <1>7, <2>2, <2>3, <2>4
<1>9. ASSUME NEW x \in Nat, NEW g, Has(m, x, g)
      PROVE  Has(r, x, g) \/ (g = m[a].file /\ Has(r, x, m[b].file))
  <2>1. PICK k \in DOMAIN m : k <= x /\ x < EndOf(m, k) /\ m[k].file = g
    BY <1>9 DEF Has, Covers
  <2>2. CASE k # a
    BY <1>6, <2>1, <2>2 DEF Has, Covers
  <2>3. CASE k = a /\ x < b
    BY <1>4, <2>1, <2>3 DEF Has, Covers
  <2>4. CASE k = a /\ b <= x /\ x < e
    <3>1. b \in DOMAIN r /\ r[b] = m[b] /\ EndOf(r, b) = e
      BY <1>1, <1>6 DEF e
    <3> QED
      BY <2>1, <2>4, <3>1 DEF Has, Covers
  <2>5. CASE k = a /\ e <= x
    <3>1. put
      BY <1>1, <1>2, <2>1, <2>5 DEF put
    <3>2. e \in DOMAIN r /\ x < EndOf(r, e) /\ r[e].file = g
      BY <1>5, <2>1, <2>5, <3>1
    <3> QED
      BY <2>5, <3>2 DEF Has, Covers
  <2> QED
    BY <1>1, <1>2, <2>1, <2>2, <2>3, <2>4, <2>5
<1>10. \A k \in DOMAIN r :
          \/ k \in DOMAIN m /\ k # a /\ r[k] = m[k] /\ EndOf(r, k) = EndOf(m, k)
          \/ k = a /\ r[a].file = m[a].file /\ EndOf(r, a) = b
          \/ k = e /\ k \notin DOMAIN m /\ r[k].file = m[a].file
  BY <1>4, <1>5, <1>6, <1>7
<1> QED
  BY <1>8, <1>9, <1>10 DEF e

\* In the cluster c of a file the first sectors are held.
LEMMA HoldsIs ==
    ASSUME NEW f \in Files, NEW x \in Nat
    PROVE  /\ \A c \in Nat : /\ c * ClusterSectors[f] <= x
                              /\ x < c * ClusterSectors[f] + ClusterSectors[f]
              => (Holds(f, x) <=> /\ c \in Clusters(f)
                                  /\ x - c * ClusterSectors[f] < held[f][c])
           /\ Holds(f, x) => x < EndSector(f)
<1> DEFINE n == ClusterSectors[f]
           q == x \div n
           u == x % n
<1>1. n \in Nat \ {0} /\ ClusterCount(f) \in Nat
  BY Counts
<1>2. Holds(f, x) <=> q \in Clusters(f) /\ u < held[f][q]
  BY DEF Holds
<1>3. EndSector(f) = ClusterCount(f) * n
  BY DEF EndSector
<1> HIDE DEF n
<1>4. /\ q \in Nat /\ u \in 0..(n - 1) /\ x = q * n + u
      /\ \A c \in Nat : c * n <= x /\ x < c * n + n => q = c
      /\ \A c \in Nat : x < c * n <=> q < c
  BY <1>1, ClusterOf
<1> HIDE DEF q, u
<1>5. ASSUME NEW c \in Nat, c * n <= x, x < c * n + n
      PROVE  Holds(f, x) <=> c \in Clusters(f) /\ x - c * n < held[f][c]
  <2>1. q = c
    BY <1>4, <1>5
  <2>2. c * n \in Nat
    BY <1>1
  <2>3. u = x - c * n
    BY <1>1, <1>4, <2>1, <2>2
  <2> QED
    BY <1>2, <2>1, <2>3
<1>6. ASSUME Holds(f, x) PROVE x < EndSector(f)
  <2>1. q < ClusterCount(f)
    BY <1>1, <1>2, <1>4, <1>6 DEF Clusters
  <2> QED
    BY <1>1, <1>3, <1>4, <2>1
<1> QED
  BY <1>5, <1>6 DEF n

LEMMA NewestIs ==
    ASSUME NEW x, NEW f \in Files
    PROVE  /\ Holds(f, x) => Newest(x, f) = {f}
           /\ ~Holds(f, x) => Newest(x, f) = Newest(x, f - 1)
<1>1. f \in Nat /\ 1 <= f /\ 1..f = (1..(f - 1)) \cup {f}
  BY NFilesAssumption DEF Files
<1> DEFINE T(i) == {g \in 1..i : Holds(g, x)}
<1>2. \A i : Newest(x, i) = IF T(i) = {} THEN {} ELSE {Max(T(i))}
  BY DEF Newest
<1>3. CASE Holds(f, x)
  <2>1. f \in T(f) /\ \A g \in T(f) : g \in Nat /\ f >= g
    BY <1>1, <1>3
  <2>2. Max(T(f)) \in T(f) /\ \A g \in T(f) : Max(T(f)) >= g
    <3> HIDE DEF T
    <3> QED
      BY <2>1 DEF Max
  <2>3. Max(T(f)) = f
    <3> HIDE DEF T
    <3> QED
      BY <1>1, <2>1, <2>2
  <2> HIDE DEF T
  <2> QED
    BY <1>2, <1>3, <2>1, <2>3
<1>4. CASE ~Holds(f, x)
  <2>1. T(f) = T(f - 1)
    BY <1>1, <1>4
  <2> QED
    BY <1>2, <1>4, <2>1
<1> QED
  BY <1>3, <1>4

-----------------------------------------------------------------------------
(* Chains in which no file has larger clusters than the file below it, and *)
(* only the base and the newest may end in a cut cluster.  In every other  *)
(* chain an area of an older file may begin inside a newer one, and the    *)
(* map's insert may find the place of a rest taken.                        *)

Whole(n, c) == n % c = 0

Nested == \A f \in Files : f # NFiles => Whole(ClusterSectors[f], ClusterSectors[f + 1])
EndsCut == Truncatable \subseteq {1, NFiles}

LEMMA WholeIs ==
    ASSUME NEW n \in Nat, NEW c \in Nat \ {0}
    PROVE  Whole(n, c) <=> \E q \in Nat : n = q * c
<1>1. n \div c \in Nat /\ n % c \in 0..(c - 1) /\ n = (n \div c) * c + (n % c)
  BY ClusterOf
<1>2. ASSUME Whole(n, c) PROVE \E q \in Nat : n = q * c
  <2>1. n % c = 0
    BY <1>2 DEF Whole
  <2>2. (n \div c) * c \in Nat
    BY <1>1
  <2>3. n = (n \div c) * c
    BY <1>1, <2>1, <2>2
  <2> QED
    BY <1>1, <2>3
<1>3. ASSUME NEW q \in Nat, n = q * c PROVE Whole(n, c)
  <2>1. q * c \in Nat /\ q * c <= n /\ n < q * c + c
    BY <1>3
  <2>2. n \div c = q
    BY <2>1, ClusterOf
  <2>3. n = q * c + (n % c)
    BY <1>1, <2>2
  <2>4. n % c = 0
    BY <1>1, <1>3, <2>1, <2>3
  <2> QED
    BY <2>4 DEF Whole
<1> QED
  BY <1>2, <1>3

LEMMA WholeFacts ==
    ASSUME NEW c \in Nat \ {0}
    PROVE  /\ \A q \in Nat : Whole(q * c, c) /\ Whole(q * c + c, c)
           /\ \A q, n \in Nat : Whole(n, c) /\ q * c <= n /\ n < q * c + c => n = q * c
           /\ \A n, d \in Nat : d # 0 /\ Whole(n, d) /\ Whole(d, c) => Whole(n, c)
<1>1. ASSUME NEW q \in Nat PROVE Whole(q * c, c) /\ Whole(q * c + c, c)
  <2>1. q * c \in Nat /\ q * c + c \in Nat /\ q + 1 \in Nat /\ q * c + c = (q + 1) * c
    OBVIOUS
  <2> QED
    BY <2>1, WholeIs
<1>2. ASSUME NEW q \in Nat, NEW n \in Nat, Whole(n, c), q * c <= n, n < q * c + c
      PROVE  n = q * c
  <2>1. PICK p \in Nat : n = p * c
    BY <1>2, WholeIs
  <2>2. p * c <= n /\ n < p * c + c
    BY <2>1
  <2>3. n \div c = q /\ n \div c = p
    BY <1>2, <2>2, ClusterOf
  <2> QED
    BY <2>1, <2>3
<1>3. ASSUME NEW n \in Nat, NEW d \in Nat, d # 0, Whole(n, d), Whole(d, c)
      PROVE  Whole(n, c)
  <2>1. PICK p \in Nat : n = p * d
    BY <1>3, WholeIs
  <2>2. PICK q \in Nat : d = q * c
    BY <1>3, WholeIs
  <2>3. n = (p * q) * c /\ p * q \in Nat
    BY <2>1, <2>2
  <2> QED
    BY <2>3, WholeIs
<1> QED
  BY <1>1, <1>2, <1>3

\* The new areas are the clusters of this file that were scanned.
NewCover ==
    phase # "done" =>
        \A x \in Sectors :
            Has(areas, x, file) <=>
                /\ Holds(file, x)
                /\ phase = "scan" => x < cluster * ClusterSectors[file]

\* The old areas are right, and no sector the finished files have is lost.
OldCover ==
    \A x \in Sectors :
        /\ \A g \in Files : g <= Settled /\ Has(areas, x, g) => Newest(x, Settled) = {g}
        /\ Newest(x, Settled) # {} => \E g \in Files : Has(areas, x, g)

\* Areas begin where clusters do, but for rests of areas the newest file cuts.
Alignment ==
    /\ phase = "scan" =>
          \A k \in DOMAIN areas :
              areas[k].file <= Settled /\ cluster * ClusterSectors[file] <= k
                  => Whole(k, ClusterSectors[file])
    /\ phase # "done" /\ file # NFiles =>
          \A k \in DOMAIN areas :
              /\ Whole(k, ClusterSectors[file])
              /\ areas[k].file > Settled /\ file # 1 =>
                    Whole(EndOf(areas, k), ClusterSectors[file])

\* No old area begins inside a new one: a cut never needs a place that is taken.
NoneInside ==
    \A j, k \in DOMAIN areas :
        areas[j].file > Settled /\ areas[k].file <= Settled
            => ~(j <= k /\ k < EndOf(areas, j))

\* New areas that touch are merged, as far as the merging sweep has come.
Untouched ==
    \A j, k \in DOMAIN areas :
        /\ areas[j].file > Settled /\ areas[k].file > Settled
        /\ phase = "trim" \/ (phase = "merge" /\ j < at)
        => EndOf(areas, j) # k

ExactInv == Inv /\ NewCover /\ OldCover /\ Alignment /\ NoneInside /\ Untouched

\* No sector loses its owner.
Kept == \A x \in Sectors :
            (\E g \in Files : Has(areas, x, g)) => \E g \in Files : Has(areas', x, g)

-----------------------------------------------------------------------------
(* Every step keeps it, in such chains.                                    *)

LEMMA SectorsAre == Sectors \subseteq Nat
BY ReachBounds DEF Sectors

LEMMA TurnExact ==
    ASSUME ExactInv, Nested, phase \in {"scan", "trim"}, NextFile, UNCHANGED <<held, areas>>,
           \A j, k \in DOMAIN areas : j < k => EndOf(areas, j) <= k,
           \A x \in Sectors : Has(areas, x, file) <=> Holds(file, x)
    PROVE  NewCover' /\ OldCover' /\ Alignment' /\ NoneInside' /\ Untouched'
<1>1. /\ Settled' = file /\ file' \in Files
      /\ file' # file => file' = file + 1 /\ phase' = "scan" /\ cluster' = 0
      /\ file' = file => phase' = "done"
  BY NextFileSettles DEF ExactInv
<1>2. /\ file \in Files /\ file \in Nat /\ Settled = file - 1 /\ Files \subseteq Nat
      /\ DOMAIN areas \subseteq Nat
      /\ \A k \in DOMAIN areas : /\ areas[k].file \in Nat /\ areas[k].file <= file
                                 /\ EndOf(areas, k) \in Nat
  BY InvFacts DEF ExactInv
<1>3. areas' = areas /\ held' = held
  OBVIOUS
<1>4. \A k \in DOMAIN areas : ~(areas[k].file > file)
  BY <1>2
<1>5. NoneInside' /\ Untouched'
  BY <1>1, <1>3, <1>4 DEF NoneInside, Untouched
<1>6. NewCover'
  <2>1. SUFFICES ASSUME phase' # "done", NEW x \in Sectors
                 PROVE  /\ ~Has(areas, x, file + 1)
                        /\ ~(x < 0 * ClusterSectors[file + 1])
    BY <1>1, <1>3, <2>1 DEF NewCover, Sectors
  <2>2. ClusterSectors[file + 1] \in Nat /\ x \in Nat
    BY <1>1, <2>1, Counts, SectorsAre
  <2> QED
    BY <1>2, <1>4, <2>2 DEF Has
<1>7. OldCover'
  <2>1. SUFFICES ASSUME NEW x \in Sectors
                 PROVE  /\ \A g \in Files : g <= file /\ Has(areas, x, g)
                              => Newest(x, file) = {g}
                        /\ Newest(x, file) # {} => \E g \in Files : Has(areas, x, g)
    <3>1. ASSUME NEW x \in Sectors PROVE Newest(x, Settled)' = Newest(x, file)
      BY <1>1, <1>3 DEF Newest, Holds
    <3> QED
      BY <1>1, <1>3, <2>1, <3>1 DEF OldCover, Sectors, Has, Covers, EndOf
  <2>2. CASE Holds(file, x)
    <3>1. Newest(x, file) = {file} /\ Has(areas, x, file)
      BY <1>2, <2>1, <2>2, NewestIs
    <3>2. ASSUME NEW g \in Files, Has(areas, x, g) PROVE g = file
      <4>1. PICK j \in DOMAIN areas : j <= x /\ x < EndOf(areas, j) /\ areas[j].file = file
        BY <3>1 DEF Has, Covers
      <4>2. PICK k \in DOMAIN areas : k <= x /\ x < EndOf(areas, k) /\ areas[k].file = g
        BY <3>2 DEF Has, Covers
      <4>3. j \in Nat /\ k \in Nat /\ x \in Nat
        BY <1>2, SectorsAre
      <4>4. ~(j < k) /\ ~(k < j)
        BY <1>2, <4>1, <4>2, <4>3
      <4> QED
        BY <4>1, <4>2, <4>3, <4>4
    <3> QED
      BY <1>2, <3>1, <3>2
  <2>3. CASE ~Holds(file, x)
    <3>1. Newest(x, file) = Newest(x, Settled) /\ ~Has(areas, x, file)
      BY <1>2, <2>1, <2>3, NewestIs
    <3>2. /\ \A g \in Files : g <= Settled /\ Has(areas, x, g) => Newest(x, Settled) = {g}
          /\ Newest(x, Settled) # {} => \E g \in Files : Has(areas, x, g)
      BY <2>1 DEF ExactInv, OldCover
    <3>3. \A g \in Files : g <= file /\ Has(areas, x, g) => g <= Settled
      BY <1>2, <3>1
    <3> QED
      BY <3>1, <3>2, <3>3
  <2> QED
    BY <2>2, <2>3
<1>8. Alignment'
  <2>1. CASE phase' = "done"
    BY <2>1 DEF Alignment
  <2>2. CASE phase' # "done"
    <3>1. file' = file + 1 /\ phase' = "scan" /\ file # NFiles /\ file + 1 \in Files
      BY <1>1, <1>2, <2>2 DEF Files
    <3>2. \A k \in DOMAIN areas : Whole(k, ClusterSectors[file])
      BY <3>1 DEF ExactInv, Alignment
    <3>3. Whole(ClusterSectors[file], ClusterSectors[file + 1])
      BY <1>2, <3>1 DEF Nested
    <3>4. ClusterSectors[file] \in Nat \ {0} /\ ClusterSectors[file + 1] \in Nat \ {0}
      BY <1>2, <3>1, Counts
    <3>5. \A k \in DOMAIN areas : Whole(k, ClusterSectors[file + 1])
      BY <1>2, <3>2, <3>3, <3>4, WholeFacts
    <3> QED
      BY <1>1, <1>3, <1>4, <3>1, <3>5 DEF Alignment
  <2> QED
    BY <2>1, <2>2
<1> QED
  BY <1>5, <1>6, <1>7, <1>8

LEMMA SkipEmptyExact ==
    ASSUME ExactInv, Nested, SkipEmpty
    PROVE  NewCover' /\ OldCover' /\ Alignment' /\ NoneInside' /\ Untouched' /\ Kept
<1>1. /\ phase = "scan" /\ cluster = 0 /\ NextFile /\ UNCHANGED <<held, areas>>
      /\ \A c \in Clusters(file) : held[file][c] = 0
  BY DEF SkipEmpty
<1>2. \A k \in DOMAIN areas : areas[k].file <= Settled
  BY <1>1, InvFacts DEF ExactInv, Inv, Front
<1>3. \A j, k \in DOMAIN areas : j < k => EndOf(areas, j) <= k
  BY <1>2 DEF ExactInv, Inv, Ordered
<1>4. ASSUME NEW x \in Sectors PROVE ~Has(areas, x, file) /\ ~Holds(file, x)
  <2>1. ~Has(areas, x, file)
    BY <1>1, <1>2, InvFacts DEF ExactInv, Has
  <2>2. ~Holds(file, x)
    <3>1. x % ClusterSectors[file] \in Nat
      BY SectorsAre, InvFacts, ClusterOf DEF ExactInv
    <3> QED
      BY <1>1, <3>1 DEF Holds
  <2> QED
    BY <2>1, <2>2
<1>5. Kept
  BY <1>1 DEF Kept
<1> QED
  BY <1>1, <1>3, <1>4, <1>5, TurnExact

LEMMA FilesStay ==
    ASSUME held' = held, file' = file, Settled' = Settled
    PROVE  \A x \in Sectors : /\ Newest(x, Settled)' = Newest(x, Settled)
                              /\ Holds(file, x)' <=> Holds(file, x)
BY DEF Newest, Holds

LEMMA ScanClusterExact ==
    ASSUME ExactInv, EndsCut, ScanCluster
    PROVE  NewCover' /\ OldCover' /\ Alignment' /\ NoneInside' /\ Untouched' /\ Kept
<1> DEFINE n == ClusterSectors[file]
           len == held[file][cluster]
           s == cluster * n
<1>1. /\ phase = "scan" /\ phase' = "scan" /\ cluster \in Clusters(file) /\ cluster' = cluster + 1
      /\ held' = held /\ file' = file /\ at' = at
      /\ areas' = IF len = 0 THEN areas ELSE Record(areas, s, len, file)
  BY DEF ScanCluster
<1>2. /\ cluster \in Nat /\ n \in Nat \ {0} /\ s \in Nat /\ file \in Files /\ Files \subseteq Nat
      /\ Settled \in Nat /\ Settled < file /\ file \in Nat /\ Settled = file - 1
      /\ (cluster + 1) * n = s + n /\ NFiles \in Nat
  <2>1. /\ cluster \in Nat /\ n \in Nat \ {0} /\ s \in Nat /\ file \in Files /\ Files \subseteq Nat
        /\ Settled \in Nat /\ file \in Nat /\ Settled = file - 1 /\ NFiles \in Nat
    BY <1>1, InvFacts DEF ExactInv
  <2>2. (cluster + 1) * n = s + n
    BY <2>1
  <2> QED
    BY <2>1, <2>2
<1>3. len \in 0..n /\ (file \notin Truncatable => len \in {0, n})
  <2>1. held[file] \in Contents(file)
    BY <1>2 DEF ExactInv, Inv, StateTypes
  <2>2. held[file] \in [Clusters(file) -> 0..n]
    BY <2>1 DEF Contents
  <2>3. file \notin Truncatable => {c \in Clusters(file) : held[file][c] \notin {0, n}} = {}
    BY <2>1 DEF Contents
  <2> QED
    BY <1>1, <2>2, <2>3
<1>4. /\ MapTypes(areas) /\ Ordered(areas, Settled)
      /\ \A k \in DOMAIN areas : areas[k].file > Settled => EndOf(areas, k) <= s
      /\ \A k \in DOMAIN areas : /\ k \in Nat /\ areas[k].len \in Nat \ {0}
                                 /\ areas[k].file \in Nat /\ areas[k].file <= file
                                 /\ EndOf(areas, k) = k + areas[k].len
                                 /\ EndOf(areas, k) \in Nat
  BY <1>1, MapFacts DEF ExactInv, Inv, StateTypes, Front
<1>5. Settled' = Settled
  BY <1>1 DEF Settled
<1>6. \A x \in Sectors : /\ Newest(x, Settled)' = Newest(x, Settled)
                         /\ Holds(file, x)' <=> Holds(file, x)
  BY <1>1, <1>5, FilesStay
<1>7. ASSUME NEW x \in Sectors
      PROVE  /\ x \in Nat
             /\ Has(areas, x, file) <=> Holds(file, x) /\ x < s
             /\ s <= x /\ x < s + n => (Holds(file, x) <=> x - s < len)
             /\ \A g \in Files : g <= Settled /\ Has(areas, x, g) => Newest(x, Settled) = {g}
             /\ Newest(x, Settled) # {} => \E g \in Files : Has(areas, x, g)
  <2>1. x \in Nat
    BY SectorsAre
  <2>2. Has(areas, x, file) <=> Holds(file, x) /\ x < s
    BY <1>1 DEF ExactInv, NewCover
  <2>3. s <= x /\ x < s + n => (Holds(file, x) <=> x - s < len)
    BY <1>1, <1>2, <2>1, HoldsIs
  <2> QED
    BY <2>1, <2>2, <2>3 DEF ExactInv, OldCover
<1>8. /\ \A k \in DOMAIN areas : areas[k].file <= Settled /\ s <= k => Whole(k, n)
      /\ file # NFiles => \A k \in DOMAIN areas :
            Whole(k, n) /\ (areas[k].file > Settled /\ file # 1 => Whole(EndOf(areas, k), n))
      /\ \A j, k \in DOMAIN areas : areas[j].file > Settled /\ areas[k].file <= Settled
            => ~(j <= k /\ k < EndOf(areas, j))
  BY <1>1 DEF ExactInv, Alignment, NoneInside
<1>9. Untouched'
  BY <1>1 DEF Untouched
<1>10. Whole(s, n) /\ Whole(s + n, n)
  BY <1>2, WholeFacts
<1> HIDE DEF n, len, s
<1>11. CASE len = 0
  <2>1. areas' = areas
    BY <1>1, <1>11
  <2>2. NewCover'
    <3>1. ASSUME NEW x \in Sectors
          PROVE  Has(areas, x, file) <=> Holds(file, x) /\ x < s + n
      BY <1>2, <1>3, <1>7, <1>11
    <3> QED
      BY <1>1, <1>2, <1>6, <2>1, <3>1 DEF NewCover, Sectors, Has, Covers, EndOf, n
  <2>3. OldCover'
    BY <1>5, <1>6, <1>7, <2>1 DEF OldCover, Sectors, Has, Covers, EndOf
  <2>4. Alignment'
    <3>1. \A k \in DOMAIN areas : areas[k].file <= Settled /\ s + n <= k => Whole(k, n)
      BY <1>2, <1>4, <1>8
    <3>2. file # NFiles => \A k \in DOMAIN areas :
            Whole(k, n) /\ (areas[k].file > Settled /\ file # 1 => Whole(EndOf(areas, k), n))
      BY <1>8
    <3> QED
      BY <1>1, <1>2, <1>5, <2>1, <3>1, <3>2 DEF Alignment, EndOf, n
  <2>5. NoneInside'
    BY <1>5, <1>8, <2>1 DEF NoneInside, EndOf
  <2>6. Kept
    BY <2>1 DEF Kept
  <2> QED
    BY <1>9, <2>2, <2>3, <2>4, <2>5, <2>6
<1>12. CASE len # 0
  <2>1. len \in Nat \ {0} /\ len <= n /\ areas' = Record(areas, s, len, file)
    BY <1>1, <1>2, <1>3, <1>12
  <2>2. Recorded(areas', areas, s, len, file)
    BY <1>2, <1>4, <2>1, RecordIs DEF MapTypes
  <2>3. /\ s \in DOMAIN areas => areas[s].file <= Settled
        /\ Exceeds(areas, s, len) => s + len \notin DOMAIN areas
    BY <1>2, <1>4, <2>1, <2>2, RecordHas
  <2>4. ASSUME NEW x \in Nat
        PROVE  Has(areas', x, file) <=> Has(areas, x, file) \/ (s <= x /\ x < s + len)
    BY <1>2, <1>4, <2>1, <2>2, <2>4, RecordHas
  <2>5. ASSUME NEW x \in Nat, NEW g \in Files, g # file
        PROVE  /\ Has(areas', x, g) => Has(areas, x, g)
               /\ Has(areas, x, g) => Has(areas', x, g) \/ (s <= x /\ x < s + len)
    BY <1>2, <1>4, <2>1, <2>2, <2>5, RecordHas
  <2>6. /\ DOMAIN areas' = DOMAIN areas \cup {s} \cup (IF Exceeds(areas, s, len) THEN {s + len} ELSE {})
        /\ areas'[s] = Area(len, file)
        /\ \A k \in DOMAIN areas : k # s => areas'[k] = areas[k]
        /\ Exceeds(areas, s, len) => areas'[s + len] = Area(areas[s].len - len, areas[s].file)
    BY <2>2, <2>3 DEF Recorded
  <2>7. areas'[s].file = file /\ EndOf(areas', s) = s + len
    BY <2>6 DEF Area, EndOf
  <2> DEFINE Rest(k) == Exceeds(areas, s, len) /\ k = s + len
  <2>8. \A k : Rest(k) => areas'[k].file <= Settled /\ s \in DOMAIN areas
    BY <2>3, <2>6 DEF Area, Exceeds
  <2>9. \A k \in DOMAIN areas' : k = s \/ Rest(k) \/
            /\ k # s /\ k \in DOMAIN areas /\ areas'[k] = areas[k]
            /\ EndOf(areas', k) = EndOf(areas, k)
    BY <2>6 DEF EndOf
  <2>10. \A k : Rest(k) => k = s + len
    OBVIOUS
  <2> HIDE DEF Rest
  <2>11. NewCover'
    <3>1. ASSUME NEW x \in Sectors
          PROVE  Has(areas', x, file) <=> Holds(file, x) /\ x < s + n
      <4>1. Has(areas', x, file) <=> (Holds(file, x) /\ x < s) \/ (s <= x /\ x < s + len)
        BY <1>7, <2>4
      <4>2. x \in Nat /\ (s <= x /\ x < s + n => (Holds(file, x) <=> x - s < len))
        BY <1>7
      <4> QED
        BY <1>2, <2>1, <4>1, <4>2
    <3> QED
      BY <1>1, <1>2, <1>6, <3>1 DEF NewCover, Sectors, Has, Covers, EndOf, n
  <2>12. ASSUME NEW x \in Sectors, NEW g \in Files, Has(areas, x, g)
         PROVE  \E h \in Files : Has(areas', x, h)
    <3>1. x \in Nat
      BY SectorsAre
    <3>2. CASE g = file
      BY <1>2, <2>4, <2>12, <3>1, <3>2
    <3>3. CASE g # file
      BY <1>2, <2>4, <2>5, <2>12, <3>1, <3>3
    <3> QED
      BY <3>2, <3>3
  <2>13. OldCover'
    <3>1. ASSUME NEW x \in Sectors, NEW g \in Files, g <= Settled, Has(areas', x, g)
          PROVE  Newest(x, Settled) = {g}
      <4>1. g # file /\ x \in Nat
        BY <1>2, <3>1, SectorsAre
      <4>2. Has(areas, x, g)
        BY <2>5, <3>1, <4>1
      <4> QED
        BY <1>7, <3>1, <4>2
    <3>2. ASSUME NEW x \in Sectors, Newest(x, Settled) # {}
          PROVE  \E g \in Files : Has(areas', x, g)
      BY <1>7, <2>12, <3>2
    <3> QED
      BY <1>5, <1>6, <3>1, <3>2 DEF OldCover, Sectors, Has, Covers, EndOf
  <2>14. Kept
    BY <2>12 DEF Kept
  <2>15. Alignment'
    <3>1. ASSUME NEW k \in DOMAIN areas', areas'[k].file <= Settled, s + n <= k
          PROVE  Whole(k, n)
      <4>1. CASE k = s
        BY <1>2, <2>7, <3>1, <4>1
      <4>2. CASE Rest(k)
        <5>1. k = s + n
          BY <1>2, <2>1, <2>10, <3>1, <4>2
        <5> QED
          BY <1>10, <5>1
      <4>3. CASE k # s /\ k \in DOMAIN areas /\ areas'[k] = areas[k]
        BY <1>2, <1>4, <1>8, <3>1, <4>3
      <4> QED
        BY <2>9, <4>1, <4>2, <4>3
    <3>2. ASSUME file # NFiles, NEW k \in DOMAIN areas'
          PROVE  Whole(k, n) /\ (areas'[k].file > Settled /\ file # 1 => Whole(EndOf(areas', k), n))
      <4>0. file # 1 => len = n
        BY <1>3, <1>12, <3>2 DEF EndsCut
      <4>1. CASE k = s
        BY <1>10, <2>7, <4>0, <4>1
      <4>2. CASE Rest(k)
        <5>1. s \in DOMAIN areas /\ areas[s].file <= Settled /\ areas'[k].file <= Settled
          BY <2>3, <2>8, <4>2
        <5>2. areas[s].file \in Files /\ Files = 1..NFiles
          BY <1>4, <5>1 DEF MapTypes, Files
        <5>3. file # 1 /\ k = s + n
          BY <1>2, <2>10, <4>0, <4>2, <5>1, <5>2
        <5>4. ~(areas'[k].file > Settled)
          <6>1. areas'[k].file = areas[s].file
            BY <2>6, <4>2 DEF Rest, Area
          <6> QED
            BY <1>2, <1>4, <5>1, <6>1
        <5> QED
          BY <1>10, <5>3, <5>4
      <4>3. CASE /\ k # s /\ k \in DOMAIN areas /\ areas'[k] = areas[k]
                 /\ EndOf(areas', k) = EndOf(areas, k)
        BY <1>8, <3>2, <4>3
      <4> QED
        BY <2>9, <4>1, <4>2, <4>3
    <3> QED
      BY <1>1, <1>2, <1>5, <3>1, <3>2 DEF Alignment, EndOf, n
  <2>16. NoneInside'
    <3>1. ASSUME NEW j \in DOMAIN areas', NEW k \in DOMAIN areas',
                 areas'[j].file > Settled, areas'[k].file <= Settled,
                 j <= k, k < EndOf(areas', j)
          PROVE  FALSE
      <4>1. k # s
        BY <1>2, <2>7, <3>1
      <4>2. ~Rest(j)
        <5>1. Rest(j) => areas'[j].file = areas[s].file /\ s \in DOMAIN areas
          BY <2>6 DEF Rest, Area, Exceeds
        <5> QED
          BY <1>2, <1>4, <2>8, <3>1, <5>1
      <4>3. CASE j = s /\ Rest(k)
        BY <1>2, <2>1, <2>7, <2>10, <3>1, <4>3
      <4>4. CASE j = s /\ k \in DOMAIN areas /\ areas'[k] = areas[k]
        <5>1. s <= k /\ k < s + n /\ areas[k].file <= Settled /\ k \in Nat
          BY <1>2, <1>4, <2>1, <2>7, <3>1, <4>4
        <5>2. Whole(k, n)
          BY <1>8, <4>4, <5>1
        <5>3. k = s
          BY <1>2, <5>1, <5>2, WholeFacts DEF s
        <5> QED
          BY <4>1, <5>3
      <4>5. CASE /\ j # s /\ j \in DOMAIN areas /\ areas'[j] = areas[j]
                 /\ EndOf(areas', j) = EndOf(areas, j)
        <5>1. EndOf(areas, j) <= s /\ areas[j].file > Settled /\ EndOf(areas, j) \in Nat
          BY <1>4, <3>1, <4>5
        <5>2. CASE Rest(k)
          BY <1>2, <2>1, <2>10, <3>1, <4>5, <5>1, <5>2
        <5>3. CASE k \in DOMAIN areas /\ areas'[k] = areas[k]
          BY <1>8, <3>1, <4>5, <5>1, <5>3
        <5> QED
          BY <2>9, <4>1, <5>2, <5>3
      <4> QED
        BY <2>9, <4>1, <4>2, <4>3, <4>4, <4>5
    <3> QED
      BY <1>5, <3>1 DEF NoneInside, EndOf
  <2> QED
    BY <1>9, <2>11, <2>13, <2>14, <2>15, <2>16
<1> QED
  BY <1>11, <1>12

LEMMA ScanEndExact ==
    ASSUME ExactInv, ScanEnd
    PROVE  NewCover' /\ OldCover' /\ Alignment' /\ NoneInside' /\ Untouched' /\ Kept
<1>1. /\ phase = "scan" /\ phase' = "merge" /\ at' = Begin(areas) /\ areas' = areas
      /\ held' = held /\ file' = file /\ cluster' = cluster /\ cluster = ClusterCount(file)
  BY DEF ScanEnd
<1>2. Settled' = Settled /\ file \in Files
  BY <1>1, InvFacts DEF Settled, ExactInv
<1>3. \A x \in Sectors : /\ Newest(x, Settled)' = Newest(x, Settled)
                         /\ Holds(file, x)' <=> Holds(file, x)
  BY <1>1, <1>2, FilesStay
<1>4. \A x \in Sectors : Has(areas, x, file) <=> Holds(file, x)
  <2>1. \A x \in Sectors : Holds(file, x) => x < cluster * ClusterSectors[file]
    BY <1>1, <1>2, HoldsIs, SectorsAre DEF EndSector
  <2> QED
    BY <1>1, <2>1 DEF ExactInv, NewCover
<1>5. NewCover'
  BY <1>1, <1>3, <1>4 DEF NewCover, Sectors, Has, Covers, EndOf
<1>6. OldCover'
  BY <1>1, <1>2, <1>3 DEF ExactInv, OldCover, Sectors, Has, Covers, EndOf
<1>7. Alignment' /\ NoneInside'
  BY <1>1, <1>2 DEF ExactInv, Alignment, NoneInside, EndOf
<1>8. Untouched'
  <2>1. \A j \in DOMAIN areas : ~(j < at')
    <3>1. DOMAIN areas \subseteq Nat
      BY InvFacts DEF ExactInv
    <3>2. \A j \in DOMAIN areas : Begin(areas) \in DOMAIN areas /\ Begin(areas) <= j
      BY <3>1, KeyIs
    <3> QED
      BY <1>1, <3>1, <3>2
  <2> QED
    BY <1>1, <2>1 DEF Untouched
<1> QED
  BY <1>1, <1>5, <1>6, <1>7, <1>8 DEF Kept

LEMMA MergeEndExact ==
    ASSUME ExactInv, MergeEnd
    PROVE  NewCover' /\ OldCover' /\ Alignment' /\ NoneInside' /\ Untouched' /\ Kept
<1>1. /\ phase = "merge" /\ phase' = "trim" /\ areas' = areas /\ SweepOver
      /\ held' = held /\ file' = file /\ cluster' = cluster
  BY DEF MergeEnd
<1>2. Settled' = Settled
  BY <1>1 DEF Settled
<1>3. \A x \in Sectors : /\ Newest(x, Settled)' = Newest(x, Settled)
                         /\ Holds(file, x)' <=> Holds(file, x)
  BY <1>1, <1>2, FilesStay
<1>4. NewCover'
  BY <1>1, <1>3 DEF ExactInv, NewCover, Sectors, Has, Covers, EndOf
<1>5. OldCover'
  BY <1>1, <1>2, <1>3 DEF ExactInv, OldCover, Sectors, Has, Covers, EndOf
<1>6. Alignment' /\ NoneInside'
  BY <1>1, <1>2 DEF ExactInv, Alignment, NoneInside, EndOf
<1>7. Untouched'
  <2>1. SUFFICES ASSUME NEW j \in DOMAIN areas, NEW k \in DOMAIN areas,
                        areas[j].file > Settled, areas[k].file > Settled
                 PROVE  EndOf(areas, j) # k
    BY <1>1, <1>2 DEF Untouched, EndOf
  <2>2. /\ j \in Nat /\ k \in Nat /\ areas[j].len \in Nat \ {0}
        /\ EndOf(areas, j) = j + areas[j].len
    BY InvFacts DEF ExactInv
  <2>3. at \in DOMAIN areas /\ NextKey(areas, at) = End
    BY <1>1 DEF ExactInv, Inv, Swept, SweepOver, StateTypes
  <2>4. at \in Nat /\ j <= at /\ k <= at
    BY <2>3, InvFacts, KeyIs DEF ExactInv
  <2>5. CASE j < at
    BY <1>1, <2>1, <2>5 DEF ExactInv, Untouched
  <2>6. CASE j = at
    BY <2>2, <2>4, <2>6
  <2> QED
    BY <2>2, <2>4, <2>5, <2>6
<1> QED
  BY <1>1, <1>4, <1>5, <1>6, <1>7 DEF Kept

LEMMA MergeStepExact ==
    ASSUME ExactInv, MergeStep
    PROVE  NewCover' /\ OldCover' /\ Alignment' /\ NoneInside' /\ Untouched' /\ Kept
<1> DEFINE a == at
           b == NextKey(areas, at)
           touch == areas[a].file = areas[b].file /\ EndOf(areas, a) = b
<1>1. /\ phase = "merge" /\ phase' = "merge" /\ at # End /\ b # End /\ a = at
      /\ held' = held /\ file' = file /\ cluster' = cluster
      /\ touch => areas' = Merged(areas, a, b) /\ at' = a
      /\ ~touch => areas' = areas /\ at' = b
  BY DEF MergeStep
<1>2. at \in DOMAIN areas /\ DOMAIN areas \subseteq Nat
  BY <1>1, InvFacts DEF ExactInv, Inv, StateTypes
<1>3. Next(areas, a, b)
  BY <1>1, <1>2, KeyIs
<1> HIDE DEF a, b
<1>4. Settled' = Settled /\ Settled \in Nat
  BY <1>1, InvFacts DEF Settled, ExactInv
<1>5. \A x \in Sectors : /\ Newest(x, Settled)' = Newest(x, Settled)
                         /\ Holds(file, x)' <=> Holds(file, x)
  BY <1>1, <1>4, FilesStay
<1>6. /\ a \in DOMAIN areas /\ b \in DOMAIN areas /\ a < b
      /\ \A k \in DOMAIN areas : k <= a \/ b <= k
      /\ \A k \in DOMAIN areas : /\ k \in Nat /\ areas[k].file \in Nat
                                 /\ areas[k].file <= file
                                 /\ EndOf(areas, k) \in Nat /\ k < EndOf(areas, k)
  <2>1. \A k \in DOMAIN areas : /\ k \in Nat /\ areas[k].file \in Nat
                                 /\ areas[k].file <= file
                                 /\ EndOf(areas, k) \in Nat /\ k < EndOf(areas, k)
    BY InvFacts DEF ExactInv
  <2> QED
    BY <1>3, <2>1 DEF Next
<1>7. CASE ~touch
  <2>1. areas' = areas /\ at' = b
    BY <1>1, <1>7
  <2>2. NewCover' /\ OldCover'
    BY <1>1, <1>4, <1>5, <2>1 DEF ExactInv, NewCover, OldCover, Sectors, Has, Covers, EndOf
  <2>3. Alignment' /\ NoneInside'
    BY <1>1, <1>4, <2>1 DEF ExactInv, Alignment, NoneInside, EndOf
  <2>4. Untouched'
    <3>1. SUFFICES ASSUME NEW j \in DOMAIN areas, NEW k \in DOMAIN areas, j < b,
                          areas[j].file > Settled, areas[k].file > Settled,
                          EndOf(areas, j) = k
                   PROVE  FALSE
      BY <1>1, <1>4, <2>1 DEF Untouched, EndOf
    <3>2. ~(j < a)
      BY <1>1, <3>1 DEF ExactInv, Untouched
    <3>3. j = a /\ b <= k
      BY <1>6, <3>1, <3>2
    <3>4. CASE k = b
      <4>1. areas[a].file = areas[b].file
        <5>1. Settled = file - 1 /\ file \in Nat
          BY <1>1, InvFacts DEF ExactInv
        <5> QED
          BY <1>6, <3>1, <3>3, <3>4, <5>1
      <4> QED
        BY <1>7, <3>1, <3>3, <3>4, <4>1
    <3>5. CASE b < k
      <4>1. CASE areas[b].file > Settled
        <5>1. areas[a].file <= Settled <=> areas[b].file <= Settled
          BY <1>4, <1>6, <3>1, <3>3, <4>1
        <5>2. EndOf(areas, a) <= b
          BY <1>6, <5>1 DEF ExactInv, Inv, Ordered
        <5> QED
          BY <1>6, <3>1, <3>3, <3>5, <5>2
      <4>2. CASE areas[b].file <= Settled
        BY <1>6, <3>1, <3>3, <3>5, <4>2 DEF ExactInv, NoneInside
      <4> QED
        BY <1>4, <1>6, <4>1, <4>2
    <3> QED
      BY <1>6, <3>3, <3>4, <3>5
  <2> QED
    BY <2>1, <2>2, <2>3, <2>4 DEF Kept
<1>8. CASE touch
  <2>1. areas' = Merged(areas, a, b) /\ at' = a
    BY <1>1, <1>8
  <2>2. MapTypes(areas)
    BY DEF ExactInv, Inv, StateTypes
  <2>3. /\ EndOf(areas', a) = EndOf(areas, b)
        /\ \A k \in DOMAIN areas : k # a /\ k # b => EndOf(areas', k) = EndOf(areas, k)
        /\ \A x \in Nat, g \in Files : Has(areas', x, g) <=> Has(areas, x, g)
    BY <1>3, <1>8, <2>1, <2>2, MergedHas
  <2>4. Joined(areas', areas, a, b)
    BY <1>6, <2>1, MergedIs
  <2>5. /\ DOMAIN areas' = DOMAIN areas \ {b}
        /\ \A k \in DOMAIN areas' : areas'[k].file = areas[k].file
    BY <2>4 DEF Joined, Area
  <2>6. file \in Files /\ Sectors \subseteq Nat
    BY InvFacts, SectorsAre DEF ExactInv
  <2>7. NewCover'
    <3>1. \A x \in Sectors : Has(areas', x, file) <=> Has(areas, x, file)
      BY <2>3, <2>6
    <3> QED
      BY <1>1, <1>5, <3>1 DEF ExactInv, NewCover, Sectors, Has, Covers, EndOf
  <2>8. \A x \in Sectors, g \in Files : Has(areas', x, g) <=> Has(areas, x, g)
    BY <2>3, <2>6
  <2>9. OldCover'
    BY <1>4, <1>5, <2>8 DEF ExactInv, OldCover, Sectors, Has, Covers, EndOf
  <2>10. Kept
    BY <2>8 DEF Kept
  <2>11. Alignment'
    <3>1. ASSUME file # NFiles, NEW k \in DOMAIN areas'
          PROVE  /\ Whole(k, ClusterSectors[file])
                 /\ areas'[k].file > Settled /\ file # 1 =>
                       Whole(EndOf(areas', k), ClusterSectors[file])
      <4>1. \A i \in DOMAIN areas :
               /\ Whole(i, ClusterSectors[file])
               /\ areas[i].file > Settled /\ file # 1 =>
                     Whole(EndOf(areas, i), ClusterSectors[file])
        BY <1>1, <3>1 DEF ExactInv, Alignment
      <4>2. CASE k = a
        BY <1>6, <1>8, <2>3, <2>5, <4>1, <4>2
      <4>3. CASE k # a
        BY <2>3, <2>5, <4>1, <4>3
      <4> QED
        BY <4>2, <4>3
    <3> QED
      BY <1>1, <1>4, <3>1 DEF Alignment, EndOf
  <2>12. NoneInside'
    <3>1. ASSUME NEW j \in DOMAIN areas', NEW k \in DOMAIN areas',
                 areas'[j].file > Settled, areas'[k].file <= Settled,
                 j <= k, k < EndOf(areas', j)
          PROVE  FALSE
      <4>1. /\ j \in DOMAIN areas /\ k \in DOMAIN areas /\ j # b /\ k # b
            /\ areas[j].file > Settled /\ areas[k].file <= Settled
        BY <2>5, <3>1
      <4>2. \A i \in DOMAIN areas : areas[i].file > Settled => ~(i <= k /\ k < EndOf(areas, i))
        BY <4>1 DEF ExactInv, NoneInside
      <4>3. CASE j = a
        <5>1. areas[b].file > Settled
          BY <1>8, <4>1, <4>3
        <5>2. b <= k \/ k < EndOf(areas, a)
          BY <1>6, <1>8, <4>1
        <5> QED
          BY <1>6, <2>3, <3>1, <4>1, <4>2, <4>3, <5>1, <5>2
      <4>4. CASE j # a
        BY <2>3, <3>1, <4>1, <4>2, <4>4
      <4> QED
        BY <4>3, <4>4
    <3> QED
      BY <1>4, <3>1 DEF NoneInside, EndOf
  <2>13. Untouched'
    <3>1. SUFFICES ASSUME NEW j \in DOMAIN areas', NEW k \in DOMAIN areas', j < a,
                          areas'[j].file > Settled, areas'[k].file > Settled
                   PROVE  EndOf(areas', j) # k
      BY <1>1, <1>4, <2>1 DEF Untouched, EndOf
    <3>2. /\ j \in DOMAIN areas /\ k \in DOMAIN areas
          /\ areas[j].file > Settled /\ areas[k].file > Settled
      BY <2>5, <3>1
    <3>3. EndOf(areas', j) = EndOf(areas, j)
      BY <1>6, <2>3, <2>5, <3>1, <3>2
    <3> QED
      BY <1>1, <3>1, <3>2, <3>3 DEF ExactInv, Untouched
  <2> QED
    BY <2>7, <2>9, <2>10, <2>11, <2>12, <2>13
<1> QED
  BY <1>7, <1>8

LEMMA TrimStepExact ==
    ASSUME ExactInv, EndsCut, TrimStep
    PROVE  NewCover' /\ OldCover' /\ Alignment' /\ NoneInside' /\ Untouched' /\ Kept
<1> DEFINE a == at
           b == NextKey(areas, at)
           e == EndOf(areas, b)
<1>1. /\ phase = "trim" /\ phase' = "trim" /\ held' = held /\ file' = file /\ cluster' = cluster
      /\ Next(areas, a, b) /\ TrimCase(a, b) /\ a = at
  BY TrimCases DEF ExactInv
<1> HIDE DEF a, b
<1>2. Settled' = Settled /\ Settled \in Nat /\ Settled = file - 1 /\ file \in Nat /\ file \in Files
  BY <1>1, InvFacts DEF Settled, ExactInv
<1>3. \A x \in Sectors : /\ Newest(x, Settled)' = Newest(x, Settled)
                         /\ Holds(file, x)' <=> Holds(file, x)
  BY <1>1, <1>2, FilesStay
<1>4. \A k \in DOMAIN areas : /\ k \in Nat /\ areas[k].file \in Nat
                              /\ areas[k].file \in Files /\ areas[k].file <= file
                              /\ EndOf(areas, k) \in Nat /\ k < EndOf(areas, k)
  <2>1. \A k \in DOMAIN areas : areas[k].file \in Files
    BY DEF ExactInv, Inv, StateTypes, MapTypes
  <2> QED
    BY <2>1, InvFacts DEF ExactInv
<1>5. /\ a \in DOMAIN areas /\ b \in DOMAIN areas /\ a < b
      /\ \A k \in DOMAIN areas : k <= a \/ b <= k
      /\ a \in Nat /\ b \in Nat /\ e \in Nat /\ b < e
  BY <1>1, <1>4 DEF Next
<1>6. CASE /\ areas[a].file > Settled /\ areas[b].file <= Settled
           /\ EndOf(areas, a) > b
  BY <1>5, <1>6, <1>4 DEF ExactInv, NoneInside
<1>7. CASE EndOf(areas, a) <= b /\ at' = b /\ areas' = areas
  <2>1. NewCover' /\ OldCover'
    BY <1>1, <1>2, <1>3, <1>7 DEF ExactInv, NewCover, OldCover, Sectors, Has, Covers, EndOf
  <2>2. Alignment' /\ NoneInside'
    BY <1>1, <1>2, <1>7 DEF ExactInv, Alignment, NoneInside, EndOf
  <2>3. Untouched'
    BY <1>1, <1>2, <1>7 DEF ExactInv, Untouched, EndOf
  <2> QED
    BY <1>7, <2>1, <2>2, <2>3 DEF Kept
<1>8. CASE /\ areas[a].file <= Settled /\ areas[b].file > Settled
           /\ EndOf(areas, a) > b
           /\ areas' = CutFirst(areas, a, b)
           /\ at' = b
  <2>1. areas[b].file = file /\ areas[a].file # file /\ file # 1
    <3>1. areas[b].file = file /\ areas[a].file # file
      BY <1>2, <1>4, <1>5, <1>8
    <3>2. 1 <= areas[a].file
      BY <1>4, <1>5 DEF Files
    <3> QED
      BY <1>2, <1>4, <1>5, <1>8, <3>1, <3>2
  <2>2. FirstCut(areas', areas, a, b)
    BY <1>5, <1>8, CutFirstIs
  <2>3. ASSUME EndOf(areas, a) > e PROVE e \notin DOMAIN areas
    <3>1. SUFFICES ASSUME e \in DOMAIN areas PROVE FALSE
      OBVIOUS
    <3>2. CASE areas[e].file <= Settled
      <4>1. a < e
        BY <1>5
      <4>2. EndOf(areas, a) <= e
        BY <1>5, <1>8, <3>1, <3>2, <4>1 DEF ExactInv, Inv, Ordered
      <4> QED
        BY <1>4, <1>5, <2>3, <4>2
    <3>3. CASE areas[e].file > Settled
      BY <1>1, <1>5, <1>8, <3>1, <3>3 DEF ExactInv, Untouched
    <3> QED
      BY <1>2, <1>4, <3>1, <3>2, <3>3
  <2>4. MapTypes(areas)
    BY DEF ExactInv, Inv, StateTypes
  <2>5. ASSUME NEW x \in Nat, NEW g \in Files
        PROVE  /\ Has(areas', x, g) => Has(areas, x, g)
               /\ Has(areas, x, g) =>
                     Has(areas', x, g) \/ (g = areas[a].file /\ Has(areas', x, file))
    BY <1>1, <1>8, <2>1, <2>2, <2>3, <2>4, <2>5, CutFirstHas
  <2>6. \A k \in DOMAIN areas' :
            \/ k \in DOMAIN areas /\ k # a /\ areas'[k] = areas[k]
               /\ EndOf(areas', k) = EndOf(areas, k)
            \/ k = a /\ areas'[a].file = areas[a].file /\ EndOf(areas', a) = b
            \/ k = e /\ k \notin DOMAIN areas /\ areas'[k].file = areas[a].file
    BY <1>1, <1>8, <2>1, <2>2, <2>3, <2>4, CutFirstHas
  <2>7. Sectors \subseteq Nat
    BY SectorsAre
  <2> HIDE DEF e
  <2>8. \A k \in DOMAIN areas' : areas'[k].file > Settled =>
            /\ k \in DOMAIN areas /\ areas[k].file > Settled
            /\ EndOf(areas', k) = EndOf(areas, k)
    BY <1>2, <1>4, <1>5, <1>8, <2>6
  <2>9. NewCover'
    <3>1. \A x \in Sectors : Has(areas', x, file) <=> Has(areas, x, file)
      BY <1>2, <2>1, <2>5, <2>7
    <3> QED
      BY <1>1, <1>3, <3>1 DEF ExactInv, NewCover, Sectors, Has, Covers, EndOf
  <2>10. ASSUME NEW x \in Sectors, NEW g \in Files, Has(areas, x, g)
         PROVE  \E h \in Files : Has(areas', x, h)
    BY <1>2, <2>5, <2>7, <2>10
  <2>11. OldCover'
    <3>1. ASSUME NEW x \in Sectors, NEW g \in Files, g <= Settled, Has(areas', x, g)
          PROVE  Newest(x, Settled) = {g}
      BY <2>5, <2>7, <3>1 DEF ExactInv, OldCover
    <3>2. ASSUME NEW x \in Sectors, Newest(x, Settled) # {}
          PROVE  \E g \in Files : Has(areas', x, g)
      <4>1. PICK g \in Files : Has(areas, x, g)
        BY <3>2 DEF ExactInv, OldCover
      <4> QED
        BY <2>10, <4>1
    <3> QED
      BY <1>2, <1>3, <3>1, <3>2 DEF OldCover, Sectors, Has, Covers, EndOf
  <2>12. Kept
    BY <2>10 DEF Kept
  <2>13. Alignment'
    <3>1. ASSUME file # NFiles, NEW k \in DOMAIN areas'
          PROVE  /\ Whole(k, ClusterSectors[file])
                 /\ areas'[k].file > Settled /\ file # 1 =>
                       Whole(EndOf(areas', k), ClusterSectors[file])
      <4>1. \A i \in DOMAIN areas :
               /\ Whole(i, ClusterSectors[file])
               /\ areas[i].file > Settled /\ file # 1 =>
                     Whole(EndOf(areas, i), ClusterSectors[file])
        BY <1>1, <3>1 DEF ExactInv, Alignment
      <4>2. Whole(e, ClusterSectors[file])
        BY <1>5, <1>8, <2>1, <4>1 DEF e
      <4>3. Whole(k, ClusterSectors[file])
        BY <1>5, <2>6, <4>1, <4>2
      <4> QED
        BY <2>8, <4>1, <4>3
    <3> QED
      BY <1>1, <1>2, <3>1 DEF Alignment, EndOf
  <2>14. NoneInside'
    <3>1. ASSUME NEW j \in DOMAIN areas', NEW k \in DOMAIN areas',
                 areas'[j].file > Settled, areas'[k].file <= Settled,
                 j <= k, k < EndOf(areas', j)
          PROVE  FALSE
      <4>1. j \in DOMAIN areas /\ areas[j].file > Settled /\ k < EndOf(areas, j)
        BY <2>8, <3>1
      <4>2. CASE k \in DOMAIN areas /\ areas'[k].file = areas[k].file
        BY <3>1, <4>1, <4>2 DEF ExactInv, NoneInside
      <4>3. CASE k = e /\ k \notin DOMAIN areas
        <5>1. j \in Nat /\ j # e /\ j < e
          BY <1>4, <1>5, <3>1, <4>1, <4>3
        <5>2. j < b => EndOf(areas, j) <= b
          BY <1>2, <1>4, <1>5, <1>8, <4>1 DEF ExactInv, Inv, Ordered
        <5>3. b < j => e <= j
          BY <1>2, <1>4, <1>5, <1>8, <4>1 DEF ExactInv, Inv, Ordered, e
        <5>4. j = b => FALSE
          BY <1>5, <4>1, <4>3 DEF e
        <5> QED
          BY <1>4, <1>5, <4>1, <4>3, <5>1, <5>2, <5>3, <5>4
      <4> QED
        BY <1>5, <2>6, <4>2, <4>3
    <3> QED
      BY <1>2, <3>1 DEF NoneInside, EndOf
  <2>15. Untouched'
    <3>1. ASSUME NEW j \in DOMAIN areas', NEW k \in DOMAIN areas',
                 areas'[j].file > Settled, areas'[k].file > Settled
          PROVE  EndOf(areas', j) # k
      BY <1>1, <2>8, <3>1 DEF ExactInv, Untouched
    <3> QED
      BY <1>2, <3>1 DEF Untouched, EndOf
  <2> QED
    BY <2>9, <2>11, <2>12, <2>13, <2>14, <2>15
<1> QED
  BY <1>1, <1>6, <1>7, <1>8 DEF TrimCase

LEMMA TrimEndExact ==
    ASSUME ExactInv, Nested, TrimEnd
    PROVE  NewCover' /\ OldCover' /\ Alignment' /\ NoneInside' /\ Untouched' /\ Kept
<1>1. /\ phase = "trim" /\ NextFile /\ UNCHANGED <<held, areas>>
      /\ \A j, k \in DOMAIN areas : j < k => EndOf(areas, j) <= k
  BY TrimEndFacts DEF ExactInv
<1>2. \A x \in Sectors : Has(areas, x, file) <=> Holds(file, x)
  BY <1>1 DEF ExactInv, NewCover
<1>3. NewCover' /\ OldCover' /\ Alignment' /\ NoneInside' /\ Untouched'
  BY <1>1, <1>2, TurnExact
<1> QED
  BY <1>1, <1>3 DEF Kept

LEMMA InitExact == Init => ExactInv
<1> SUFFICES ASSUME Init PROVE ExactInv
  OBVIOUS
<1>1. Inv /\ areas = <<>> /\ file = 1 /\ cluster = 0 /\ phase = "scan"
  BY InitInv DEF Init
<1>2. DOMAIN areas = {} /\ Settled = 0
  BY <1>1 DEF Settled
<1>3. \A x, g : ~Has(areas, x, g)
  BY <1>2 DEF Has
<1>4. NewCover
  <2>1. 0 * ClusterSectors[1] = 0
    <3>1. 1 \in Files
      BY NFilesAssumption DEF Files
    <3> QED
      BY <3>1, Counts
  <2>2. \A x \in Sectors : ~(x < cluster * ClusterSectors[file])
    BY <1>1, <2>1, SectorsAre
  <2> QED
    BY <1>1, <1>3, <2>2 DEF NewCover
<1>5. OldCover
  <2>1. \A x : Newest(x, 0) = {}
    BY DEF Newest
  <2> QED
    BY <1>2, <1>3, <2>1 DEF OldCover
<1> QED
  BY <1>1, <1>2, <1>4, <1>5 DEF ExactInv, Alignment, NoneInside, Untouched

LEMMA StepExact ==
    ASSUME Nested, EndsCut
    PROVE  ExactInv /\ [Query]_vars => ExactInv' /\ Kept
<1> SUFFICES ASSUME ExactInv, [Query]_vars PROVE ExactInv' /\ Kept
  OBVIOUS
<1>0. Inv'
  BY StepInv DEF ExactInv
<1>9. SUFFICES NewCover' /\ OldCover' /\ Alignment' /\ NoneInside' /\ Untouched' /\ Kept
  BY <1>0, <1>9 DEF ExactInv
<1>1. CASE SkipEmpty
  BY <1>1, SkipEmptyExact
<1>2. CASE ScanCluster
  BY <1>2, ScanClusterExact
<1>3. CASE ScanEnd
  BY <1>3, ScanEndExact
<1>4. CASE MergeStep
  BY <1>4, MergeStepExact
<1>5. CASE MergeEnd
  BY <1>5, MergeEndExact
<1>6. CASE TrimStep
  BY <1>6, TrimStepExact
<1>7. CASE TrimEnd
  BY <1>7, TrimEndExact
<1>8. CASE UNCHANGED vars
  <2>1. UNCHANGED <<held, areas, file, cluster, phase, at>>
    BY <1>8 DEF vars
  <2>2. Settled' = Settled
    BY <2>1 DEF Settled
  <2>3. \A x \in Sectors : /\ Newest(x, Settled)' = Newest(x, Settled)
                           /\ Holds(file, x)' <=> Holds(file, x)
    BY <2>1, <2>2, FilesStay
  <2>4. NewCover' /\ OldCover'
    BY <2>1, <2>2, <2>3 DEF ExactInv, NewCover, OldCover, Sectors, Has, Covers, EndOf
  <2>5. Alignment' /\ NoneInside' /\ Untouched'
    BY <2>1, <2>2 DEF ExactInv, Alignment, NoneInside, Untouched, EndOf
  <2>6. Kept
    BY <2>1 DEF Kept
  <2> QED
    BY <2>4, <2>5, <2>6
<1> QED
  BY <1>1, <1>2, <1>3, <1>4, <1>5, <1>6, <1>7, <1>8 DEF Query

LEMMA OwnersAre ==
    ASSUME Inv, NEW x \in Sectors
    PROVE  /\ Owners(x) \subseteq Files
           /\ \A g : g \in Owners(x) <=> Has(areas, x, g)
<1>1. \A g : g \in Owners(x) <=> Has(areas, x, g)
  BY DEF Owners, Has
<1>2. \A k \in DOMAIN areas : areas[k].file \in Files
  BY DEF Inv, StateTypes, MapTypes
<1> QED
  BY <1>1, <1>2 DEF Has

LEMMA ExactInvAreas == ExactInv => AreasExact
<1> SUFFICES ASSUME ExactInv, AtRest, NEW x \in Sectors PROVE Owners(x) = Newest(x, Settled)
  BY DEF AreasExact
<1>1. \A k \in DOMAIN areas : areas[k].file <= Settled
  <2>1. CASE phase = "done"
    BY <2>1, InvFacts DEF ExactInv, Settled
  <2>2. CASE phase = "scan" /\ cluster = 0
    BY <2>2, InvFacts DEF ExactInv, Inv, Front
  <2> QED
    BY <2>1, <2>2 DEF AtRest
<1>2. \A g \in Owners(x) : Newest(x, Settled) = {g}
  <2>1. \A g \in Owners(x) : Has(areas, x, g) /\ g \in Files /\ g <= Settled
    BY <1>1, OwnersAre DEF ExactInv, Has
  <2> QED
    BY <2>1 DEF ExactInv, OldCover
<1>3. Newest(x, Settled) # {} => Owners(x) # {}
  BY OwnersAre DEF ExactInv, OldCover
<1>4. CASE Owners(x) = {}
  BY <1>3, <1>4
<1>5. CASE Owners(x) # {}
  BY <1>2, <1>5
<1> QED
  BY <1>4, <1>5

LEMMA KeptOwners ==
    ASSUME Inv, Inv', Kept
    PROVE  \A s \in Sectors : Owners(s) # {} => Owners(s)' # {}
<1> SUFFICES ASSUME NEW s \in Sectors, Owners(s) # {} PROVE Owners(s)' # {}
  OBVIOUS
<1>1. PICK g \in Files : Has(areas, s, g)
  BY OwnersAre
<1>2. PICK h \in Files : Has(areas', s, h)
  BY <1>1 DEF Kept
<1>3. h \in Owners(s)'
  BY <1>2 DEF Owners, Has, Covers, EndOf
<1> QED
  BY <1>3

LEMMA ExactHolds ==
    ASSUME Nested, EndsCut
    PROVE  Spec => []ExactInv
<1>1. Init => ExactInv
  BY InitExact
<1>2. ExactInv /\ [Query]_vars => ExactInv'
  BY StepExact
<1> QED
  BY <1>1, <1>2, PTL DEF Spec

\* Between two files and at the end every sector is attributed to the newest
\* file that has it, and to no other: the answer of QueryChangedDiskAreas is
\* exact, for chains of any length and size in which clusters do not grow from
\* a file to the next and only the base and the newest end in a cut cluster.
THEOREM AreasAreExact ==
    ASSUME Nested, EndsCut
    PROVE  Spec => []AreasExact
BY ExactHolds, ExactInvAreas, PTL

\* In the same chains no turn of a sweep, with all it erases, inserts and cuts,
\* leaves a sector that had an owner without one.  (QueryChangedAreas, lines 590-732)
THEOREM NothingIsUncovered ==
    ASSUME Nested, EndsCut
    PROVE  Spec => NothingUncovered
<1>1. ExactInv /\ ExactInv' /\ [Query]_vars =>
         [\A s \in Sectors : Owners(s) # {} => Owners(s)' # {}]_vars
  <2> SUFFICES ASSUME ExactInv, ExactInv', [Query]_vars
               PROVE  \A s \in Sectors : Owners(s) # {} => Owners(s)' # {}
    OBVIOUS
  <2>1. Kept
    BY StepExact
  <2> QED
    BY <2>1, KeptOwners DEF ExactInv
<1>2. Spec => []ExactInv
  BY ExactHolds
<1> QED
  BY <1>1, <1>2, PTL DEF Spec, NothingUncovered

=============================================================================
