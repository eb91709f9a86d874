-------------------------- MODULE Qcow2WriteProofs --------------------------
(***************************************************************************)
(* Proofs about Qcow2Write, for every value of its constants.              *)
(***************************************************************************)
EXTENDS Qcow2Write, TLAPS

-----------------------------------------------------------------------------
(* Arithmetic.                                                             *)

\* Quotient and remainder, as the code takes them of offsets and clusters.
LEMMA DivMod ==
    ASSUME NEW n \in Nat, NEW d \in Nat, d # 0
    PROVE  /\ n \div d \in Nat
           /\ n % d \in Nat
           /\ n % d < d
           /\ n = d * (n \div d) + (n % d)
BY SMT

LEMMA TimesMonotone ==
    ASSUME NEW a \in Nat, NEW b \in Nat, NEW d \in Nat, a <= b
    PROVE  a * d <= b * d
BY SMT

\* A sector before the end of m clusters is in one of them.
LEMMA DivLess ==
    ASSUME NEW n \in Nat, NEW d \in Nat, d # 0, NEW m \in Nat, n < m * d
    PROVE  n \div d < m
<1> DEFINE q == n \div d
<1>1. q \in Nat /\ n >= d * q
  BY DivMod
<1>2. SUFFICES ASSUME q >= m PROVE FALSE
  BY <1>1
<1>3. m * d <= q * d
  BY <1>1, <1>2, TimesMonotone
<1> QED
  BY <1>1, <1>3, SMT

-----------------------------------------------------------------------------
(* What the constants give.                                                *)

LEMMA ConstantTypes ==
    /\ L1Size \in Nat /\ L2Size \in Nat /\ L2Size # 0
    /\ Sectors \in Nat /\ Sectors # 0 /\ DiskClusters \in Nat
    /\ RefBlock0 \in Nat /\ L1Cluster \in Nat /\ L1Cluster > 1
    /\ RefEntries \in Nat /\ RefEntries # 0
    /\ L1Clusters \in Nat /\ FirstData \in Nat /\ FirstData # 0
<1>1. L1Size + L2Size - 1 \in Nat /\ L2Size \in Nat /\ L2Size # 0
  BY SizeAssumption
<1>2. L1Clusters \in Nat
  BY <1>1, DivMod DEF L1Clusters
<1> QED
  BY <1>2, SizeAssumption, LayoutAssumption, RefAssumption DEF FirstData

LEMMA IndexTypes ==
    /\ \A g \in Nat : TableOf(g) \in Nat
    /\ \A i \in Nat : TableAt(i) \in Nat
    /\ \A c \in Nat : RefIndex(c) \in Nat
<1>1. \A g \in Nat : TableOf(g) \in Nat
  BY ConstantTypes, DivMod DEF TableOf
<1>2. \A c \in Nat : RefIndex(c) \in Nat
  BY ConstantTypes, DivMod DEF RefIndex
<1> QED
  BY <1>1, <1>2, ConstantTypes DEF TableAt

-----------------------------------------------------------------------------
(* Facts about one state.                                                  *)

LEMMA HostTypes ==
    ASSUME TypeOK
    PROVE  \A g \in Guest : HostOf(g) \in 0..DiskClusters
BY ConstantTypes DEF TypeOK, HostOf

\* An entry of a table and the end of a pwrite are places in the file.
LEMMA PlaceTypes ==
    ASSUME TypeOK, NEW g \in Guest
    PROVE  /\ TableOf(g) \in L1Index
           /\ EntryAt(g) \in Nat
           /\ \A c \in Nat : (c + 1) * L2Size \in Nat
<1>1. g \in Nat /\ g < L1Size * L2Size
  BY ConstantTypes, SizeAssumption DEF Guest
<1>2. TableOf(g) \in L1Index /\ g % L2Size \in Nat
  BY <1>1, ConstantTypes, DivMod, DivLess DEF TableOf, L1Index
<1>3. PICK t \in Nat : t = l1[TableOf(g)]
  BY <1>2 DEF TypeOK
<1>4. t * L2Size \in Nat /\ \A c \in Nat : (c + 1) * L2Size \in Nat
  BY ConstantTypes
<1> QED
  BY <1>2, <1>3, <1>4 DEF EntryAt

LEMMA LongerTypes ==
    ASSUME TypeOK, NEW e \in Nat
    PROVE  Longer(e) \in Nat /\ Longer(e) >= size /\ Longer(e) >= e
BY DEF TypeOK, Longer

\* What the search of Write adds at the end of the file is 0, or some cluster
\* it has found, with its bytes swapped.
LEMMA StaleIs ==
    ASSUME TypeOK, NEW m \in Stale
    PROVE  /\ m \in Nat
           /\ m = 0 \/ \E g \in Guest : HostOf(g) # 0
<1>1. PICK p \in Searched : m = Swapped[IF p \in Guest THEN l2[p] ELSE 0]
  BY DEF Stale, Within
<1>2. CASE p \in Guest /\ l2[p] # 0
  <2>1. HostOf(p) # 0 /\ l2[p] \in 0..DiskClusters
    BY <1>2 DEF Searched, HostOf, TypeOK
  <2> QED
    BY <1>1, <1>2, <2>1, SwapAssumption
<1>3. CASE ~(p \in Guest /\ l2[p] # 0)
  BY <1>1, <1>3, SwapAssumption
<1> QED
  BY <1>2, <1>3

\* The search of Write finds a cluster at or above every one there is.
LEMMA LargestIs ==
    ASSUME TypeOK, NEW m \in Largest
    PROVE  /\ m \in Nat
           /\ \A g \in Guest : HostOf(g) <= m
           /\ m = 0 \/ \E g \in Guest : HostOf(g) # 0
<1>1. m \in Stale \/ \E g \in Guest : m = HostOf(g)
  BY DEF Largest
<1>2. \A g \in Guest : HostOf(g) <= m
  BY DEF Largest
<1> QED
  BY <1>1, <1>2, StaleIs, HostTypes, ConstantTypes

\* The next cluster of data is a cluster, and not the header's.
LEMMA NextDataTypes ==
    ASSUME TypeOK, NEW h \in Handles, NEW c \in NextData(h)
    PROVE  c \in Nat /\ c # 0
<1>1. CASE last[h] # 0
  BY <1>1 DEF NextData, TypeOK
<1>2. CASE last[h] = 0
  <2>1. \A m \in Largest : m \in Nat
    BY LargestIs
  <2> QED
    BY <1>2, <2>1, ConstantTypes DEF NextData
<1> QED
  BY <1>1, <1>2

\* Where a write is, as long as it has something left.
LEMMA ChunkTypes ==
    ASSUME TypeOK, buf # <<>>
    PROVE  /\ GuestAt \in Guest
           /\ IndexInCluster \in InCluster
           /\ ChunkLen \in 1..Len(buf)
           /\ IndexInCluster + ChunkLen <= Sectors
<1>1. sec \in Nat /\ buf \in Seq(Value) /\ Len(buf) \in Nat /\ Len(buf) > 0
  BY DEF TypeOK
<1>2. DiskClusters * Sectors \in Nat /\ sec < DiskClusters * Sectors
  BY <1>1, ConstantTypes DEF TypeOK
<1>3. GuestAt \in Nat /\ GuestAt < DiskClusters
  BY <1>1, <1>2, ConstantTypes, DivMod, DivLess DEF GuestAt
<1>4. IndexInCluster \in Nat /\ IndexInCluster < Sectors
  BY <1>1, ConstantTypes, DivMod DEF IndexInCluster
<1> QED
  BY <1>1, <1>3, <1>4, ConstantTypes
     DEF Guest, InCluster, ChunkLen, Room

\* A cluster stays a cluster when a part of it is written.
LEMMA PatchedTypes ==
    ASSUME TypeOK, buf # <<>>, NEW c \in 0..DiskClusters,
           NEW n \in Nat, n <= ChunkLen
    PROVE  Patched(c, n) \in [InCluster -> Value]
<1>1. /\ IndexInCluster \in Nat /\ ChunkLen \in Nat /\ ChunkLen <= Len(buf)
      /\ \A i \in 1..Len(buf) : buf[i] \in Value
      /\ Len(buf) \in Nat
  <2>1. buf \in Seq(Value) /\ Len(buf) \in Nat
    BY DEF TypeOK
  <2>2. IndexInCluster \in InCluster /\ ChunkLen \in 1..Len(buf)
    BY ChunkTypes
  <2> QED
    BY <2>1, <2>2, ConstantTypes DEF InCluster
<1>2. \A i \in InCluster : i \in Nat
  BY ConstantTypes DEF InCluster
<1>3. ASSUME NEW i \in InCluster, IndexInCluster <= i, i < IndexInCluster + n
      PROVE  buf[i - IndexInCluster + 1] \in Value
  BY <1>1, <1>2, <1>3
<1>4. \A i \in InCluster : data[c][i] \in Value
  BY DEF TypeOK
<1> QED
  BY <1>3, <1>4 DEF Patched

-----------------------------------------------------------------------------
(* Type correctness.                                                       *)

LEMMA InitTypeOK == Init => TypeOK
<1>1. L1Cluster * L2Size + L1Size \in Nat
  BY ConstantTypes
<1> QED
  BY <1>1, ConstantTypes, HandlesAssumption, ValueAssumption, LayoutAssumption
     DEF Init, TypeOK

\* What ends a call leaves typed.
LEMMA AnswerTypeOK ==
    ASSUME TypeOK, NEW r \in {"none", "ok", "invalid", "failed"}, Answer(r),
           UNCHANGED <<l1, l2, blocks, counted, open, last, who>>,
           data' \in [0..DiskClusters -> [InCluster -> Value]], size' \in Nat
    PROVE  TypeOK'
BY DEF TypeOK, Answer

LEMMA AdvanceTypes ==
    ASSUME TypeOK, buf # <<>>, Advance
    PROVE  /\ sec' \in Nat
           /\ buf' \in Seq(Value)
           /\ buf' # <<>> => sec' + Len(buf') <= DiskClusters * Sectors
<1>1. /\ ChunkLen \in Nat /\ ChunkLen >= 1 /\ ChunkLen <= Len(buf)
      /\ buf \in Seq(Value) /\ Len(buf) \in Nat
  BY ChunkTypes DEF TypeOK
<1>2. sec \in Nat /\ sec + Len(buf) <= DiskClusters * Sectors
  BY DEF TypeOK
<1>3. sec' = sec + ChunkLen
  BY DEF Advance
<1>4. buf' \in Seq(Value) /\ Len(buf') = Len(buf) - ChunkLen
  BY <1>1 DEF Advance
<1>5. sec' \in Nat /\ sec' + Len(buf') = sec + Len(buf)
  <2> HIDE DEF Advance
  <2>1. Len(buf') = Len(buf) - ChunkLen
    BY <1>4
  <2> QED
    BY <1>1, <1>2, <1>3, <2>1
<1> QED
  BY <1>2, <1>4, <1>5

LEMMA NextTypeOK == TypeOK /\ [Next]_vars => TypeOK'
<1> SUFFICES ASSUME TypeOK, [Next]_vars PROVE TypeOK'
  OBVIOUS
<1> USE DEF image
<1>1. CASE AllocL2
  <2> DEFINE c == TableAt(TableOf(GuestAt))
  <2>1. GuestAt \in Nat
    BY <1>1, ChunkTypes, ConstantTypes DEF AllocL2, Guest
  <2>2. c \in Nat /\ <<c>> \in Seq(Nat)
    BY <2>1, IndexTypes
  <2> HIDE DEF c
  <2>3. l1' \in [L1Index -> Nat] /\ todo' \in Seq(Nat)
    BY <1>1, <2>2 DEF AllocL2, TypeOK, c
  <2> QED
    BY <1>1, <2>3 DEF AllocL2, TypeOK
<1>2. CASE RefBlockAlloc
  <2>1. Head(todo) \in Nat /\ last[who] + 1 \in Nat
    BY <1>2 DEF RefBlockAlloc, TypeOK
  <2>2. RefIndex(Head(todo)) \in Nat
    BY <2>1, IndexTypes
  <2>3. <<last[who] + 1>> \o todo \in Seq(Nat)
    BY <2>1 DEF TypeOK
  <2> QED
    BY <1>2, <2>1, <2>2, <2>3 DEF RefBlockAlloc, TypeOK
<1>3. CASE RefBlockRefused
  BY <1>3, AnswerTypeOK DEF RefBlockRefused, TypeOK
<1>4. CASE SetRef
  <2>1. Head(todo) \in Nat /\ Tail(todo) \in Seq(Nat)
    BY <1>4 DEF SetRef, TypeOK
  <2>2. blocks[RefIndex(Head(todo))] \in Nat
    BY <1>4 DEF SetRef, TypeOK
  <2>3. (blocks[RefIndex(Head(todo))] + 1) * L2Size \in Nat
    BY <2>2, ConstantTypes
  <2>4. size' \in Nat
    BY <1>4, <2>3, LongerTypes DEF SetRef, Counts, TypeOK
  <2> QED
    BY <1>4, <2>1, <2>4 DEF SetRef, TypeOK
<1>5. CASE AllocData
  <2>1. PICK c \in NextData(who) :
           /\ c <= DiskClusters
           /\ l2' = [l2 EXCEPT ![GuestAt] = c]
           /\ last' = [last EXCEPT ![who] = c]
           /\ todo' = <<c>>
    BY <1>5 DEF AllocData
  <2>2. c \in Nat /\ c \in 0..DiskClusters /\ <<c>> \in Seq(Nat)
    BY <2>1, NextDataTypes, ConstantTypes DEF TypeOK
  <2>3. l2' \in [Guest -> 0..DiskClusters] /\ last' \in [Handles -> Nat]
    BY <2>1, <2>2 DEF TypeOK
  <2>4. GuestAt \in Guest
    BY <1>5, ChunkTypes DEF AllocData, Unallocated
  <2>5. EntryAt(GuestAt) + 1 \in Nat
    BY <2>4, PlaceTypes
  <2>6. size' \in Nat
    BY <1>5, <2>5, LongerTypes DEF AllocData
  <2> QED
    BY <1>5, <2>1, <2>2, <2>3, <2>6 DEF AllocData, TypeOK
<1>6. CASE NoSpace
  BY <1>6, AnswerTypeOK DEF NoSpace, TypeOK
<1>7. CASE SkipZero
  BY <1>7, AdvanceTypes DEF SkipZero, Unallocated, TypeOK
<1>8. CASE WriteData
  <2>1. buf # <<>> /\ l2[GuestAt] \in 0..DiskClusters /\ ChunkLen \in Nat
    BY <1>8, ChunkTypes DEF WriteData, Placed, TypeOK
  <2>2. Patched(l2[GuestAt], ChunkLen) \in [InCluster -> Value]
    BY <2>1, PatchedTypes
  <2>3. data' \in [0..DiskClusters -> [InCluster -> Value]]
    BY <1>8, <2>2 DEF WriteData, TypeOK
  <2>4. (l2[GuestAt] + 1) * L2Size \in Nat
    BY <2>1, ConstantTypes
  <2>5. size' \in Nat
    BY <1>8, <2>4, LongerTypes DEF WriteData
  <2> QED
    BY <1>8, <2>1, <2>3, <2>5, AdvanceTypes DEF WriteData, TypeOK
<1>9. CASE WriteDone
  BY <1>9, AnswerTypeOK DEF WriteDone, TypeOK
<1>10. CASE CleanStep
  <2>1. data' \in [0..DiskClusters -> [InCluster -> Value]]
    BY <1>10, ValueAssumption DEF CleanStep, TypeOK
  <2>2. wipe' \in Nat
    BY <1>10, EnvironmentAssumption DEF CleanStep, TypeOK
  <2>3. l1' \in [L1Index -> Nat]
    BY <1>10 DEF CleanStep, TypeOK
  <2>4. l2' \in [Guest -> 0..DiskClusters]
    BY <1>10, ConstantTypes DEF CleanStep, TypeOK
  <2> QED
    BY <1>10, <2>1, <2>2, <2>3, <2>4 DEF CleanStep, TypeOK
<1>11. CASE CleanDone
  BY <1>11, AnswerTypeOK DEF CleanDone, TypeOK
<1>12. ASSUME NEW h \in Handles, Open(h) \/ Close(h)
       PROVE  TypeOK'
  <2>1. last' \in [Handles -> Nat] /\ open' \subseteq Handles
    BY <1>12 DEF Open, Close, TypeOK
  <2> QED
    BY <1>12, <2>1 DEF Open, Close, TypeOK
<1>13. ASSUME NEW h \in Handles, NEW s \in Starts, NEW n \in Lengths,
              NEW values \in [1..n -> Value], Begin(h, s, values)
       PROVE  TypeOK'
  <2>1. n \in Nat /\ values \in Seq(Value) /\ s \in Nat
    BY EnvironmentAssumption DEF Lengths, Sector
  <2>2. Len(values) \in Nat /\ DiskClusters * Sectors \in Nat
    BY <2>1, ConstantTypes
  <2>3. CASE s + Len(values) > DiskClusters * Sectors
    BY <1>13, <2>3 DEF Begin, TypeOK
  <2>4. CASE s + Len(values) <= DiskClusters * Sectors
    <3>1. sec' = s /\ buf' = values /\ call' = "write" /\ result' = "none"
      BY <1>13, <2>1, <2>2, <2>4 DEF Begin
    <3> QED
      BY <1>13, <2>1, <2>4, <3>1 DEF Begin, TypeOK
  <2> QED
    BY <2>1, <2>2, <2>3, <2>4
<1>14. CASE CleanBegin
  BY <1>14, ConstantTypes DEF CleanBegin, TypeOK
<1>15. CASE Torn
  <2>1. buf # <<>> /\ l2[GuestAt] \in 0..DiskClusters /\ ChunkLen \in Nat
    BY <1>15, ChunkTypes DEF Torn, Placed, TypeOK
  <2>2. PICK n \in 1..(ChunkLen - 1) :
           data' = [data EXCEPT ![l2[GuestAt]] = Patched(l2[GuestAt], n)]
    BY <1>15 DEF Torn
  <2>3. Patched(l2[GuestAt], n) \in [InCluster -> Value]
    BY <2>1, <2>2, PatchedTypes
  <2>4. data' \in [0..DiskClusters -> [InCluster -> Value]]
    BY <2>2, <2>3 DEF TypeOK
  <2>5. (l2[GuestAt] + 1) * L2Size \in Nat
    BY <2>1, ConstantTypes
  <2>6. size' \in Nat
    BY <1>15, <2>5, LongerTypes DEF Torn
  <2> QED
    BY <1>15, <2>4, <2>6, AnswerTypeOK DEF Torn
<1>16. CASE Fail
  BY <1>16, AnswerTypeOK DEF Fail, TypeOK
<1>17. CASE Crash
  BY <1>17 DEF Crash, Answer, TypeOK
<1>18. CASE UNCHANGED vars
  BY <1>18 DEF vars, TypeOK
<1> QED
  BY <1>1, <1>2, <1>3, <1>4, <1>5, <1>6, <1>7, <1>8, <1>9, <1>10, <1>11,
     <1>12, <1>13, <1>14, <1>15, <1>16, <1>17, <1>18
     DEF Next, Step, Environment

\* Every variable has its type in every state: the tables hold clusters, data
\* is placed inside the capacity, and a write never runs past the disk.
THEOREM TypeCorrect == Spec => []TypeOK
BY InitTypeOK, NextTypeOK, PTL DEF Spec

-----------------------------------------------------------------------------
(* What every image has, whoever writes it.                                *)

\* Data is placed from the first cluster of data on, and an L2 table where
\* the layout has it.
Placement ==
    /\ \A g \in Guest : l2[g] # 0 => l2[g] >= FirstData
    /\ \A h \in Handles : last[h] # 0 => last[h] >= FirstData
    /\ \A i \in L1Index : l1[i] \in {0, TableAt(i)}
    /\ 0 \in DOMAIN blocks /\ blocks[0] = RefBlock0

\* A call that is over has left nothing of its own.
Quiet == call # "write" => sec = 0 /\ buf = <<>> /\ todo = <<>>

\* What Clean has gone past.
Behind(c) == RefBlock0 <= c /\ c < wipe

Cleaning ==
    call = "clean" =>
       /\ "clean" \in Allowed
       /\ \A i \in L1Index : Behind(L1Cluster + (i \div L2Size)) => l1[i] = 0
       /\ \A g \in Guest : Behind(TableAt(TableOf(g))) => l2[g] = 0
       /\ \A c \in 0..DiskClusters :
             Behind(c) => \A i \in InCluster : data[c][i] = Zero

\* The file reaches to the end of the L1 table and to every entry that is in
\* use, and nothing was ever stored behind its end.
InFile ==
    /\ L1Cluster * L2Size + L1Size <= size
    /\ \A g \in Guest : l2[g] # 0 => TableAt(TableOf(g)) * L2Size + (g % L2Size) < size
    /\ \A c \in 0..DiskClusters :
          size <= c * L2Size => \A i \in InCluster : data[c][i] = Zero

Basics == TypeOK /\ Placement /\ Quiet /\ Cleaning /\ InFile

LEMMA InitBasics == Init => Basics
<1> SUFFICES ASSUME Init PROVE Basics
  OBVIOUS
<1>1. call = "idle"
  BY DEF Init
<1>2. size = L1Cluster * L2Size + L1Size /\ size \in Nat
  BY InitTypeOK DEF Init, TypeOK
<1>3. InFile
  BY <1>2 DEF Init, InFile
<1> QED
  BY <1>1, <1>3, InitTypeOK DEF Init, Basics, Placement, Quiet, Cleaning

\* Where the next cluster of data goes.
LEMMA NextDataPlaced ==
    ASSUME TypeOK, Placement, NEW h \in Handles, NEW c \in NextData(h)
    PROVE  c >= FirstData /\ c \in Nat
<1>1. c \in Nat /\ FirstData \in Nat /\ last[h] \in Nat
  BY NextDataTypes, ConstantTypes DEF TypeOK
<1>2. CASE last[h] # 0
  BY <1>1, <1>2 DEF NextData, Placement
<1>3. CASE last[h] = 0
  <2>1. PICK m \in Largest : c = IF m = 0 THEN FirstData ELSE m + 1
    BY <1>3 DEF NextData
  <2>2. \A g \in Guest : HostOf(g) \in Nat /\ (HostOf(g) # 0 => HostOf(g) >= FirstData)
    BY HostTypes, ConstantTypes DEF HostOf, Placement
  <2>3. m \in Nat /\ (m # 0 => m >= FirstData)
    BY <1>1, <2>1, <2>2, LargestIs
  <2> QED
    BY <1>1, <2>1, <2>3
<1> QED
  BY <1>2, <1>3

LEMMA NextPlacement ==
    ASSUME TypeOK, Placement, [Next]_vars
    PROVE  Placement'
<1> USE DEF image
<1>1. CASE AllocL2
  <2>1. \A i \in L1Index : l1'[i] \in {l1[i], TableAt(i)}
    BY <1>1 DEF AllocL2, TypeOK
  <2> QED
    BY <1>1, <2>1 DEF AllocL2, Placement
<1>2. CASE RefBlockAlloc
  <2>1. who \in Handles /\ last[who] \in Nat /\ last[who] # 0 /\ FirstData \in Nat
    BY <1>2, ConstantTypes DEF RefBlockAlloc, TypeOK
  <2>2. \A h \in Handles : last'[h] = IF h = who THEN last[who] + 1 ELSE last[h]
    BY <1>2 DEF RefBlockAlloc, TypeOK
  <2>3. \A h \in Handles : last'[h] # 0 => last'[h] >= FirstData
    BY <2>1, <2>2 DEF Placement
  <2>4. 0 \in DOMAIN blocks' /\ blocks'[0] = RefBlock0
    BY <1>2 DEF RefBlockAlloc, Placement
  <2> QED
    BY <1>2, <2>3, <2>4 DEF RefBlockAlloc, Placement
<1>3. CASE AllocData
  <2>1. PICK c \in NextData(who) :
           /\ l2' = [l2 EXCEPT ![GuestAt] = c]
           /\ last' = [last EXCEPT ![who] = c]
    BY <1>3 DEF AllocData
  <2>2. c >= FirstData
    BY <2>1, NextDataPlaced DEF TypeOK
  <2>3. \A g \in Guest : l2'[g] \in {c, l2[g]}
    BY <2>1 DEF TypeOK
  <2>4. \A h \in Handles : last'[h] \in {c, last[h]}
    BY <2>1 DEF TypeOK
  <2>5. UNCHANGED <<l1, blocks>>
    BY <1>3 DEF AllocData
  <2>6. \A g \in Guest : l2'[g] # 0 => l2'[g] >= FirstData
    BY <2>2, <2>3 DEF Placement
  <2>7. \A h \in Handles : last'[h] # 0 => last'[h] >= FirstData
    BY <2>2, <2>4 DEF Placement
  <2> QED
    BY <2>5, <2>6, <2>7 DEF Placement
<1>4. CASE CleanStep
  <2>1. \A i \in L1Index : l1'[i] \in {0, l1[i]}
    BY <1>4 DEF CleanStep
  <2>2. \A g \in Guest : l2'[g] \in {0, l2[g]}
    BY <1>4 DEF CleanStep
  <2> QED
    BY <1>4, <2>1, <2>2 DEF CleanStep, Placement
<1>5. CASE \E h \in Handles : Open(h) \/ Close(h)
  <2>1. \A k \in Handles : last'[k] \in {0, last[k]}
    BY <1>5 DEF Open, Close, TypeOK
  <2> QED
    BY <1>5, <2>1 DEF Open, Close, Placement
<1>6. CASE Crash
  BY <1>6 DEF Crash, Placement
<1>7. CASE UNCHANGED <<l1, l2, blocks, last>>
  BY <1>7 DEF Placement
<1> QED
  BY <1>1, <1>2, <1>3, <1>4, <1>5, <1>6, <1>7
     DEF Next, Step, Environment, vars, RefBlockRefused, SetRef, NoSpace, SkipZero,
         WriteData, WriteDone, CleanDone, Begin, CleanBegin, Torn, Fail

LEMMA NextQuiet ==
    ASSUME Quiet, [Next]_vars
    PROVE  Quiet'
<1> USE DEF image
<1>1. CASE call = "write" /\ call' = "write"
  BY <1>1 DEF Quiet
<1>2. CASE UNCHANGED <<call, sec, buf, todo>> \/ \E r \in {"ok", "invalid", "failed", "none"} : Answer(r)
  BY <1>2 DEF Quiet, Answer
<1>3. CASE \E h \in Handles, s \in Starts, n \in Lengths :
              \E values \in [1..n -> Value] : Begin(h, s, values)
  BY <1>3 DEF Begin, Quiet
<1>4. CASE CleanBegin
  BY <1>4 DEF CleanBegin, Quiet
<1> QED
  BY <1>1, <1>2, <1>3, <1>4
     DEF Next, Step, Environment, vars, AllocL2, RefBlockAlloc, RefBlockRefused, SetRef,
         AllocData, NoSpace, SkipZero, WriteData, WriteDone, CleanStep, CleanDone, Open,
         Close, Torn, Fail, Crash, Unallocated, Placed, Writing

LEMMA NextCleaning ==
    ASSUME TypeOK, Cleaning, [Next]_vars
    PROVE  Cleaning'
<1> USE DEF image
<1>0. /\ \A i \in L1Index : L1Cluster + (i \div L2Size) \in Nat
      /\ \A g \in Guest : TableAt(TableOf(g)) \in Nat
      /\ \A c \in 0..DiskClusters : c \in Nat
  BY IndexTypes, ConstantTypes, DivMod DEF L1Index, Guest
<1>1. CASE CleanBegin
  <2>1. \A c \in Nat : ~(RefBlock0 <= c /\ c < wipe')
    BY <1>1, ConstantTypes DEF CleanBegin
  <2>2. /\ \A i \in L1Index : ~Behind(L1Cluster + (i \div L2Size))'
        /\ \A g \in Guest : ~Behind(TableAt(TableOf(g)))'
        /\ \A c \in 0..DiskClusters : ~Behind(c)'
    BY <1>0, <2>1 DEF Behind
  <2> QED
    BY <1>1, <2>2 DEF CleanBegin, Cleaning
<1>2. CASE CleanStep
  <2>1. wipe \in Nat /\ CleanChunk \in Nat /\ wipe' = wipe + CleanChunk
    BY <1>2, EnvironmentAssumption DEF CleanStep, TypeOK
  <2>2. ASSUME NEW c \in Nat, Behind(c)'
        PROVE  Behind(c) \/ c \in Wiped
    BY <2>1, <2>2, ConstantTypes DEF Behind, Wiped
  <2>3. ASSUME NEW i \in L1Index, Behind(L1Cluster + (i \div L2Size))'
        PROVE  l1'[i] = 0
    <3>1. PICK c \in Nat : c = L1Cluster + (i \div L2Size)
      BY <1>0
    <3>2. Behind(c) \/ c \in Wiped
      BY <2>2, <2>3, <3>1 DEF Behind
    <3>3. Behind(c) => l1[i] = 0
      BY <1>2, <3>1 DEF CleanStep, Cleaning
    <3> QED
      BY <1>2, <3>1, <3>2, <3>3 DEF CleanStep
  <2>4. ASSUME NEW g \in Guest, Behind(TableAt(TableOf(g)))'
        PROVE  l2'[g] = 0
    <3>1. PICK c \in Nat : c = TableAt(TableOf(g))
      BY <1>0
    <3>2. Behind(c) \/ c \in Wiped
      BY <2>2, <2>4, <3>1 DEF Behind
    <3>3. Behind(c) => l2[g] = 0
      BY <1>2, <3>1 DEF CleanStep, Cleaning
    <3> QED
      BY <1>2, <3>1, <3>2, <3>3 DEF CleanStep
  <2>5. ASSUME NEW c \in 0..DiskClusters, Behind(c)', NEW i \in InCluster
        PROVE  data'[c][i] = Zero
    <3>1. Behind(c) \/ c \in Wiped
      BY <1>0, <2>2, <2>5
    <3>2. Behind(c) => data[c][i] = Zero
      BY <1>2 DEF CleanStep, Cleaning
    <3> QED
      BY <1>2, <3>1, <3>2 DEF CleanStep
  <2>6. "clean" \in Allowed
    BY <1>2 DEF CleanStep, Cleaning
  <2> QED
    BY <2>3, <2>4, <2>5, <2>6 DEF Cleaning
<1>3. CASE UNCHANGED <<l1, l2, data, wipe, call>>
  BY <1>3 DEF Cleaning, Behind
<1>4. CASE call' # "clean"
  BY <1>4 DEF Cleaning
<1> QED
  BY <1>1, <1>2, <1>3, <1>4
     DEF Next, Step, Environment, vars, AllocL2, RefBlockAlloc, RefBlockRefused, SetRef,
         AllocData, NoSpace, SkipZero, WriteData, WriteDone, CleanDone, Open,
         Close, Begin, Torn, Fail, Crash, Answer, Unallocated, Placed, Writing

\* A file that has grown has what it had.
LEMMA InFileGrown ==
    ASSUME TypeOK, TypeOK', InFile, size <= size',
           \A g \in Guest : l2'[g] \in {0, l2[g]},
           \A c \in 0..DiskClusters : \A i \in InCluster : data'[c][i] \in {data[c][i], Zero}
    PROVE  InFile'
<1>1. size \in Nat /\ size' \in Nat /\ L1Cluster * L2Size + L1Size \in Nat
  <2>1. L1Cluster * L2Size + L1Size \in Nat
    BY ConstantTypes
  <2> QED
    BY <2>1 DEF TypeOK
<1>2. \A g \in Guest : TableAt(TableOf(g)) * L2Size + (g % L2Size) \in Nat
  <2> SUFFICES ASSUME NEW g \in Guest
               PROVE  TableAt(TableOf(g)) * L2Size + (g % L2Size) \in Nat
    OBVIOUS
  <2>1. g \in Nat /\ g % L2Size \in Nat
    BY ConstantTypes, DivMod DEF Guest
  <2>2. PICK c \in Nat : c = TableAt(TableOf(g))
    BY <2>1, IndexTypes
  <2>3. c * L2Size \in Nat
    BY ConstantTypes
  <2> QED
    BY <2>1, <2>2, <2>3
<1>3. \A c \in 0..DiskClusters : c * L2Size \in Nat
  BY ConstantTypes
<1>4. L1Cluster * L2Size + L1Size <= size'
  BY <1>1 DEF InFile
<1>5. ASSUME NEW g \in Guest, l2'[g] # 0
      PROVE  TableAt(TableOf(g)) * L2Size + (g % L2Size) < size'
  <2>1. TableAt(TableOf(g)) * L2Size + (g % L2Size) < size
    BY <1>5 DEF InFile
  <2> HIDE DEF InFile
  <2> QED
    BY <1>1, <1>2, <2>1
<1>6. ASSUME NEW c \in 0..DiskClusters, size' <= c * L2Size, NEW i \in InCluster
      PROVE  data'[c][i] = Zero
  <2>1. size <= c * L2Size
    BY <1>1, <1>3, <1>6
  <2> QED
    BY <2>1 DEF InFile
<1> QED
  BY <1>4, <1>5, <1>6 DEF InFile

LEMMA NextInFile ==
    ASSUME TypeOK, TypeOK', Placement, InFile, [Next]_vars
    PROVE  InFile'
<1> USE DEF image
<1>0. size \in Nat /\ size' \in Nat
  BY DEF TypeOK
<1>1. CASE AllocData
  <2>1. PICK d : l2' = [l2 EXCEPT ![GuestAt] = d]
    BY <1>1 DEF AllocData
  <2>2. /\ GuestAt \in Guest /\ data' = data
        /\ l1[TableOf(GuestAt)] # 0 /\ size' = Longer(EntryAt(GuestAt) + 1)
    BY <1>1, ChunkTypes DEF AllocData, Unallocated
  <2>3. /\ EntryAt(GuestAt) \in Nat
        /\ EntryAt(GuestAt) = TableAt(TableOf(GuestAt)) * L2Size + (GuestAt % L2Size)
    BY <2>2, PlaceTypes DEF Placement, EntryAt
  <2>4. EntryAt(GuestAt) + 1 \in Nat
    BY <2>3
  <2>5. size <= size' /\ EntryAt(GuestAt) < size'
    BY <1>0, <2>2, <2>3, <2>4, LongerTypes
  <2>6. \A g \in Guest : g # GuestAt => l2'[g] = l2[g]
    BY <2>1 DEF TypeOK
  <2>7. L1Cluster * L2Size + L1Size <= size'
    <3>1. L1Cluster * L2Size + L1Size \in Nat
      BY ConstantTypes
    <3> QED
      BY <1>0, <2>5, <3>1 DEF InFile
  <2>8. ASSUME NEW g \in Guest, l2'[g] # 0
        PROVE  TableAt(TableOf(g)) * L2Size + (g % L2Size) < size'
    <3>1. CASE g = GuestAt
      BY <2>3, <2>5, <3>1
    <3>2. CASE g # GuestAt
      <4>1. TableAt(TableOf(g)) * L2Size + (g % L2Size) < size
        BY <2>6, <2>8, <3>2 DEF InFile
      <4>2. PICK c \in Nat, r \in Nat : c = TableAt(TableOf(g)) /\ r = g % L2Size
        <5>1. g \in Nat
          BY DEF Guest
        <5> QED
          BY <5>1, IndexTypes, ConstantTypes, DivMod
      <4>3. c * L2Size \in Nat
        BY ConstantTypes
      <4> QED
        BY <1>0, <2>5, <4>1, <4>2, <4>3
    <3> QED
      BY <3>1, <3>2
  <2>9. ASSUME NEW c \in 0..DiskClusters, size' <= c * L2Size, NEW i \in InCluster
        PROVE  data'[c][i] = Zero
    <3>1. c * L2Size \in Nat
      BY ConstantTypes
    <3>2. size <= c * L2Size
      BY <1>0, <2>5, <2>9, <3>1
    <3> QED
      BY <2>2, <3>2 DEF InFile
  <2> QED
    BY <2>7, <2>8, <2>9 DEF InFile
<1>2. CASE WriteData \/ Torn
  <2>1. PICK d \in 0..DiskClusters : d = l2[GuestAt]
    BY <1>2, ChunkTypes DEF WriteData, Torn, Placed, TypeOK
  <2>2. (d + 1) * L2Size \in Nat /\ d * L2Size \in Nat /\ d * L2Size < (d + 1) * L2Size
    BY ConstantTypes
  <2>3. size' = Longer((d + 1) * L2Size) /\ l2' = l2
    BY <1>2, <2>1 DEF WriteData, Torn
  <2>4. size <= size' /\ d * L2Size < size'
    BY <1>0, <2>2, <2>3, LongerTypes
  <2>5. \A c \in 0..DiskClusters : c # d => data'[c] = data[c]
    BY <1>2, <2>1 DEF WriteData, Torn, TypeOK
  <2>6. L1Cluster * L2Size + L1Size <= size'
    <3>1. L1Cluster * L2Size + L1Size \in Nat
      BY ConstantTypes
    <3> QED
      BY <1>0, <2>4, <3>1 DEF InFile
  <2>7. ASSUME NEW g \in Guest, l2'[g] # 0
        PROVE  TableAt(TableOf(g)) * L2Size + (g % L2Size) < size'
    <3>1. TableAt(TableOf(g)) * L2Size + (g % L2Size) < size
      BY <2>3, <2>7 DEF InFile
    <3>2. PICK c \in Nat, r \in Nat : c = TableAt(TableOf(g)) /\ r = g % L2Size
      <4>1. g \in Nat
        BY DEF Guest
      <4> QED
        BY <4>1, IndexTypes, ConstantTypes, DivMod
    <3>3. c * L2Size \in Nat
      BY ConstantTypes
    <3> QED
      BY <1>0, <2>4, <3>1, <3>2, <3>3
  <2>8. ASSUME NEW c \in 0..DiskClusters, size' <= c * L2Size, NEW i \in InCluster
        PROVE  data'[c][i] = Zero
    <3>1. c * L2Size \in Nat
      BY ConstantTypes
    <3>2. c # d /\ size <= c * L2Size
      BY <1>0, <2>2, <2>4, <2>8, <3>1
    <3> QED
      BY <2>5, <3>2 DEF InFile
  <2> QED
    BY <2>6, <2>7, <2>8 DEF InFile
<1>3. CASE SetRef
  <2>1. PICK b \in Nat : b = blocks[RefIndex(Head(todo))]
    BY <1>3 DEF SetRef, TypeOK
  <2>2. (b + 1) * L2Size \in Nat
    BY ConstantTypes
  <2>3. size <= size'
    BY <1>0, <1>3, <2>1, <2>2, LongerTypes DEF SetRef, Counts
  <2>4. l2' = l2 /\ data' = data
    BY <1>3 DEF SetRef
  <2> QED
    BY <2>3, <2>4, InFileGrown
<1>4. CASE CleanStep
  <2>1. size <= size'
    BY <1>0, <1>4 DEF CleanStep
  <2>2. \A g \in Guest : l2'[g] \in {0, l2[g]}
    BY <1>4 DEF CleanStep
  <2>3. \A c \in 0..DiskClusters : \A i \in InCluster : data'[c][i] \in {data[c][i], Zero}
    BY <1>4 DEF CleanStep
  <2> QED
    BY <2>1, <2>2, <2>3, InFileGrown
<1>5. CASE UNCHANGED <<l2, data, size>>
  BY <1>5 DEF InFile
<1> QED
  BY <1>1, <1>2, <1>3, <1>4, <1>5
     DEF Next, Step, Environment, vars, AllocL2, RefBlockAlloc, RefBlockRefused,
         NoSpace, SkipZero, WriteDone, CleanDone, Open, Close, Begin, CleanBegin,
         Fail, Crash

LEMMA NextBasics == Basics /\ [Next]_vars => Basics'
BY NextTypeOK, NextPlacement, NextQuiet, NextCleaning, NextInFile DEF Basics

\* A cluster that begins before the end of the file is one that Clean has gone
\* past when it gets there.
LEMMA BeforeEnd ==
    ASSUME TypeOK, wipe * L2Size >= size, NEW c \in Nat, NEW r \in Nat,
           c * L2Size + r < size
    PROVE  c < wipe
<1>1. wipe \in Nat /\ size \in Nat /\ c * L2Size \in Nat /\ wipe * L2Size \in Nat
  BY ConstantTypes DEF TypeOK
<1>2. SUFFICES ASSUME wipe <= c PROVE FALSE
  BY <1>1
<1>3. wipe * L2Size <= c * L2Size
  BY <1>1, <1>2, ConstantTypes, TimesMonotone
<1> QED
  BY <1>1, <1>3

\* Clean that reaches the end of the file has reached every table and every
\* cluster of data.
LEMMA CleanEnds ==
    ASSUME Basics, CleanDone
    PROVE  /\ \A i \in L1Index : l1[i] = 0
           /\ \A g \in Guest : l2[g] = 0
           /\ \A c \in 0..DiskClusters :
                 RefBlock0 <= c => \A i \in InCluster : data[c][i] = Zero
<1>1. /\ wipe \in Nat /\ size \in Nat /\ wipe * L2Size >= size /\ RefBlock0 < L1Cluster
      /\ TypeOK /\ call = "clean" /\ Cleaning /\ InFile
  BY LayoutAssumption DEF Basics, TypeOK, CleanDone
<1>2. ASSUME NEW i \in L1Index
      PROVE  l1[i] = 0
  <2>1. /\ i \in Nat /\ i < L1Size /\ i \div L2Size \in Nat /\ i % L2Size \in Nat
        /\ i = L2Size * (i \div L2Size) + (i % L2Size)
    BY ConstantTypes, DivMod DEF L1Index
  <2>2. PICK q \in Nat, r \in Nat : q = i \div L2Size /\ r = i % L2Size
    BY <2>1
  <2>3. i = q * L2Size + r
    BY <2>1, <2>2, ConstantTypes
  <2>4. /\ L1Cluster * L2Size \in Nat /\ q * L2Size \in Nat
        /\ (L1Cluster + q) * L2Size = L1Cluster * L2Size + q * L2Size
    BY ConstantTypes
  <2>5. (L1Cluster + q) * L2Size + r < size
    BY <1>1, <2>1, <2>3, <2>4, ConstantTypes DEF InFile
  <2>6. PICK c \in Nat : c = L1Cluster + q
    BY ConstantTypes
  <2>7. c < wipe
    BY <1>1, <2>5, <2>6, BeforeEnd
  <2>8. RefBlock0 <= c
    BY <1>1, <2>6, ConstantTypes
  <2> QED
    BY <1>1, <2>2, <2>6, <2>7, <2>8 DEF Cleaning, Behind
<1>3. ASSUME NEW g \in Guest, l2[g] # 0
      PROVE  FALSE
  <2>1. g \in Nat /\ TableOf(g) \in Nat
    BY IndexTypes DEF Guest
  <2>2. PICK c \in Nat, r \in Nat : c = TableAt(TableOf(g)) /\ r = g % L2Size
    BY <2>1, IndexTypes, ConstantTypes, DivMod
  <2>3. c < wipe
    BY <1>1, <1>3, <2>2, BeforeEnd DEF InFile
  <2>4. RefBlock0 <= c
    BY <1>1, <2>1, <2>2, ConstantTypes DEF TableAt
  <2> QED
    BY <1>1, <1>3, <2>2, <2>3, <2>4 DEF Cleaning, Behind
<1>4. ASSUME NEW c \in 0..DiskClusters, RefBlock0 <= c
      PROVE  \A i \in InCluster : data[c][i] = Zero
  <2>1. c \in Nat /\ c * L2Size \in Nat
    BY ConstantTypes
  <2>2. CASE c < wipe
    BY <1>1, <1>4, <2>2 DEF Cleaning, Behind
  <2>3. CASE ~(c < wipe)
    <3>1. ~(c * L2Size < size)
      <4>1. c * L2Size + 0 = c * L2Size
        BY <2>1
      <4> QED
        BY <1>1, <2>1, <2>3, <4>1, BeforeEnd
    <3> QED
      BY <1>1, <2>1, <3>1 DEF InFile
  <2> QED
    BY <2>2, <2>3
<1> QED
  BY <1>2, <1>3, <1>4

-----------------------------------------------------------------------------
(* What the theorems assume of the image and of how it is used.            *)

\* The image is written through one handle at a time, and Clean, where it is
\* called, is never cut short.
OneWriter ==
    /\ \A h, k \in Handles : h = k
    /\ "clean" \in Allowed => "fault" \notin Allowed /\ "crash" \notin Allowed

\* The L1 table fits in a cluster, which is what the place of the first data
\* counts on.
OneL1Cluster == L1Size <= L2Size

\* The one handle is opened once.
OneSession ==
    /\ OneWriter
    /\ "reopen" \notin Allowed /\ "crash" \notin Allowed
    /\ OneL1Cluster

\* The first refcount block counts every table and every cluster of data.
OneBlock ==
    /\ L1Cluster + L1Size + L1Clusters <= RefEntries
    /\ DiskClusters < RefEntries

\* Where MetaDisjoint holds, by OneSessionMetaDisjoint and OneBlockMetaDisjoint:
\* no cluster is data and a table at once, so that no write to the one reaches
\* the other, which Qcow2Write leaves out.  Elsewhere nothing is claimed.
TablesApart == OneSession \/ (OneL1Cluster /\ OneBlock)

-----------------------------------------------------------------------------
(* One handle: no two guest clusters share a cluster.                      *)

\* The inductive invariant.  An entry of an L2 table is reached through the
\* L1 table, so that the search of Write sees it; a handle that knows a last
\* cluster has every entry at or below it; and the entries differ.
DataInv ==
    /\ Basics
    /\ call # "clean" => \A g \in Guest : l2[g] # 0 => l1[TableOf(g)] # 0
    /\ \A h \in Handles : last[h] # 0 => \A g \in Guest : l2[g] <= last[h]
    /\ \A g, k \in Guest : g # k /\ l2[g] # 0 => l2[g] # l2[k]

\* The next cluster of data is beyond every cluster of data there is, whether
\* the handle remembers its last one or searches the tables for it.
LEMMA NextDataIsNew ==
    ASSUME DataInv, call = "write", NEW h \in Handles, NEW c \in NextData(h)
    PROVE  c \in Nat /\ c # 0 /\ \A g \in Guest : l2[g] < c
<1>1. TypeOK /\ \A g \in Guest : l2[g] \in Nat /\ HostOf(g) = l2[g]
  BY ConstantTypes DEF DataInv, Basics, TypeOK, HostOf
<1>2. c \in Nat /\ c # 0
  BY <1>1, NextDataTypes
<1>3. CASE last[h] # 0
  BY <1>1, <1>2, <1>3 DEF DataInv, NextData, TypeOK
<1>4. CASE last[h] = 0
  <2>1. PICK m \in Largest : c = IF m = 0 THEN FirstData ELSE m + 1
    BY <1>4 DEF NextData
  <2>2. m \in Nat /\ \A g \in Guest : l2[g] <= m
    BY <1>1, <2>1, LargestIs
  <2> QED
    BY <1>1, <1>2, <2>1, <2>2, ConstantTypes
<1> QED
  BY <1>2, <1>3, <1>4

LEMMA InitDataInv == Init => DataInv
BY InitBasics DEF Init, DataInv

\* Steps that leave the tables and the last clusters alone, or close handles.
LEMMA TablesKept ==
    ASSUME DataInv, [Next]_vars, UNCHANGED <<l1, l2>>,
           \A h \in Handles : last'[h] \in {0, last[h]},
           call = "clean" => call' = "clean"
    PROVE  DataInv'
BY NextBasics DEF DataInv

LEMMA NextDataInv ==
    ASSUME OneWriter, DataInv, [Next]_vars
    PROVE  DataInv'
<1> USE DEF image, OneWriter
<1>0. TypeOK /\ TypeOK' /\ Basics /\ Basics'
  BY NextBasics DEF DataInv, Basics
<1>1. CASE AllocL2
  <2>1. TableAt(TableOf(GuestAt)) \in Nat /\ TableAt(TableOf(GuestAt)) # 0
    <3>1. TableOf(GuestAt) \in Nat
      BY <1>0, <1>1, ChunkTypes, IndexTypes, ConstantTypes DEF AllocL2, Guest
    <3> QED
      BY <3>1, ConstantTypes DEF TableAt
  <2>2. \A g \in Guest : l1[TableOf(g)] # 0 => l1'[TableOf(g)] # 0
    BY <1>0, <1>1, <2>1 DEF AllocL2, TypeOK
  <2> QED
    BY <1>0, <1>1, <2>2 DEF AllocL2, DataInv
<1>2. CASE RefBlockAlloc
  <2>1. last[who] \in Nat /\ last[who] # 0 /\ who \in Handles
    BY <1>0, <1>2, ConstantTypes DEF RefBlockAlloc, TypeOK
  <2>2. \A g \in Guest : l2[g] \in Nat /\ l2[g] <= last[who]
    BY <1>0, <2>1, ConstantTypes DEF DataInv, TypeOK
  <2>3. \A h \in Handles : last'[h] = last[who] + 1
    BY <1>0, <1>2, <2>1 DEF RefBlockAlloc, TypeOK
  <2> QED
    BY <1>0, <1>2, <2>1, <2>2, <2>3 DEF RefBlockAlloc, DataInv
<1>3. CASE AllocData
  <2>1. PICK c \in NextData(who) :
           /\ l2' = [l2 EXCEPT ![GuestAt] = c]
           /\ last' = [last EXCEPT ![who] = c]
    BY <1>3 DEF AllocData
  <2>2. who \in Handles /\ GuestAt \in Guest
    BY <1>0, <1>3, ChunkTypes DEF AllocData, Unallocated, TypeOK
  <2>3. c \in Nat /\ c # 0 /\ \A g \in Guest : l2[g] < c /\ l2[g] \in Nat
    BY <1>0, <1>3, <2>2, NextDataIsNew, ConstantTypes
       DEF TypeOK, AllocData, Unallocated, Writing
  <2>4. \A g \in Guest : l2'[g] = IF g = GuestAt THEN c ELSE l2[g]
    BY <1>0, <2>1 DEF TypeOK
  <2>5. \A h \in Handles : last'[h] = c
    BY <1>0, <2>1, <2>2 DEF TypeOK
  <2>6. l1' = l1 /\ l1[TableOf(GuestAt)] # 0 /\ call' = call /\ call = "write"
    BY <1>3 DEF AllocData, Unallocated, Writing
  <2>7. \A g \in Guest : l2'[g] # 0 => l1'[TableOf(g)] # 0
    BY <2>4, <2>6 DEF DataInv
  <2>8. \A h \in Handles : last'[h] # 0 => \A g \in Guest : l2'[g] <= last'[h]
    BY <2>3, <2>4, <2>5
  <2>9. \A g, k \in Guest : g # k /\ l2'[g] # 0 => l2'[g] # l2'[k]
    <3> SUFFICES ASSUME NEW g \in Guest, NEW k \in Guest, g # k, l2'[g] # 0
                 PROVE  l2'[g] # l2'[k]
      OBVIOUS
    <3>1. CASE g = GuestAt
      BY <2>3, <2>4, <3>1
    <3>2. CASE k = GuestAt
      BY <2>3, <2>4, <3>2
    <3>3. CASE g # GuestAt /\ k # GuestAt
      BY <2>4, <3>3 DEF DataInv
    <3> QED
      BY <3>1, <3>2, <3>3
  <2> QED
    BY <1>0, <2>6, <2>7, <2>8, <2>9 DEF DataInv
<1>4. CASE RefBlockRefused \/ SetRef \/ NoSpace \/ SkipZero \/ WriteData \/ WriteDone
  BY <1>4, TablesKept
     DEF RefBlockRefused, SetRef, NoSpace, Unallocated, Writing, SkipZero,
         WriteData, Placed, WriteDone, Answer
<1>5. CASE CleanStep
  <2>1. \A g \in Guest : l2'[g] \in {0, l2[g]} /\ l2[g] \in Nat
    BY <1>0, <1>5, ConstantTypes DEF CleanStep, TypeOK
  <2>2. last' = last /\ call' = "clean"
    BY <1>5 DEF CleanStep
  <2>3. \A h \in Handles : last[h] \in Nat
    BY <1>0 DEF TypeOK
  <2>4. \A h \in Handles : last'[h] # 0 => \A g \in Guest : l2'[g] <= last'[h]
    BY <2>1, <2>2, <2>3 DEF DataInv
  <2>5. \A g, k \in Guest : g # k /\ l2'[g] # 0 => l2'[g] # l2'[k]
    BY <2>1 DEF DataInv
  <2> QED
    BY <1>0, <2>2, <2>4, <2>5 DEF DataInv
<1>11. CASE CleanDone
  <2>1. \A g \in Guest : l2'[g] = 0
    BY <1>0, <1>11, CleanEnds DEF CleanDone
  <2>2. \A h \in Handles : last'[h] \in Nat
    BY <1>0 DEF TypeOK
  <2> QED
    BY <1>0, <2>1, <2>2 DEF DataInv
<1>12. CASE CleanBegin
  BY <1>12, TablesKept DEF CleanBegin
<1>6. ASSUME NEW h \in Handles, Open(h) \/ Close(h)
      PROVE  DataInv'
  <2>1. \A k \in Handles : last'[k] \in {0, last[k]}
    BY <1>0, <1>6 DEF Open, Close, TypeOK
  <2> QED
    BY <1>6, <2>1, TablesKept DEF Open, Close
<1>7. ASSUME NEW h \in Handles, NEW s \in Starts, NEW n \in Lengths,
             NEW values \in [1..n -> Value], Begin(h, s, values)
      PROVE  DataInv'
  <2>1. UNCHANGED <<l1, l2, last>> /\ call # "clean"
    BY <1>7 DEF Begin
  <2> QED
    BY <2>1, TablesKept
<1>8. CASE Torn \/ Fail
  <2>1. call # "clean"
    BY <1>0, <1>8 DEF Torn, Fail, Basics, Cleaning
  <2> QED
    BY <1>8, <2>1, TablesKept DEF Torn, Fail, Answer
<1>9. CASE Crash
  <2>1. call # "clean"
    BY <1>0, <1>9 DEF Crash, Basics, Cleaning
  <2> QED
    BY <1>9, <2>1, TablesKept DEF Crash, Answer
<1>10. CASE UNCHANGED vars
  BY <1>10, TablesKept DEF vars
<1> QED
  BY <1>1, <1>2, <1>3, <1>4, <1>5, <1>6, <1>7, <1>8, <1>9, <1>10, <1>11, <1>12
     DEF Next, Step, Environment

\* Written through one handle at a time, no image whose tables keep apart from
\* its data ever gets two guest clusters in one cluster: whether the handle
\* stays open and setRefcount moves its last cluster, or one block is enough and
\* the image is reopened, a pwrite fails, or the process crashes, also where the
\* search then reads an entry behind the end of the file; or, where nothing
\* fails or crashes, however often it is cleaned, also under the open handle.
THEOREM OneHandleDataDisjoint == OneWriter /\ TablesApart /\ Spec => []DataDisjoint
<1> DEFINE Inv == OneWriter /\ DataInv
<1>1. OneWriter /\ TablesApart /\ Init => Inv
  BY InitDataInv DEF Init
<1>2. Inv /\ [Next]_vars => Inv'
  BY NextDataInv DEF OneWriter
<1>3. Inv => DataDisjoint
  BY DEF DataInv, DataDisjoint, Mapped, HostOf
<1> QED
  BY <1>1, <1>2, <1>3, PTL DEF Spec

-----------------------------------------------------------------------------
(* One handle that stays open: data and tables keep out of each other.     *)

LEMMA Layout ==
    ASSUME OneL1Cluster
    PROVE  /\ L1Clusters = 1
           /\ FirstData \in Nat /\ FirstData > L1Cluster
           /\ \A i \in L1Index : TableAt(i) > L1Cluster /\ TableAt(i) < FirstData
<1> DEFINE n == L1Size + L2Size - 1
<1>1. n \in Nat /\ n >= L2Size /\ n < 2 * L2Size
  BY SizeAssumption DEF OneL1Cluster
<1>2. n \div L2Size \in Nat /\ n \div L2Size < 2
  BY <1>1, ConstantTypes, DivLess
<1>3. n \div L2Size # 0
  <2>1. n % L2Size < L2Size /\ n = L2Size * (n \div L2Size) + (n % L2Size)
        /\ n % L2Size \in Nat
    BY <1>1, ConstantTypes, DivMod
  <2>2. SUFFICES ASSUME n \div L2Size = 0 PROVE FALSE
    OBVIOUS
  <2>3. L2Size * (n \div L2Size) = 0
    BY <2>2, ConstantTypes
  <2> QED
    BY <1>1, <2>1, <2>3, ConstantTypes
<1>4. L1Clusters = 1
  BY <1>2, <1>3 DEF L1Clusters
<1> QED
  BY <1>4, ConstantTypes DEF FirstData, TableAt, L1Index

\* The inductive invariant.  Nothing but the first refcount block lies below
\* the first cluster of data, every other block and every cluster of data is
\* at or below the last cluster of the handle, and they all differ.
MetaInv ==
    /\ call = "write" => who \in open
    /\ \A h \in Handles :
          /\ h \notin open => last[h] = 0
          /\ \A g \in Guest : l2[g] <= last[h]
          /\ \A i \in DOMAIN blocks : i # 0 => blocks[i] <= last[h]
    /\ \A i \in DOMAIN blocks : i # 0 => blocks[i] >= FirstData
    /\ \A i, j \in DOMAIN blocks : i # j => blocks[i] # blocks[j]
    /\ \A i \in DOMAIN blocks : \A g \in Guest : l2[g] # blocks[i]

\* Where the handle places the next cluster of data.
LEMMA NextDataAbove ==
    ASSUME DataInv, MetaInv, OneSession, NEW h \in Handles, NEW c \in NextData(h)
    PROVE  c > last[h] /\ c >= FirstData
<1>1. TypeOK /\ last[h] \in Nat /\ FirstData \in Nat /\ Placement
  BY ConstantTypes DEF DataInv, Basics, TypeOK
<1>2. CASE last[h] # 0
  BY <1>1, <1>2 DEF NextData, Placement
<1>3. CASE last[h] = 0
  <2>1. \A g \in Guest : HostOf(g) = 0
    <3> SUFFICES ASSUME NEW g \in Guest PROVE HostOf(g) = 0
      OBVIOUS
    <3>1. l2[g] \in Nat /\ l2[g] <= last[h]
      BY <1>1, ConstantTypes DEF TypeOK, MetaInv
    <3> QED
      BY <1>3, <3>1 DEF HostOf
  <2>2. \A m \in Largest : m = 0
    BY <1>1, <2>1, LargestIs
  <2>3. c = FirstData
    BY <1>3, <2>2 DEF NextData
  <2> QED
    BY <1>1, <1>3, <2>3, ConstantTypes
<1> QED
  BY <1>2, <1>3

LEMMA InitMetaInv == ASSUME OneSession, Init PROVE MetaInv
<1>1. DOMAIN blocks = {0} /\ blocks[0] = RefBlock0 /\ RefBlock0 # 0
  BY LayoutAssumption DEF Init
<1>2. \A g \in Guest : l2[g] = 0
  BY DEF Init
<1>3. \A h \in Handles : last[h] = 0
  BY DEF Init
<1>4. call = "idle"
  BY DEF Init
<1> QED
  BY <1>1, <1>2, <1>3, <1>4 DEF MetaInv

\* Steps that change neither the tables nor what the handles know.
LEMMA MetaKept ==
    ASSUME MetaInv, UNCHANGED <<l1, l2, blocks, open, last, who>>,
           call' = "write" => call = "write"
    PROVE  MetaInv'
BY DEF MetaInv

LEMMA NextMetaInv ==
    ASSUME OneSession, DataInv, MetaInv, [Next]_vars
    PROVE  MetaInv'
<1> USE DEF image
<1>0. /\ TypeOK /\ TypeOK' /\ OneWriter /\ Placement /\ Placement'
      /\ FirstData \in Nat /\ FirstData # 0 /\ RefBlock0 < FirstData
  BY NextBasics, Layout, ConstantTypes, LayoutAssumption
     DEF DataInv, OneSession, Basics
<1>1. CASE AllocL2
  BY <1>1 DEF AllocL2, MetaInv
<1>2. CASE RefBlockAlloc
  <2> DEFINE b == last[who] + 1
             new == RefIndex(Head(todo))
  <2>1. who \in Handles /\ last[who] \in Nat /\ last[who] # 0
    BY <1>0, <1>2, ConstantTypes DEF RefBlockAlloc, TypeOK
  <2>2. b \in Nat /\ b > FirstData /\ b > last[who]
    BY <1>0, <2>1 DEF Placement
  <2>3. /\ new \notin DOMAIN blocks
        /\ DOMAIN blocks' = DOMAIN blocks \cup {new}
        /\ \A i \in DOMAIN blocks' :
              blocks'[i] = IF i \in DOMAIN blocks THEN blocks[i] ELSE b
        /\ UNCHANGED <<l1, l2, open, call, who>>
        /\ call = "write"
    BY <1>2 DEF RefBlockAlloc
  <2>4. \A h \in Handles : h = who /\ last'[h] = b
    BY <1>0, <1>2, <2>1 DEF RefBlockAlloc, TypeOK, OneWriter
  <2>5. \A g \in Guest : l2[g] \in Nat /\ l2[g] < b
    <3> SUFFICES ASSUME NEW g \in Guest PROVE l2[g] \in Nat /\ l2[g] < b
      OBVIOUS
    <3>1. l2[g] \in Nat /\ l2[g] <= last[who]
      BY <1>0, <2>1, ConstantTypes DEF TypeOK, MetaInv
    <3> QED
      BY <2>1, <3>1
  <2>6. \A i \in DOMAIN blocks : blocks[i] \in Nat /\ blocks[i] < b
    <3> SUFFICES ASSUME NEW i \in DOMAIN blocks
                 PROVE  blocks[i] \in Nat /\ blocks[i] < b
      OBVIOUS
    <3>1. blocks[i] \in Nat
      BY <1>0 DEF TypeOK
    <3>2. CASE i = 0
      BY <1>0, <2>2, <3>1, <3>2, ConstantTypes DEF Placement
    <3>3. CASE i # 0
      BY <2>1, <3>1, <3>3 DEF MetaInv
    <3> QED
      BY <3>2, <3>3
  <2> HIDE DEF b, new
  <2>7. 0 \in DOMAIN blocks /\ 0 # new /\ blocks'[0] = RefBlock0
    BY <1>0, <2>3 DEF Placement
  <2>8. who \in open
    BY <2>3 DEF MetaInv
  <2>9. \A i \in DOMAIN blocks' : i # 0 => blocks'[i] <= b /\ blocks'[i] >= FirstData
    BY <1>0, <2>2, <2>3, <2>6 DEF MetaInv
  <2>10. \A i, j \in DOMAIN blocks' : i # j => blocks'[i] # blocks'[j]
    <3> SUFFICES ASSUME NEW i \in DOMAIN blocks', NEW j \in DOMAIN blocks', i # j
                 PROVE  blocks'[i] # blocks'[j]
      OBVIOUS
    <3>1. CASE i \in DOMAIN blocks /\ j \in DOMAIN blocks
      BY <2>3, <3>1 DEF MetaInv
    <3>2. CASE i = new
      BY <2>2, <2>3, <2>6, <3>2
    <3>3. CASE j = new
      BY <2>2, <2>3, <2>6, <3>3
    <3> QED
      BY <2>3, <3>1, <3>2, <3>3
  <2>11. \A i \in DOMAIN blocks' : \A g \in Guest : l2'[g] # blocks'[i]
    BY <2>2, <2>3, <2>5 DEF MetaInv
  <2>12. \A h \in Handles :
            /\ h \in open'
            /\ \A g \in Guest : l2'[g] <= last'[h]
            /\ \A i \in DOMAIN blocks' : i # 0 => blocks'[i] <= last'[h]
    BY <1>0, <2>2, <2>3, <2>4, <2>5, <2>8, <2>9
  <2> QED
    BY <2>3, <2>7, <2>8, <2>9, <2>10, <2>11, <2>12 DEF MetaInv
<1>3. CASE AllocData
  <2>1. PICK c \in NextData(who) :
           /\ l2' = [l2 EXCEPT ![GuestAt] = c]
           /\ last' = [last EXCEPT ![who] = c]
    BY <1>3 DEF AllocData
  <2>2. who \in Handles /\ last[who] \in Nat /\ who \in open
    BY <1>0, <1>3 DEF AllocData, Unallocated, Writing, TypeOK, MetaInv
  <2>3. c \in Nat /\ c > last[who] /\ c >= FirstData
    BY <1>0, <2>1, <2>2, NextDataTypes, NextDataAbove
  <2>4. \A g \in Guest : l2'[g] = IF g = GuestAt THEN c ELSE l2[g]
    BY <1>0, <2>1 DEF TypeOK
  <2>5. \A h \in Handles : h = who /\ last'[h] = c
    BY <1>0, <2>1, <2>2 DEF TypeOK, OneWriter
  <2>6. UNCHANGED <<l1, blocks, open, call, who>>
    BY <1>3 DEF AllocData
  <2>7. \A i \in DOMAIN blocks : blocks[i] \in Nat /\ blocks[i] < c
    <3> SUFFICES ASSUME NEW i \in DOMAIN blocks
                 PROVE  blocks[i] \in Nat /\ blocks[i] < c
      OBVIOUS
    <3>1. blocks[i] \in Nat
      BY <1>0 DEF TypeOK
    <3>2. CASE i = 0
      BY <1>0, <2>3, <3>1, <3>2, ConstantTypes DEF Placement
    <3>3. CASE i # 0
      BY <2>2, <2>3, <3>1, <3>3 DEF MetaInv
    <3> QED
      BY <3>2, <3>3
  <2>8. \A g \in Guest : l2'[g] \in Nat /\ l2'[g] <= c
    <3> SUFFICES ASSUME NEW g \in Guest PROVE l2'[g] \in Nat /\ l2'[g] <= c
      OBVIOUS
    <3>1. l2[g] \in Nat /\ l2[g] <= last[who]
      BY <1>0, <2>2, ConstantTypes DEF TypeOK, MetaInv
    <3> QED
      BY <2>2, <2>3, <2>4, <3>1
  <2>9. \A i \in DOMAIN blocks' : \A g \in Guest : l2'[g] # blocks'[i]
    BY <2>3, <2>4, <2>6, <2>7 DEF MetaInv
  <2>10. \A h \in Handles :
            /\ h \in open'
            /\ \A g \in Guest : l2'[g] <= last'[h]
            /\ \A i \in DOMAIN blocks' : i # 0 => blocks'[i] <= last'[h]
    BY <2>2, <2>3, <2>5, <2>6, <2>7, <2>8
  <2> QED
    BY <2>2, <2>6, <2>9, <2>10 DEF MetaInv
<1>4. CASE RefBlockRefused \/ SetRef \/ NoSpace \/ SkipZero \/ WriteData \/ WriteDone
  BY <1>4, MetaKept
     DEF RefBlockRefused, SetRef, NoSpace, Unallocated, Writing, SkipZero,
         WriteData, Placed, WriteDone, Answer
<1>5. CASE CleanStep
  <2>1. \A g \in Guest : l2'[g] \in {0, l2[g]} /\ l2[g] \in Nat
    BY <1>0, <1>5, ConstantTypes DEF CleanStep, TypeOK
  <2>2. UNCHANGED <<blocks, open, last>> /\ call' = "clean"
    BY <1>5 DEF CleanStep
  <2>3. \A i \in DOMAIN blocks : blocks[i] # 0
    <3>1. \A i \in DOMAIN blocks : i # 0 => blocks[i] >= FirstData
      BY DEF MetaInv
    <3>2. blocks[0] # 0
      BY <1>0, LayoutAssumption DEF Placement
    <3>3. FirstData \in Nat /\ FirstData # 0
      BY <1>0
    <3> QED
      BY <3>1, <3>2, <3>3
  <2>4. \A h \in Handles : \A g \in Guest : l2'[g] <= last'[h]
    <3>1. \A h \in Handles : last[h] \in Nat
      BY <1>0 DEF TypeOK
    <3> QED
      BY <2>1, <2>2, <3>1 DEF MetaInv
  <2>5. \A i \in DOMAIN blocks' : \A g \in Guest : l2'[g] # blocks'[i]
    BY <2>1, <2>2, <2>3 DEF MetaInv
  <2> QED
    BY <2>2, <2>4, <2>5 DEF MetaInv
<1>10. CASE CleanDone \/ CleanBegin
  BY <1>10, MetaKept DEF CleanDone, CleanBegin, Answer
<1>11. CASE Crash
  BY <1>11 DEF Crash, OneSession
<1>6. ASSUME NEW h \in Handles, Open(h) \/ Close(h)
      PROVE  MetaInv'
  <2>1. Open(h)
    BY <1>6 DEF Close, OneSession
  <2>2. last[h] = 0
    BY <2>1 DEF Open, MetaInv
  <2>3. last' = last
    BY <1>0, <2>1, <2>2 DEF Open, TypeOK
  <2> QED
    BY <2>1, <2>3 DEF Open, MetaInv
<1>7. ASSUME NEW h \in Handles, NEW s \in Starts, NEW n \in Lengths,
             NEW values \in [1..n -> Value], Begin(h, s, values)
      PROVE  MetaInv'
  <2>1. UNCHANGED <<l1, l2, blocks, open, last>> /\ who' \in open'
    BY <1>7 DEF Begin
  <2> QED
    BY <2>1 DEF MetaInv
<1>8. CASE Torn \/ Fail
  BY <1>8, MetaKept DEF Torn, Fail, Answer
<1>9. CASE UNCHANGED vars
  BY <1>9, MetaKept DEF vars
<1> QED
  BY <1>1, <1>2, <1>3, <1>4, <1>5, <1>6, <1>7, <1>8, <1>9, <1>10, <1>11
     DEF Next, Step, Environment

LEMMA MetaInvDisjoint ==
    ASSUME OneSession, DataInv, MetaInv
    PROVE  MetaDisjoint
<1>1. TypeOK /\ Placement /\ FirstData \in Nat /\ L1Clusters = 1 /\ OneL1Cluster
  BY Layout DEF DataInv, Basics, OneSession
<1>2. \A x \in L2Tables : x \in Nat /\ x > L1Cluster /\ x < FirstData
  <2> SUFFICES ASSUME NEW i \in L1Index, l1[i] # 0
               PROVE  l1[i] \in Nat /\ l1[i] > L1Cluster /\ l1[i] < FirstData
    BY DEF L2Tables
  <2>1. l1[i] = TableAt(i) /\ l1[i] \in Nat
    BY <1>1 DEF Placement, TypeOK
  <2> QED
    BY <1>1, <2>1, Layout
<1>3. \A x \in RefBlocks : x \in Nat /\ (x = RefBlock0 \/ x >= FirstData)
  BY <1>1 DEF RefBlocks, MetaInv, Placement, TypeOK
<1>4. \A g \in Mapped : HostOf(g) = l2[g] /\ l2[g] \in Nat /\ l2[g] >= FirstData
  BY <1>1, ConstantTypes DEF Mapped, HostOf, Placement, TypeOK
<1>5. RefBlock0 < L1Cluster /\ RefBlock0 \in Nat /\ L1Cluster \in Nat
      /\ L1Cluster < FirstData
  BY <1>1, LayoutAssumption, Layout
<1>6. \A g \in Mapped : HostOf(g) \notin HeaderAndL1
  BY <1>1, <1>4, <1>5 DEF HeaderAndL1
<1>7. \A g \in Mapped : HostOf(g) \notin L2Tables
  BY <1>1, <1>2, <1>4
<1>8. \A g \in Mapped : HostOf(g) \notin RefBlocks
  BY <1>4 DEF RefBlocks, MetaInv, Mapped
<1>9. RefBlocks \cap L2Tables = {}
  BY <1>1, <1>2, <1>3, <1>5
<1> QED
  BY <1>6, <1>7, <1>8, <1>9 DEF MetaDisjoint, MetaInv

\* In an image whose L1 table fits in a cluster, written through one handle
\* that stays open, no data is ever placed over a table, no refcount block
\* over data or a table, whichever calls fail.  The run that reopens the image
\* shows that it does not hold without "stays open".
THEOREM OneSessionMetaDisjoint == OneSession /\ Spec => []MetaDisjoint
<1> DEFINE Inv == OneSession /\ DataInv /\ MetaInv
<1>1. OneSession /\ Init => Inv
  BY InitDataInv, InitMetaInv DEF Init
<1>2. Inv /\ [Next]_vars => Inv'
  BY NextDataInv, NextMetaInv DEF OneSession, OneWriter
<1>3. Inv => MetaDisjoint
  BY MetaInvDisjoint
<1> QED
  BY <1>1, <1>2, <1>3, PTL DEF Spec
-----------------------------------------------------------------------------
(* A disk one refcount block is enough for, through any number of handles.  *)

\* Whatever setRefcount is called for is counted by the first block.
Small == \A k \in 1..Len(todo) : todo[k] < RefEntries

LEMMA FirstBlock ==
    ASSUME NEW c \in Nat, c < RefEntries
    PROVE  RefIndex(c) = 0
<1>1. c < 1 * RefEntries
  BY ConstantTypes
<1>2. RefIndex(c) \in Nat /\ RefIndex(c) < 1
  BY <1>1, ConstantTypes, DivMod, DivLess DEF RefIndex
<1> QED
  BY <1>2

\* The table a write enters is one of the layout's.
LEMMA TableSmall ==
    ASSUME TypeOK, AllocL2, L1Cluster + L1Size + L1Clusters <= RefEntries
    PROVE  /\ TableAt(TableOf(GuestAt)) \in Nat
           /\ TableAt(TableOf(GuestAt)) < RefEntries
<1>1. GuestAt \in Nat /\ GuestAt < L1Size * L2Size
  BY ChunkTypes, ConstantTypes, SizeAssumption DEF AllocL2, Guest
<1>2. TableOf(GuestAt) \in Nat /\ TableOf(GuestAt) < L1Size
  BY <1>1, ConstantTypes, DivMod, DivLess DEF TableOf
<1> QED
  BY <1>2, ConstantTypes DEF TableAt

OneBlockInv ==
    /\ Basics
    /\ DOMAIN blocks = {0}
    /\ Small

LEMMA InitOneBlock == Init => OneBlockInv
BY InitBasics DEF Init, OneBlockInv, Small

LEMMA NextOneBlock ==
    ASSUME OneBlock, OneBlockInv, [Next]_vars
    PROVE  OneBlockInv'
<1> USE DEF image
<1>0. TypeOK /\ Basics' /\ todo \in Seq(Nat)
  BY NextBasics DEF OneBlockInv, Basics, TypeOK
<1>1. CASE AllocL2
  <2>1. PICK c \in Nat : c = TableAt(TableOf(GuestAt)) /\ c < RefEntries
    BY <1>0, <1>1, TableSmall DEF OneBlock
  <2>2. todo' = <<c>> /\ blocks' = blocks
    BY <1>1, <2>1 DEF AllocL2
  <2> QED
    BY <1>0, <2>1, <2>2 DEF OneBlockInv, Small
<1>2. CASE AllocData
  <2>1. PICK c \in NextData(who) : c <= DiskClusters /\ todo' = <<c>>
    BY <1>2 DEF AllocData
  <2>2. c \in Nat /\ c < RefEntries
    BY <1>0, <2>1, NextDataTypes, ConstantTypes DEF OneBlock, TypeOK
  <2> QED
    BY <1>0, <1>2, <2>1, <2>2 DEF AllocData, OneBlockInv, Small
<1>3. CASE RefBlockAlloc \/ RefBlockRefused
  <2>1. Head(todo) = todo[1] /\ 1 \in 1..Len(todo) /\ todo[1] \in Nat
    BY <1>0, <1>3 DEF RefBlockAlloc, RefBlockRefused
  <2>2. RefIndex(Head(todo)) \in DOMAIN blocks
    BY <2>1, FirstBlock DEF OneBlockInv, Small
  <2> QED
    BY <1>3, <2>2 DEF RefBlockAlloc, RefBlockRefused
<1>4. CASE SetRef
  <2>1. todo' = Tail(todo) /\ todo # <<>> /\ blocks' = blocks
    BY <1>4 DEF SetRef
  <2>2. \A k \in 1..Len(todo') : k + 1 \in 1..Len(todo) /\ todo'[k] = todo[k + 1]
    BY <1>0, <2>1
  <2> QED
    BY <1>0, <2>1, <2>2 DEF OneBlockInv, Small
<1>5. CASE UNCHANGED <<blocks, todo>> \/ (blocks' = blocks /\ todo' = <<>>)
  <2>1. todo' = <<>> => Len(todo') = 0
    OBVIOUS
  <2> QED
    BY <1>0, <1>5, <2>1 DEF OneBlockInv, Small
<1> QED
  BY <1>1, <1>2, <1>3, <1>4, <1>5
     DEF Next, Step, Environment, vars, NoSpace, SkipZero, WriteData, WriteDone, CleanStep,
         CleanDone, Open, Close, Begin, CleanBegin, Torn, Fail, Crash, Answer

\* On a disk one refcount block is enough for, with an L1 table of one cluster,
\* no data is ever placed over a table or the block, however many handles write
\* it, whatever is reopened or cleaned, fails or crashes: what keeps data and
\* tables apart is then the layout alone.
THEOREM OneBlockMetaDisjoint == OneL1Cluster /\ OneBlock /\ Spec => []MetaDisjoint
<1> DEFINE Inv == OneL1Cluster /\ OneBlock /\ OneBlockInv
<1>1. OneL1Cluster /\ OneBlock /\ Init => Inv
  BY InitOneBlock
<1>2. Inv /\ [Next]_vars => Inv'
  BY NextOneBlock DEF OneL1Cluster, OneBlock
<1>3. Inv => MetaDisjoint
  <2> SUFFICES ASSUME Inv PROVE MetaDisjoint
    OBVIOUS
  <2>1. /\ TypeOK /\ Placement /\ DOMAIN blocks = {0}
        /\ FirstData \in Nat /\ L1Clusters = 1 /\ RefBlock0 \in Nat /\ L1Cluster \in Nat
        /\ RefBlock0 < L1Cluster /\ L1Cluster < FirstData
    BY Layout, ConstantTypes, LayoutAssumption DEF OneBlockInv, Basics
  <2>2. \A x \in L2Tables : x \in Nat /\ x > L1Cluster /\ x < FirstData
    <3> SUFFICES ASSUME NEW i \in L1Index, l1[i] # 0
                 PROVE  l1[i] \in Nat /\ l1[i] > L1Cluster /\ l1[i] < FirstData
      BY DEF L2Tables
    <3>1. l1[i] = TableAt(i) /\ l1[i] \in Nat
      BY <2>1 DEF Placement, TypeOK
    <3> QED
      BY <3>1, Layout
  <2>3. RefBlocks = {RefBlock0}
    BY <2>1 DEF RefBlocks, Placement
  <2>4. \A g \in Mapped : HostOf(g) \in Nat /\ HostOf(g) >= FirstData
    BY <2>1, ConstantTypes DEF Mapped, HostOf, Placement, TypeOK
  <2>5. \A g \in Mapped : HostOf(g) \notin HeaderAndL1
    BY <2>1, <2>4 DEF HeaderAndL1
  <2>6. \A g \in Mapped : HostOf(g) \notin L2Tables /\ HostOf(g) # RefBlock0
    BY <2>1, <2>2, <2>4
  <2>7. RefBlock0 \notin L2Tables
    BY <2>1, <2>2
  <2> QED
    BY <2>1, <2>3, <2>5, <2>6, <2>7 DEF MetaDisjoint
<1> QED
  BY <1>1, <1>2, <1>3, PTL DEF Spec

-----------------------------------------------------------------------------
(* No call cut short: whatever the tables lead to is counted.              *)

\* No call is cut short, the first refcount block counts every table, and all
\* that Clean may have to count again: it leaves the other blocks uncounted.
CountsKept ==
    /\ "fault" \notin Allowed /\ "crash" \notin Allowed
    /\ L1Cluster + L1Size + L1Clusters <= RefEntries
    /\ "clean" \in Allowed => OneBlock

\* Counted, or a setRefcount is under way for it.
Known == counted \cup {todo[k] : k \in 1..Len(todo)}

\* The inductive invariant.  setRefcount is never refused a block: it needs
\* one only for a cluster the first block does not count, which a handle that
\* knows no last cluster never asks for.
CountsInv ==
    /\ Basics
    /\ RefBlock0 \in counted
    /\ last[who] = 0 => Small
    /\ "clean" \in Allowed => OneBlockInv
    /\ call # "clean" =>
          /\ \A g \in Guest : l2[g] # 0 => l2[g] \in Known
          /\ \A i \in L1Index : l1[i] # 0 => l1[i] \in Known
          /\ \A i \in DOMAIN blocks : blocks[i] \in Known

LEMMA InitCounts == Init => CountsInv
<1> SUFFICES ASSUME Init PROVE CountsInv
  OBVIOUS
<1>1. RefBlock0 \in counted
  BY ConstantTypes, LayoutAssumption DEF Init
<1>2. Small /\ (\A i \in DOMAIN blocks : blocks[i] = RefBlock0)
  BY DEF Init, Small
<1>3. (\A g \in Guest : l2[g] = 0) /\ (\A i \in L1Index : l1[i] = 0)
  BY DEF Init
<1> QED
  BY <1>1, <1>2, <1>3, InitBasics, InitOneBlock DEF CountsInv, Known

LEMMA NextCounts ==
    ASSUME CountsKept, CountsInv, [Next]_vars
    PROVE  CountsInv'
<1> USE DEF image
<1>0. /\ Basics /\ Basics' /\ TypeOK /\ Placement /\ Quiet /\ Cleaning /\ todo \in Seq(Nat)
      /\ ("clean" \in Allowed => OneBlockInv') /\ RefBlock0 \in counted
  BY NextBasics, NextOneBlock DEF CountsKept, CountsInv, Basics, TypeOK
<1>1. CASE AllocL2
  <2>1. PICK c \in Nat : c = TableAt(TableOf(GuestAt)) /\ c < RefEntries
    BY <1>0, <1>1, TableSmall DEF CountsKept
  <2>2. /\ todo = <<>> /\ todo' = <<c>> /\ call' # "clean" /\ call # "clean"
        /\ UNCHANGED <<l2, blocks, counted, last, who>>
    BY <1>1, <2>1 DEF AllocL2, Writing
  <2>3. Small' /\ Known' = Known \cup {c}
    BY <2>1, <2>2 DEF Small, Known
  <2>4. \A i \in L1Index : l1'[i] \in {l1[i], c}
    BY <1>0, <1>1, <2>1 DEF AllocL2, TypeOK
  <2> QED
    BY <1>0, <2>2, <2>3, <2>4 DEF CountsInv
<1>2. CASE AllocData
  <2>1. PICK c \in NextData(who) :
           /\ l2' = [l2 EXCEPT ![GuestAt] = c]
           /\ last' = [last EXCEPT ![who] = c]
           /\ todo' = <<c>>
    BY <1>2 DEF AllocData
  <2>2. todo = <<>> /\ call' # "clean" /\ call # "clean"
        /\ UNCHANGED <<l1, blocks, counted, who>>
    BY <1>2 DEF AllocData, Unallocated, Writing
  <2>3. Known' = Known \cup {c}
    BY <2>1, <2>2 DEF Known
  <2>4. (\A g \in Guest : l2'[g] \in {l2[g], c}) /\ last'[who'] # 0
    BY <1>0, <2>1, <2>2, NextDataTypes DEF TypeOK
  <2> QED
    BY <1>0, <2>2, <2>3, <2>4 DEF CountsInv
<1>3. CASE RefBlockRefused
  <2>1. who \in Handles /\ last[who] \in Nat /\ last[who] + 1 < L1Cluster
    BY <1>0, <1>3 DEF RefBlockRefused, TypeOK
  <2>2. last[who] = 0
    BY <1>0, <2>1, ConstantTypes DEF Placement, FirstData
  <2>3. Head(todo) = todo[1] /\ 1 \in 1..Len(todo) /\ todo[1] \in Nat
    BY <1>0, <1>3 DEF RefBlockRefused
  <2>4. RefIndex(Head(todo)) = 0
    BY <2>2, <2>3, FirstBlock DEF CountsInv, Small
  <2> QED
    BY <1>0, <1>3, <2>4 DEF RefBlockRefused, Placement
<1>4. CASE RefBlockAlloc
  <2>1. who \in Handles /\ last[who] \in Nat
    BY <1>0 DEF TypeOK
  <2>2. PICK b \in Nat : b = last[who] + 1
    BY <2>1
  <2>3. /\ todo' = <<b>> \o todo /\ call' = "write" /\ call # "clean"
        /\ UNCHANGED <<l1, l2, counted, who>> /\ last'[who'] # 0
    BY <1>0, <1>4, <2>1, <2>2 DEF RefBlockAlloc, TypeOK
  <2>4. \A i \in DOMAIN blocks' : blocks'[i] = b \/ (i \in DOMAIN blocks /\ blocks'[i] = blocks[i])
    BY <1>4, <2>2 DEF RefBlockAlloc
  <2>5. Known \subseteq Known' /\ b \in Known'
    <3>1. /\ Len(todo') = Len(todo) + 1 /\ Len(todo) \in Nat /\ todo'[1] = b
          /\ \A k \in 1..Len(todo) : todo'[k + 1] = todo[k]
      BY <1>0, <2>3
    <3>2. /\ 1 \in 1..Len(todo')
          /\ \A k \in 1..Len(todo) : k + 1 \in 1..Len(todo')
      BY <3>1
    <3> QED
      BY <2>3, <3>1, <3>2 DEF Known
  <2> QED
    BY <1>0, <2>3, <2>4, <2>5 DEF CountsInv
<1>5. CASE SetRef
  <2>1. /\ todo' = Tail(todo) /\ todo # <<>> /\ counted' = counted \cup {Head(todo)}
        /\ UNCHANGED <<l1, l2, blocks, last, who>> /\ call # "clean"
    BY <1>5 DEF SetRef
  <2>2. /\ \A k \in 1..Len(todo') : k + 1 \in 1..Len(todo) /\ todo'[k] = todo[k + 1]
        /\ \A k \in 1..Len(todo) :
              todo[k] = Head(todo) \/ (k - 1 \in 1..Len(todo') /\ todo'[k - 1] = todo[k])
    BY <1>0, <2>1
  <2>3. Known \subseteq Known' /\ (Small => Small')
    BY <2>1, <2>2 DEF Known, Small
  <2> QED
    BY <1>0, <2>1, <2>3 DEF CountsInv
<1>6. CASE CleanStep
  <2>1. call' = "clean" /\ UNCHANGED <<last, who, todo>> /\ "clean" \in Allowed
    BY <1>0, <1>6 DEF CleanStep, Cleaning
  <2>2. ~Lost(RefBlock0)
    <3>1. DOMAIN blocks = {0} /\ RefBlock0 < L1Cluster
      BY <2>1, LayoutAssumption DEF CountsInv, OneBlockInv
    <3> QED
      BY <3>1, LayoutAssumption DEF Lost
  <2>3. RefBlock0 \in counted'
    BY <1>0, <1>6, <2>2 DEF CleanStep
  <2>4. Small'
    BY <1>0, <2>1 DEF OneBlockInv
  <2> QED
    BY <1>0, <2>1, <2>3, <2>4 DEF CountsInv
<1>7. CASE CleanDone
  <2>1. /\ todo' = <<>> /\ UNCHANGED <<l1, l2, blocks, counted, last, who>>
        /\ "clean" \in Allowed
    BY <1>0, <1>7 DEF CleanDone, Answer, Cleaning
  <2>2. (\A i \in L1Index : l1[i] = 0) /\ (\A g \in Guest : l2[g] = 0)
    BY <1>0, <1>7, CleanEnds
  <2>3. \A i \in DOMAIN blocks : blocks[i] = RefBlock0
    BY <1>0, <2>1 DEF CountsInv, OneBlockInv, Placement
  <2>4. Small'
    BY <1>0, <2>1 DEF OneBlockInv
  <2> QED
    BY <1>0, <2>1, <2>2, <2>3, <2>4 DEF CountsInv, Known
<1>8. CASE /\ todo = <<>> /\ todo' = <<>> /\ call # "clean"
           /\ UNCHANGED <<l1, l2, blocks, counted>>
  <2>1. Small'
    BY <1>8 DEF Small
  <2> QED
    BY <1>0, <1>8, <2>1 DEF CountsInv, Known
<1>9. CASE UNCHANGED vars
  <2>1. Known' = Known /\ (Small' <=> Small)
    BY <1>9 DEF vars, Known, Small
  <2> QED
    BY <1>0, <1>9, <2>1 DEF vars, CountsInv
<1> QED
  BY <1>0, <1>1, <1>2, <1>3, <1>4, <1>5, <1>6, <1>7, <1>8, <1>9
     DEF CountsKept, Quiet, Next, Step, Environment, NoSpace, SkipZero, WriteData, WriteDone,
         Open, Close, Begin, CleanBegin, Torn, Fail, Crash, Answer, Unallocated, Placed,
         Writing

\* Where no call is cut short, whatever the tables lead to between two calls
\* has a refcount: through one handle that stays open, however many blocks
\* setRefcount has to place, which it counts before what it was called for; and,
\* on a disk one block is enough for, through any number of handles, reopened
\* and cleaned.
THEOREM EverythingCounted == CountsKept /\ TablesApart /\ Spec => []AllCounted
<1> DEFINE Inv == CountsKept /\ CountsInv
<1>1. CountsKept /\ TablesApart /\ Init => Inv
  BY InitCounts
<1>2. Inv /\ [Next]_vars => Inv'
  BY NextCounts DEF CountsKept, OneBlock
<1>3. Inv => AllCounted
  <2> SUFFICES ASSUME CountsInv, call = "idle" PROVE Reachable \subseteq counted
    BY DEF AllCounted
  <2>1. Known = counted
    BY DEF CountsInv, Basics, Quiet, Known
  <2> QED
    BY <2>1 DEF CountsInv, Reachable, Mapped, HostOf, L2Tables, RefBlocks
<1> QED
  BY <1>1, <1>2, <1>3, PTL DEF Spec

-----------------------------------------------------------------------------
(* One handle, an image without a base: the image is a virtual disk.       *)

\* Nothing is below the image in its backing chain.
NoBase == \A s \in Sector : Base[s] = Zero

\* No data was ever stored where no guest cluster is.
DiskInv ==
    /\ DataInv
    /\ call # "clean" =>
          \A c \in 1..DiskClusters :
             (\A g \in Guest : l2[g] # c) => \A i \in InCluster : data[c][i] = Zero
    /\ \A c \in 1..DiskClusters :
          c < RefBlock0 => \A i \in InCluster : data[c][i] = Zero

LEMMA InitDiskInv == Init => DiskInv
<1> SUFFICES ASSUME Init PROVE DiskInv
  OBVIOUS
<1>1. \A c \in 1..DiskClusters : \A i \in InCluster : data[c][i] = Zero
  BY ConstantTypes DEF Init
<1> QED
  BY <1>1, InitDataInv DEF DiskInv

LEMMA NextDiskInv ==
    ASSUME OneWriter, DiskInv, [Next]_vars
    PROVE  DiskInv'
<1> USE DEF image
<1>0. TypeOK /\ DataInv /\ DataInv' /\ TypeOK' /\ Basics /\ Basics' /\ Placement
  BY NextDataInv DEF DiskInv, DataInv, Basics
<1>1. ASSUME call' # "clean", NEW c \in 1..DiskClusters, \A g \in Guest : l2'[g] # c
      PROVE  \A i \in InCluster : data'[c][i] = Zero
  <2>1. CASE UNCHANGED <<l2, data>> /\ call # "clean"
    BY <1>1, <2>1 DEF DiskInv
  <2>2. CASE AllocData
    <3>1. PICK d : l2' = [l2 EXCEPT ![GuestAt] = d] /\ data' = data
      BY <2>2 DEF AllocData
    <3>2. \A g \in Guest : l2[g] # c
      <4>1. l2[GuestAt] = 0 /\ c # 0
        BY <2>2 DEF AllocData, Unallocated
      <4>2. \A g \in Guest : g # GuestAt => l2'[g] = l2[g]
        BY <1>0, <3>1 DEF TypeOK
      <4> QED
        BY <1>1, <4>1, <4>2
    <3> QED
      BY <2>2, <3>1, <3>2 DEF DiskInv, AllocData, Unallocated, Writing
  <2>3. CASE WriteData \/ Torn
    <3>1. l2' = l2 /\ GuestAt \in Guest /\ call # "clean"
      BY <1>0, <2>3, ChunkTypes DEF WriteData, Torn, Placed, Writing
    <3>2. \A g \in Guest : l2[g] # c
      BY <1>1, <3>1
    <3>3. data'[c] = data[c]
      BY <1>0, <2>3, <3>1, <3>2, ConstantTypes DEF WriteData, Torn, TypeOK
    <3> QED
      BY <3>1, <3>2, <3>3 DEF DiskInv
  <2>4. CASE CleanDone
    <3>1. c \in Nat /\ c \in 0..DiskClusters /\ RefBlock0 \in Nat /\ data' = data
      BY <2>4, ConstantTypes DEF CleanDone
    <3>2. RefBlock0 <= c => \A i \in InCluster : data[c][i] = Zero
      BY <1>0, <2>4, <3>1, CleanEnds
    <3>3. c < RefBlock0 => \A i \in InCluster : data[c][i] = Zero
      BY DEF DiskInv
    <3> QED
      BY <3>1, <3>2, <3>3
  <2>5. CASE Fail \/ Crash
    <3>1. UNCHANGED <<l2, data>> /\ call # "clean"
      BY <1>0, <2>5 DEF Fail, Crash, OneWriter, Basics, Cleaning
    <3> QED
      BY <2>1, <3>1
  <2>6. \/ UNCHANGED <<l2, data>> /\ call # "clean"
        \/ AllocData \/ WriteData \/ Torn \/ CleanDone \/ Fail \/ Crash
    BY <1>0, <1>1 DEF Next, Step, Environment, vars, AllocL2, RefBlockAlloc, RefBlockRefused,
       SetRef, NoSpace, SkipZero, WriteDone, CleanStep, Open, Close, Begin, CleanBegin,
       Unallocated, Placed, Writing
  <2> QED
    BY <2>1, <2>2, <2>3, <2>4, <2>5, <2>6
<1>2. ASSUME NEW c \in 1..DiskClusters, c < RefBlock0
      PROVE  \A i \in InCluster : data'[c][i] = Zero
  <2>1. CASE UNCHANGED data
    BY <1>2, <2>1 DEF DiskInv
  <2>2. CASE WriteData \/ Torn
    <3>1. GuestAt \in Guest /\ l2[GuestAt] # 0
      BY <1>0, <2>2, ChunkTypes DEF WriteData, Torn, Placed
    <3>2. l2[GuestAt] >= FirstData /\ l2[GuestAt] \in Nat
      BY <1>0, <3>1, ConstantTypes DEF Placement, TypeOK
    <3>3. c # l2[GuestAt]
      BY <1>2, <3>2, ConstantTypes, LayoutAssumption DEF FirstData
    <3>4. data'[c] = data[c]
      BY <1>0, <2>2, <3>3, ConstantTypes DEF WriteData, Torn, TypeOK
    <3> QED
      BY <1>2, <3>4 DEF DiskInv
  <2>3. CASE CleanStep
    BY <1>2, <2>3, ConstantTypes DEF CleanStep, DiskInv
  <2>4. UNCHANGED data \/ WriteData \/ Torn \/ CleanStep
    BY DEF Next, Step, Environment, vars, AllocL2, RefBlockAlloc, RefBlockRefused,
       SetRef, AllocData, NoSpace, SkipZero, WriteDone, CleanDone, Open, Close, Begin,
       CleanBegin, Fail, Crash
  <2> QED
    BY <2>1, <2>2, <2>3, <2>4
<1> QED
  BY <1>0, <1>1, <1>2 DEF DiskInv

\* A sector is one of its cluster's.
LEMMA SectorIs ==
    ASSUME NEW s \in Sector
    PROVE  /\ s \in Nat /\ s < DiskClusters * Sectors
           /\ s \div Sectors \in Guest /\ s % Sectors \in InCluster
           /\ s = Sectors * (s \div Sectors) + (s % Sectors)
<1>1. s \in Nat /\ DiskClusters * Sectors \in Nat /\ s < DiskClusters * Sectors
  BY ConstantTypes DEF Sector
<1>2. s \div Sectors \in Nat /\ s \div Sectors < DiskClusters
  BY <1>1, ConstantTypes, DivMod, DivLess
<1>3. s % Sectors \in Nat /\ s % Sectors < Sectors
      /\ s = Sectors * (s \div Sectors) + (s % Sectors)
  BY <1>1, ConstantTypes, DivMod
<1> QED
  BY <1>1, <1>2, <1>3, ConstantTypes DEF Guest, InCluster

LEMMA DiskTypes == TypeOK => Disk \in [Sector -> Value]
<1> SUFFICES ASSUME TypeOK, NEW s \in Sector PROVE Disk[s] \in Value
  BY DEF Disk
<1>1. ReadFrom(s \div Sectors) \in 0..DiskClusters /\ s % Sectors \in InCluster
  BY SectorIs, HostTypes, ConstantTypes DEF ReadFrom
<1>2. Disk[s] = IF ReadFrom(s \div Sectors) = 0
                  THEN Base[s] ELSE data[ReadFrom(s \div Sectors)][s % Sectors]
  BY DEF Disk
<1>3. Base[s] \in Value
  BY ValueAssumption
<1>4. data[ReadFrom(s \div Sectors)][s % Sectors] \in Value
  BY <1>1 DEF TypeOK
<1> QED
  BY <1>2, <1>3, <1>4

\* What the tables say, wherever the file ends.
Entered == [s \in Sector |->
               IF HostOf(s \div Sectors) = 0
                 THEN Zero
                 ELSE data[HostOf(s \div Sectors)][s % Sectors]]

\* Without a base a reader need not look where the file ends: nothing was stored
\* behind it.
LEMMA DiskIsEntered == NoBase /\ Basics => Disk = Entered
<1> SUFFICES ASSUME NoBase, Basics, NEW s \in Sector PROVE Disk[s] = Entered[s]
  BY DEF Disk, Entered
<1>1. PICK g \in Guest, i \in InCluster : g = s \div Sectors /\ i = s % Sectors
  BY SectorIs
<1>2. PICK c \in 0..DiskClusters : c = HostOf(g)
  BY HostTypes DEF Basics
<1>3. /\ Disk[s] = IF ReadFrom(g) = 0 THEN Base[s] ELSE data[ReadFrom(g)][i]
      /\ Entered[s] = IF c = 0 THEN Zero ELSE data[c][i]
      /\ Base[s] = Zero
  BY <1>1, <1>2 DEF Disk, Entered, NoBase
<1>4. c * L2Size \in Nat /\ size \in Nat
  BY ConstantTypes DEF Basics, TypeOK
<1>5. CASE c * L2Size >= size
  <2>1. ReadFrom(g) = 0
    BY <1>2, <1>5 DEF ReadFrom
  <2>2. data[c][i] = Zero
    BY <1>4, <1>5 DEF Basics, InFile
  <2> QED
    BY <1>3, <2>1, <2>2
<1>6. CASE ~(c * L2Size >= size)
  BY <1>2, <1>3, <1>6 DEF ReadFrom
<1> QED
  BY <1>5, <1>6

LEMMA DiskIsEnteredNext == (NoBase /\ Basics => Disk = Entered)'
BY DiskIsEntered, PTL

\* The sectors of a chunk are those of its cluster from the current one on.
LEMMA ChunkSectors ==
    ASSUME TypeOK, buf # <<>>, NEW s \in Sector, NEW n \in Nat, n <= ChunkLen
    PROVE  /\ sec <= s /\ s < sec + n <=>
                 /\ s \div Sectors = GuestAt
                 /\ IndexInCluster <= s % Sectors /\ s % Sectors < IndexInCluster + n
           /\ s \div Sectors = GuestAt => s - sec = (s % Sectors) - IndexInCluster
<1> DEFINE q == s \div Sectors
           r == s % Sectors
<1>1. s \in Nat /\ q \in Nat /\ r \in Nat /\ r < Sectors /\ s = Sectors * q + r
  BY SectorIs, ConstantTypes DEF Guest, InCluster
<1>2. /\ sec \in Nat /\ GuestAt \in Nat /\ IndexInCluster \in Nat /\ IndexInCluster < Sectors
      /\ sec = Sectors * GuestAt + IndexInCluster
  BY ConstantTypes, DivMod DEF TypeOK, GuestAt, IndexInCluster
<1>3. IndexInCluster + n <= Sectors
  BY <1>2, ChunkTypes, ConstantTypes
<1> HIDE DEF q, r
<1> DEFINE a == Sectors * q
           b == Sectors * GuestAt
<1>4. a \in Nat /\ b \in Nat /\ s = a + r /\ sec = b + IndexInCluster
  BY <1>1, <1>2, ConstantTypes
<1>5. /\ q < GuestAt => a + Sectors <= b
      /\ GuestAt < q => b + Sectors <= a
  <2>1. ASSUME NEW x \in Nat, NEW y \in Nat, x < y
        PROVE  Sectors * x + Sectors <= Sectors * y
    <3>1. (x + 1) * Sectors <= y * Sectors
      BY <2>1, ConstantTypes, TimesMonotone
    <3>2. (x + 1) * Sectors = Sectors * x + Sectors /\ y * Sectors = Sectors * y
      BY ConstantTypes
    <3> QED
      BY <3>1, <3>2
  <2> QED
    BY <1>1, <1>2, <2>1
<1>6. q = GuestAt => a = b
  OBVIOUS
<1> HIDE DEF a, b
<1>7. CASE q = GuestAt
  <2>1. a = b
    BY <1>6, <1>7
  <2> QED
    BY <1>1, <1>2, <1>4, <1>7, <2>1 DEF q, r
<1>8. CASE q # GuestAt
  <2>1. q < GuestAt \/ GuestAt < q
    BY <1>1, <1>2, <1>8
  <2>2. ~(sec <= s /\ s < sec + n)
    BY <1>1, <1>2, <1>3, <1>4, <1>5, <2>1, ConstantTypes
  <2> QED
    BY <1>8, <2>2 DEF q, r
<1> QED
  BY <1>7, <1>8

\* Storing n sectors of the buffer in the cluster that is there.
LEMMA PatchStores ==
    ASSUME NoBase, DiskInv, Basics', Placed, NEW n \in Nat, n <= ChunkLen,
           UNCHANGED <<l1, l2>>,
           data' = [data EXCEPT ![l2[GuestAt]] = Patched(l2[GuestAt], n)]
    PROVE  Disk' = V!Stored(n)
<1> DEFINE c == l2[GuestAt]
<1>1. TypeOK /\ DataInv /\ buf # <<>> /\ GuestAt \in Guest /\ c \in 0..DiskClusters /\ c # 0
  BY ChunkTypes DEF DiskInv, DataInv, Basics, Placed, TypeOK
<1>2. HostOf(GuestAt) = c
  BY DEF HostOf, Placed
<1>3. \A g \in Guest : g # GuestAt => HostOf(g) # c
  BY <1>1 DEF DataInv, HostOf
<1>4. \A g \in Guest : HostOf(g)' = HostOf(g)
  BY DEF HostOf
<1>5. ASSUME NEW s \in Sector
      PROVE  (IF HostOf(s \div Sectors) = 0 THEN Zero
                ELSE data'[HostOf(s \div Sectors)][s % Sectors])
              = IF sec <= s /\ s < sec + n THEN buf[s - sec + 1] ELSE Disk[s]
  <2> DEFINE g == s \div Sectors
             i == s % Sectors
  <2>1. g \in Guest /\ i \in InCluster
    BY SectorIs
  <2>2. /\ sec <= s /\ s < sec + n <=>
              g = GuestAt /\ IndexInCluster <= i /\ i < IndexInCluster + n
        /\ g = GuestAt => s - sec = i - IndexInCluster
    BY <1>1, ChunkSectors
  <2>3. Disk[s] = IF HostOf(g) = 0 THEN Zero ELSE data[HostOf(g)][i]
    BY DiskIsEntered DEF DiskInv, DataInv, Entered
  <2>4. HostOf(g) \in 0..DiskClusters
    BY <1>1, <2>1, HostTypes
  <2> HIDE DEF g, i
  <2>5. CASE g = GuestAt
    <3>1. data'[c] = Patched(c, n)
      BY <1>1 DEF TypeOK
    <3>2. Patched(c, n)[i] = IF IndexInCluster <= i /\ i < IndexInCluster + n
                               THEN buf[i - IndexInCluster + 1] ELSE data[c][i]
      BY <2>1 DEF Patched
    <3>3. HostOf(g) = c
      BY <1>2, <2>5
    <3>4. data'[HostOf(g)][i] = IF sec <= s /\ s < sec + n
                                  THEN buf[s - sec + 1] ELSE data[c][i]
      BY <2>2, <2>5, <3>1, <3>2, <3>3
    <3> QED
      BY <1>1, <2>3, <3>3, <3>4 DEF g, i
  <2>6. CASE g # GuestAt
    <3>1. HostOf(g) # 0 => data'[HostOf(g)] = data[HostOf(g)]
      BY <1>1, <1>3, <2>1, <2>4, <2>6 DEF TypeOK
    <3> QED
      BY <2>2, <2>3, <2>6, <3>1 DEF g, i
  <2> QED
    BY <2>5, <2>6
<1>6. Disk' = [s \in Sector |-> IF HostOf(s \div Sectors) = 0 THEN Zero
                                  ELSE data'[HostOf(s \div Sectors)][s % Sectors]]
  <2>1. \A s \in Sector : HostOf(s \div Sectors)' = HostOf(s \div Sectors)
    BY <1>4, SectorIs
  <2>2. Disk' = Entered'
    BY DiskIsEnteredNext DEF NoBase
  <2> QED
    BY <2>1, <2>2 DEF Entered
<1> QED
  BY <1>5, <1>6 DEF V!Stored

\* The tables and the data as a reader sees them are left alone.
LEMMA DiskKept ==
    ASSUME NoBase, Basics, Basics', UNCHANGED <<l1, l2, data>>
    PROVE  Disk' = Disk
<1>1. Disk = Entered /\ Disk' = Entered'
  BY DiskIsEntered, DiskIsEnteredNext DEF NoBase
<1> QED
  BY <1>1 DEF Entered, HostOf

\* A table or a cluster that is entered holds nothing yet.
LEMMA AllocKeepsDisk ==
    ASSUME OneWriter, NoBase, DiskInv, Basics', AllocL2 \/ AllocData
    PROVE  Disk' = Disk
<1>9. Disk = Entered /\ Disk' = Entered'
  BY DiskIsEntered, DiskIsEnteredNext DEF NoBase, DiskInv, DataInv
<1>0. TypeOK /\ DataInv /\ GuestAt \in Guest /\ call = "write"
  BY ChunkTypes DEF DiskInv, DataInv, Basics, AllocL2, AllocData, Unallocated, Writing
<1>1. CASE AllocL2
  <2>1. l2' = l2 /\ data' = data
    BY <1>1 DEF AllocL2
  <2>2. \A g \in Guest : (IF l1'[TableOf(g)] = 0 THEN 0 ELSE l2[g]) = HostOf(g)
    <3> SUFFICES ASSUME NEW g \in Guest
                 PROVE  (IF l1'[TableOf(g)] = 0 THEN 0 ELSE l2[g]) = HostOf(g)
      OBVIOUS
    <3>1. l2[g] # 0 => l1[TableOf(g)] # 0
      BY <1>0 DEF DataInv
    <3>2. l1[TableOf(GuestAt)] = 0
      BY <1>1 DEF AllocL2
    <3>3. TableOf(g) # TableOf(GuestAt) => l1'[TableOf(g)] = l1[TableOf(g)]
      <4> DEFINE t == TableOf(GuestAt)
                 u == TableOf(g)
      <4>1. l1' = [l1 EXCEPT ![t] = TableAt(t)]
        BY <1>1 DEF AllocL2
      <4> HIDE DEF t, u
      <4>2. u # t => l1'[u] = l1[u]
        BY <1>0, <4>1 DEF TypeOK
      <4> QED
        BY <4>2 DEF t, u
    <3> QED
      BY <3>1, <3>2, <3>3 DEF HostOf
  <2>3. \A s \in Sector : s \div Sectors \in Guest
    BY SectorIs
  <2> QED
    BY <1>9, <2>1, <2>2, <2>3 DEF Entered, HostOf
<1>2. CASE AllocData
  <2>1. PICK c \in NextData(who) : c <= DiskClusters /\ l2' = [l2 EXCEPT ![GuestAt] = c]
    BY <1>2 DEF AllocData
  <2>2. who \in Handles /\ l1' = l1 /\ data' = data /\ l2[GuestAt] = 0
    BY <1>0, <1>2 DEF AllocData, Unallocated, TypeOK
  <2>3. c \in 1..DiskClusters /\ \A g \in Guest : l2[g] # c
    <3>1. c \in Nat /\ c # 0 /\ \A g \in Guest : l2[g] < c /\ l2[g] \in Nat
      BY <1>0, <2>1, <2>2, NextDataIsNew, NextDataTypes, ConstantTypes DEF TypeOK
    <3> QED
      BY <2>1, <3>1, ConstantTypes
  <2>4. \A i \in InCluster : data[c][i] = Zero
    BY <1>0, <2>3 DEF DiskInv
  <2>5. \A g \in Guest : l2'[g] = IF g = GuestAt THEN c ELSE l2[g]
    BY <1>0, <2>1 DEF TypeOK
  <2>6. ASSUME NEW s \in Sector
        PROVE  (IF (IF l1[TableOf(s \div Sectors)] = 0 THEN 0 ELSE l2'[s \div Sectors]) = 0
                  THEN Zero
                  ELSE data[IF l1[TableOf(s \div Sectors)] = 0 THEN 0 ELSE l2'[s \div Sectors]]
                           [s % Sectors]) = Entered[s]
    <3>1. s \div Sectors \in Guest /\ s % Sectors \in InCluster
      BY SectorIs
    <3>2. Entered[s] = IF HostOf(s \div Sectors) = 0
                         THEN Zero ELSE data[HostOf(s \div Sectors)][s % Sectors]
      BY DEF Entered
    <3>4. CASE s \div Sectors = GuestAt
      BY <2>2, <2>4, <2>5, <3>1, <3>2, <3>4 DEF HostOf
    <3>5. CASE s \div Sectors # GuestAt
      BY <2>5, <3>1, <3>2, <3>5 DEF HostOf
    <3> QED
      BY <3>4, <3>5
  <2> QED
    BY <1>9, <2>2, <2>6 DEF Entered, HostOf
<1> QED
  BY <1>1, <1>2

\* Zeros passed over are what a reader finds there.
LEMMA SkipStores ==
    ASSUME NoBase, DiskInv, SkipZero
    PROVE  Disk = V!Stored(ChunkLen)
<1>0. TypeOK /\ buf # <<>> /\ HostOf(GuestAt) = 0
  BY DEF DiskInv, DataInv, Basics, SkipZero, Unallocated, HostOf
<1>1. ChunkLen \in Nat /\ sec \in Nat /\ \A i \in 1..ChunkLen : buf[i] = Zero
  BY <1>0, ChunkTypes DEF SkipZero, ChunkIsZero, TypeOK
<1>2. ASSUME NEW s \in Sector, sec <= s, s < sec + ChunkLen
      PROVE  buf[s - sec + 1] = Disk[s]
  <2>1. s \in Nat /\ s \div Sectors = GuestAt
    BY <1>0, <1>1, <1>2, SectorIs, ChunkSectors
  <2>2. Disk[s] = Zero
    BY <1>0, <2>1, DiskIsEntered DEF Entered, DiskInv, DataInv
  <2>3. s - sec + 1 \in 1..ChunkLen
    BY <1>1, <1>2, <2>1
  <2> QED
    BY <1>1, <2>2, <2>3
<1>3. Disk = [s \in Sector |-> Disk[s]]
  BY DEF Disk
<1> QED
  BY <1>2, <1>3 DEF V!Stored

\* Nothing of the buffer is stored.
LEMMA NoneStored ==
    ASSUME TypeOK
    PROVE  Disk = V!Stored(0)
<1>1. \A s \in Sector : ~(sec <= s /\ s < sec + 0)
  BY SectorIs DEF TypeOK
<1>2. Disk = [s \in Sector |-> Disk[s]]
  BY DEF Disk
<1> QED
  BY <1>1, <1>2 DEF V!Stored

\* A call that is cut short before its next part is stored.
LEMMA EndsByStop ==
    ASSUME NoBase, Basics, Basics', call = "write", NEW r \in {"invalid", "failed", "none"},
           Answer(r), UNCHANGED <<l1, l2, data>>
    PROVE  V!Stop
<1>1. Disk' = V!Stored(0)
  BY DiskKept, NoneStored DEF Basics
<1>2. 0 \in 0..Len(buf)
  BY DEF Basics, TypeOK
<1> QED
  BY <1>1, <1>2 DEF V!Stop, Answer

\* One pwrite of Clean leaves every sector, or makes it zero.
LEMMA ClearsSectors ==
    ASSUME NoBase, Basics, Basics', CleanStep
    PROVE  /\ Disk' \in [Sector -> Value]
           /\ \A s \in Sector : Disk'[s] \in {Disk[s], Zero}
<1>0. TypeOK /\ Disk = Entered /\ Disk' = Entered'
  BY DiskIsEntered, DiskIsEnteredNext DEF NoBase, Basics
<1>1. ASSUME NEW g \in Guest
      PROVE  HostOf(g)' \in {0, HostOf(g)}
  <2>1. TableOf(g) \in L1Index
    BY <1>0, PlaceTypes
  <2>2. l1'[TableOf(g)] \in {0, l1[TableOf(g)]} /\ l2'[g] \in {0, l2[g]}
    BY <2>1 DEF CleanStep
  <2> QED
    BY <2>2 DEF HostOf
<1>2. ASSUME NEW s \in Sector
      PROVE  Disk'[s] \in {Disk[s], Zero} /\ Disk'[s] \in Value
  <2>1. PICK g \in Guest, i \in InCluster : g = s \div Sectors /\ i = s % Sectors
    BY SectorIs
  <2>2. /\ Disk[s] = IF HostOf(g) = 0 THEN Zero ELSE data[HostOf(g)][i]
        /\ Disk'[s] = IF HostOf(g)' = 0 THEN Zero ELSE data'[HostOf(g)'][i]
    BY <1>0, <2>1 DEF Entered
  <2>3. Zero \in Value
    BY ValueAssumption
  <2>4. PICK c \in 0..DiskClusters : c = HostOf(g)
    BY <1>0, HostTypes
  <2>5. data'[c][i] \in {data[c][i], Zero} /\ data[c][i] \in Value
    BY <1>0 DEF CleanStep, TypeOK
  <2> QED
    BY <1>1, <2>2, <2>3, <2>4, <2>5
<1>3. Disk' = [s \in Sector |-> Disk'[s]]
  BY DEF Disk
<1> QED
  BY <1>2, <1>3

LEMMA StepRefines ==
    ASSUME OneWriter, NoBase, DiskInv, [Next]_vars
    PROVE  [V!Next]_(V!vars)
<1> USE DEF image
<1>0. /\ Basics /\ TypeOK /\ Quiet /\ Cleaning /\ call \in {"idle", "write", "clean"}
  BY DEF DiskInv, DataInv, Basics, TypeOK
<1>16. Basics'
  BY <1>0, NextBasics
<1>17. UNCHANGED <<l1, l2, data>> => Disk' = Disk
  BY <1>0, <1>16, DiskKept
<1>1. CASE AllocL2 \/ AllocData
  <2>1. Disk' = Disk
    BY <1>1, <1>16, AllocKeepsDisk
  <2> QED
    BY <1>1, <2>1 DEF AllocL2, AllocData, V!vars
<1>2. CASE RefBlockAlloc \/ SetRef
  <2>1. Disk' = Disk
    BY <1>2, <1>17 DEF RefBlockAlloc, SetRef
  <2> QED
    BY <1>2, <2>1 DEF RefBlockAlloc, SetRef, V!vars
<1>3. CASE RefBlockRefused \/ NoSpace
  <2>1. V!Stop
    BY <1>0, <1>3, <1>16, EndsByStop DEF RefBlockRefused, NoSpace, Unallocated, Writing
  <2> QED
    BY <2>1 DEF V!Next
<1>4. CASE SkipZero
  <2>1. ChunkLen \in 1..Len(buf)
    BY <1>0, <1>4, ChunkTypes DEF SkipZero, Unallocated
  <2>2. Disk' = V!Stored(ChunkLen)
    <3>1. Disk = V!Stored(ChunkLen)
      BY <1>4, SkipStores
    <3>2. Disk' = Disk
      BY <1>4, <1>17 DEF SkipZero
    <3> QED
      BY <3>1, <3>2
  <2>3. V!Store
    BY <1>4, <2>1, <2>2 DEF SkipZero, Unallocated, Writing, Advance, V!Store
  <2> QED
    BY <2>3 DEF V!Next
<1>5. CASE WriteData
  <2>1. ChunkLen \in 1..Len(buf) /\ Len(buf) \in Nat
    BY <1>0, <1>5, ChunkTypes DEF WriteData, Placed, TypeOK
  <2>2. PICK n \in 1..Len(buf) : n = ChunkLen
    BY <2>1
  <2>3. Disk' = V!Stored(n)
    <3>1. n \in Nat /\ n <= ChunkLen
      BY <2>1, <2>2
    <3>2. data' = [data EXCEPT ![l2[GuestAt]] = Patched(l2[GuestAt], n)]
      BY <1>5, <2>2 DEF WriteData
    <3>3. Placed /\ UNCHANGED <<l1, l2>>
      BY <1>5 DEF WriteData
    <3> QED
      BY <3>1, <3>2, <3>3, <1>16, PatchStores
  <2>4. V!Store
    BY <1>5, <2>2, <2>3 DEF WriteData, Placed, Writing, Advance, V!Store
  <2> QED
    BY <2>4 DEF V!Next
<1>6. CASE WriteDone
  <2>1. V!Finish
    BY <1>6, <1>17 DEF WriteDone, Writing, Answer, V!Finish
  <2> QED
    BY <2>1 DEF V!Next
<1>7. CASE CleanBegin
  <2>1. V!BeginClean
    BY <1>7, <1>17 DEF CleanBegin, V!BeginClean
  <2> QED
    BY <2>1 DEF V!Next
<1>14. CASE CleanStep
  <2>1. V!Clear
    BY <1>0, <1>14, <1>16, ClearsSectors DEF CleanStep, V!Clear
  <2> QED
    BY <2>1 DEF V!Next
<1>15. CASE CleanDone
  <2>1. \A g \in Guest : HostOf(g) = 0
    BY <1>0, <1>15, CleanEnds DEF HostOf
  <2>2. \A s \in Sector : Disk[s] = Zero
    BY <1>0, <2>1, SectorIs, DiskIsEntered DEF Entered
  <2>3. sec = 0 /\ buf = <<>>
    BY <1>0, <1>15 DEF CleanDone, Quiet
  <2>4. V!FinishClean
    BY <1>15, <2>2, <2>3, <1>17 DEF CleanDone, Answer, V!FinishClean
  <2> QED
    BY <2>4 DEF V!Next
<1>8. ASSUME NEW h \in Handles, Open(h) \/ Close(h)
      PROVE  [V!Next]_(V!vars)
  BY <1>8, <1>17 DEF Open, Close, V!vars
<1>9. ASSUME NEW h \in Handles, NEW s \in Starts, NEW n \in Lengths,
             NEW values \in [1..n -> Value], Begin(h, s, values)
      PROVE  [V!Next]_(V!vars)
  <2>1. Disk' = Disk
    BY <1>9, <1>17 DEF Begin
  <2>2. /\ n \in Nat /\ n >= 1 /\ values \in Seq(Value) /\ Len(values) = n
        /\ s \in Sector /\ DiskClusters * Sectors \in Nat
    BY EnvironmentAssumption, ConstantTypes DEF Lengths
  <2>3. CASE s + Len(values) > DiskClusters * Sectors
    <3>1. V!Refuse
      BY <1>9, <2>1, <2>3 DEF Begin, V!Refuse
    <3> QED
      BY <3>1 DEF V!Next
  <2>4. CASE s + Len(values) <= DiskClusters * Sectors
    <3>1. sec' = s /\ buf' = values /\ call' = "write" /\ result' = "none" /\ call = "idle"
      <4>1. ~(s + Len(values) > DiskClusters * Sectors)
        <5> s \in Nat
          BY <2>2 DEF Sector
        <5> QED
          BY <2>2, <2>4
      <4> QED
        BY <1>9, <4>1 DEF Begin
    <3>2. \A i \in 1..n : s + i - 1 \in Sector
      BY <2>2, <2>4 DEF Sector
    <3>3. buf' \in Seq(Value) \ {<<>>}
      BY <2>2, <3>1
    <3>4. V!BeginWrite
      BY <2>1, <2>2, <3>1, <3>2, <3>3 DEF V!BeginWrite
    <3> QED
      BY <3>4 DEF V!Next
  <2> QED
    <3> s \in Nat
      BY <2>2 DEF Sector
    <3> QED
      BY <2>2, <2>3, <2>4
<1>10. CASE Torn
  <2>1. ChunkLen \in 1..Len(buf) /\ Len(buf) \in Nat
    BY <1>0, <1>10, ChunkTypes DEF Torn, Placed, TypeOK
  <2>2. PICK n \in 1..(ChunkLen - 1) :
           data' = [data EXCEPT ![l2[GuestAt]] = Patched(l2[GuestAt], n)]
    BY <1>10 DEF Torn
  <2>3. n \in 0..Len(buf) /\ n \in Nat /\ n <= ChunkLen
    BY <2>1
  <2>4. Disk' = V!Stored(n)
    BY <1>10, <2>2, <2>3, <1>16, PatchStores DEF Torn
  <2>5. V!Stop
    BY <1>10, <2>3, <2>4 DEF Torn, Placed, Writing, Answer, V!Stop
  <2> QED
    BY <2>5 DEF V!Next
<1>11. CASE Fail
  <2>1. call = "write"
    BY <1>0, <1>11 DEF Fail, OneWriter, Cleaning
  <2>2. V!Stop
    BY <1>0, <1>11, <2>1, <1>16, EndsByStop DEF Fail
  <2> QED
    BY <2>2 DEF V!Next
<1>12. CASE Crash
  <2>1. CASE call = "write"
    <3>1. V!Stop
      BY <1>0, <1>12, <2>1, <1>16, EndsByStop DEF Crash
    <3> QED
      BY <3>1 DEF V!Next
  <2>2. CASE call = "idle"
    <3>1. V!Forget
      BY <1>0, <1>12, <2>2, <1>17 DEF Crash, Answer, Quiet, V!Forget
    <3> QED
      BY <3>1 DEF V!Next
  <2>3. call # "clean"
    BY <1>0, <1>12 DEF Crash, OneWriter, Cleaning
  <2> QED
    BY <1>0, <2>1, <2>2, <2>3
<1>13. CASE UNCHANGED vars
  BY <1>13, <1>17 DEF vars, V!vars
<1> QED
  BY <1>1, <1>2, <1>3, <1>4, <1>5, <1>6, <1>7, <1>8, <1>9, <1>10, <1>11, <1>12, <1>13,
     <1>14, <1>15
     DEF Next, Step, Environment

\* An image without a base, whose tables keep apart from its data, written
\* through one handle at a time is a virtual disk: whether the handle stays open
\* and its calls fail, or store only a part, or one block is enough and the image
\* is reopened and the process crashes; or, where nothing fails or crashes,
\* however often it is cleaned.  An image over a base is no such disk:
\* Qcow2Lib_Write passes over zeros where the image holds nothing, and leaves
\* zeros beside what it stores in a new cluster.
THEOREM OneWriterIsDisk == OneWriter /\ TablesApart /\ NoBase /\ Spec => VirtualDiskSpec
<1> DEFINE Inv == OneWriter /\ NoBase /\ DiskInv
<1>1. OneWriter /\ TablesApart /\ NoBase /\ Init => Inv
  BY InitDiskInv
<1>2. Inv /\ [Next]_vars => Inv'
  BY NextDiskInv DEF OneWriter, NoBase
<1>3. Inv /\ [Next]_vars => [V!Next]_(V!vars)
  BY StepRefines
<1>4. Init => V!Init
  BY InitTypeOK, DiskTypes DEF Init, V!Init
<1> QED
  BY <1>1, <1>2, <1>3, <1>4, PTL DEF Spec, VirtualDiskSpec, V!Spec
=============================================================================
