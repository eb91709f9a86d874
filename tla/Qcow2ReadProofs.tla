---------------------------- MODULE Qcow2ReadProofs ----------------------------
(***************************************************************************)
(* Proofs about reading, Qcow2Read.  Of every chain: types, that the       *)
(* clipped pieces stay in the range and apart, and that a read is exact    *)
(* wherever the areas it goes by are.  With ChangedAreasProofs this gives  *)
(* that reads of the chains named there are exact.                         *)
(***************************************************************************)
EXTENDS Qcow2Read, ChangedAreasProofs

-----------------------------------------------------------------------------
\* The sector s is in the piece at p.
InPiece(p, s) == p <= s /\ s < p + pieces[p]

\* If an area has the sector s, so has a piece.
Taken(s) ==
    (\E k \in DOMAIN areas : Covers(areas, k, s)) => \E p \in DOMAIN pieces : InPiece(p, s)

ReadTypes ==
    /\ step \in {"idle", "clip", "copy"}
    /\ answer \in {"none", "ok", "failed"}
    /\ start \in Nat /\ num \in Nat /\ start + num <= Reach
    /\ mark \in start..(start + num) /\ left \in 0..num /\ before \in 0..num
    /\ it \in DOMAIN areas \cup DOMAIN pieces \cup {End}
    /\ DOMAIN buffer = start..(start + num - 1)
    /\ \A s \in DOMAIN buffer : buffer[s] \in 0..NFiles

\* Nothing is read before the query is over.
Waiting ==
    /\ phase # "done" => step = "idle" /\ answer = "none" /\ it = End /\ pieces = <<>>
    /\ answer = "ok" => step = "idle" /\ it = End

\* Every piece is a part of an area and of the range, and they do not overlap.
Pieces ==
    /\ DOMAIN pieces \subseteq Nat
    /\ \A p \in DOMAIN pieces :
          /\ pieces[p] \in Nat \ {0}
          /\ start <= p /\ p + pieces[p] <= start + num
          /\ \E k \in DOMAIN areas : k <= p /\ p + pieces[p] <= EndOf(areas, k)
          /\ \A q \in DOMAIN pieces : p < q => p + pieces[p] <= q

\* The piece at p is what the area at k has of the range behind the mark, the
\* range ends there, and the clipping comes to that area again, if it goes on,
\* without cutting another piece.
Final(p, k) ==
    /\ p = mark \/ p = k
    /\ mark <= p /\ k <= p
    /\ p + pieces[p] = start + num /\ start + num <= EndOf(areas, k)
    /\ \A j \in DOMAIN areas : j < k => EndOf(areas, j) <= mark
    /\ it # End => it <= k

Clipping ==
    step = "clip" =>
        /\ it \in DOMAIN areas \cup {End}
        /\ left # 0 => mark + left = start + num
        /\ left = 0 => it = End
        /\ it # End => /\ \A k \in DOMAIN areas : k < it => EndOf(areas, k) <= mark
                       /\ \A s \in start..(mark - 1) : Taken(s)
        /\ it = End => \A s \in DOMAIN buffer : Taken(s)
        /\ \A p \in DOMAIN pieces :
              p + pieces[p] <= mark \/ \E k \in DOMAIN areas : Final(p, k)
        /\ \A s \in DOMAIN buffer : buffer[s] = 0

\* The piece at p has been copied: its sector s is from the server of p.
Copied(p) == it = End \/ p < it
Served(p, s) ==
    IF Server(p) = {} THEN buffer[s] = 0
                      ELSE buffer[s] \in Server(p) /\ \A f \in Server(p) : Holds(f, s)

Copying ==
    step = "copy" \/ answer = "ok" =>
        /\ it \in DOMAIN pieces \cup {End}
        /\ \A s \in DOMAIN buffer :
              /\ Taken(s)
              /\ \A p \in DOMAIN pieces : Copied(p) /\ InPiece(p, s) => Served(p, s)
              /\ (\A p \in DOMAIN pieces : Copied(p) => ~InPiece(p, s)) => buffer[s] = 0

Reader == ReadTypes /\ Waiting /\ Pieces /\ Clipping /\ Copying
ReadInv == Inv /\ Reader

-----------------------------------------------------------------------------
(* Operators.                                                              *)

LEMMA LargerIs ==
    ASSUME NEW a \in Nat, NEW b \in Nat
    PROVE  /\ Max({a, b}) \in Nat /\ a <= Max({a, b}) /\ b <= Max({a, b})
           /\ Max({a, b}) = a \/ Max({a, b}) = b
<1>1. \E m \in {a, b} : \A x \in {a, b} : m >= x
  <2>1. CASE a <= b
    BY <2>1
  <2>2. CASE b <= a
    BY <2>2
  <2> QED
    BY <2>1, <2>2
<1>2. Max({a, b}) \in {a, b} /\ \A x \in {a, b} : Max({a, b}) >= x
  BY <1>1 DEF Max
<1> QED
  BY <1>2

LEMMA AreaFacts ==
    ASSUME ReadInv
    PROVE  /\ Reach \in Nat /\ NFiles \in Nat \ {0}
           /\ DOMAIN areas \subseteq Nat
           /\ \A k \in DOMAIN areas :
                 /\ k \in Nat /\ k # End
                 /\ areas[k].len \in Nat \ {0} /\ areas[k].file \in Files
                 /\ EndOf(areas, k) = k + areas[k].len /\ EndOf(areas, k) \in Nat
                 /\ EndOf(areas, k) <= Reach
           /\ phase = "done" => \A j, k \in DOMAIN areas : j < k => EndOf(areas, j) <= k
<1>1. /\ Reach \in Nat /\ NFiles \in Nat \ {0} /\ DOMAIN areas \subseteq Nat
      /\ \A k \in DOMAIN areas :
            /\ k \in Nat /\ areas[k].len \in Nat \ {0}
            /\ EndOf(areas, k) = k + areas[k].len /\ EndOf(areas, k) \in Nat
  BY ReachBounds, InvFacts DEF ReadInv
<1>2. \A k \in DOMAIN areas : areas[k].file \in Files /\ EndOf(areas, k) <= Reach
  BY DEF ReadInv, Inv, StateTypes, MapTypes
<1>3. \A k \in Nat : k # End
  BY DEF End
<1>4. phase = "done" => \A j, k \in DOMAIN areas : j < k => EndOf(areas, j) <= k
  BY InvDisjoint DEF ReadInv, AreasDisjoint, AtRest
<1> QED
  BY <1>1, <1>2, <1>3, <1>4

-----------------------------------------------------------------------------
(* The query, and the beginning of a read.                                 *)

LEMMA ReadInitInv == ReadInit => ReadInv
<1> SUFFICES ASSUME ReadInit PROVE ReadInv
  OBVIOUS
<1>1. Inv /\ Reach \in Nat
  BY InitInv, ReachBounds DEF ReadInit
<1>2. pieces = <<>> /\ buffer = <<>> /\ DOMAIN pieces = {} /\ DOMAIN buffer = {}
  BY DEF ReadInit
<1>3. DOMAIN buffer = start..(start + num - 1)
  BY <1>2 DEF ReadInit
<1>4. ReadTypes
  BY <1>1, <1>2, <1>3 DEF ReadTypes, ReadInit
<1> QED
  BY <1>1, <1>2, <1>4 DEF ReadInv, Reader, Waiting, Pieces, Clipping, Copying, ReadInit

LEMMA OpeningKeeps == ASSUME ReadInv, Opening PROVE ReadInv'
<1>1. Query /\ UNCHANGED <<step, start, num, mark, left, before, it, pieces, buffer, answer>>
  BY DEF Opening, readVars
<1>2. phase # "done"
  BY <1>1 DEF Query, SkipEmpty, ScanCluster, ScanEnd, MergeStep, MergeEnd, TrimStep, TrimEnd
<1>3. Inv'
  BY <1>1, StepInv DEF ReadInv
<1>4. step = "idle" /\ answer = "none" /\ it = End /\ pieces = <<>> /\ DOMAIN pieces = {}
  BY <1>2 DEF ReadInv, Reader, Waiting
<1>5. ReadTypes'
  BY <1>1, <1>4 DEF ReadInv, Reader, ReadTypes
<1>6. Waiting' /\ Pieces' /\ Clipping' /\ Copying'
  BY <1>1, <1>4 DEF Waiting, Pieces, Clipping, Copying
<1> QED
  BY <1>3, <1>5, <1>6 DEF ReadInv, Reader

\* Nothing else disturbs the query.
LEMMA QueryStays == ASSUME ReadInv, UNCHANGED vars PROVE Inv'
BY StepInv DEF ReadInv

LEMMA ReadBeginKeeps ==
    ASSUME ReadInv,
           NEW s \in 0..(DiskSectors - 1), NEW n \in 1..(DiskSectors - s), ReadBegin(s, n)
    PROVE  ReadInv'
<1>1. /\ phase = "done" /\ step' = "clip" /\ start' = s /\ num' = n
      /\ mark' = s /\ left' = n /\ before' = n /\ it' = Begin(areas)
      /\ pieces' = <<>> /\ buffer' = [x \in s..(s + n - 1) |-> 0] /\ answer' = "none"
      /\ UNCHANGED vars /\ UNCHANGED <<areas, phase>>
  BY DEF ReadBegin, vars
<1>2. Inv'
  BY <1>1, QueryStays
<1>3. NFiles \in Files /\ DiskSectors \in Nat /\ DiskSectors <= Reach /\ Reach \in Nat
  <2>1. NFiles \in Files
    BY NFilesAssumption DEF Files
  <2>2. SizeSectors[NFiles] <= EndSector(NFiles) /\ EndSector(NFiles) \in Nat
    BY <2>1, Counts
  <2>3. EndSector(NFiles) <= Reach /\ Reach \in Nat
    BY <2>1, ReachBounds
  <2>4. SizeSectors[NFiles] \in Nat
    BY <2>1, SizeAssumption
  <2> QED
    BY <2>1, <2>2, <2>3, <2>4 DEF DiskSectors
<1>4. s \in Nat /\ n \in Nat \ {0} /\ s + n <= Reach
  BY <1>3
<1>5. /\ Begin(areas) \in DOMAIN areas \cup {End}
      /\ Begin(areas) = End => DOMAIN areas = {}
      /\ Begin(areas) # End => \A k \in DOMAIN areas : Begin(areas) <= k
  BY AreaFacts, KeyIs
<1>6. DOMAIN pieces' = {} /\ DOMAIN buffer' = s..(s + n - 1)
  BY <1>1
<1>7. \A x \in DOMAIN buffer' : buffer'[x] = 0
  BY <1>1
<1>8. ReadTypes'
  BY <1>1, <1>4, <1>5, <1>6, <1>7, NFilesAssumption DEF ReadTypes
<1>9. Waiting' /\ Pieces' /\ Copying'
  BY <1>1, <1>6 DEF Waiting, Pieces, Copying
<1>10. Clipping'
  <2>1. it' \in DOMAIN areas' \cup {End}
    BY <1>1, <1>5
  <2>2. left' # 0 /\ mark' + left' = start' + num'
    BY <1>1, <1>4
  <2>3. it' # End => \A k \in DOMAIN areas' : k < it' => EndOf(areas', k) <= mark'
    <3>1. it' # End => \A k \in DOMAIN areas : ~(k < it')
      BY <1>1, <1>5, AreaFacts
    <3> QED
      BY <1>1, <3>1
  <2>4. start'..(mark' - 1) = {}
    BY <1>1, <1>4
  <2>5. it' = End => \A x \in DOMAIN buffer' : Taken(x)'
    BY <1>1, <1>5 DEF Taken
  <2> QED
    BY <1>6, <1>7, <2>1, <2>2, <2>3, <2>4, <2>5 DEF Clipping
<1> QED
  BY <1>2, <1>8, <1>9, <1>10 DEF ReadInv, Reader

LEMMA ReadAreaKeeps ==
    ASSUME ReadInv, NEW p \in DOMAIN areas, ReadArea(p)
    PROVE  ReadInv'
<1> DEFINE n == areas[p].len
<1>1. /\ phase = "done" /\ step' = "copy" /\ start' = p /\ num' = n
      /\ mark' = p /\ left' = 0 /\ before' = 0 /\ it' = p
      /\ pieces' = [q \in {p} |-> n]
      /\ buffer' = [x \in p..(EndOf(areas, p) - 1) |-> 0] /\ answer' = "none"
      /\ UNCHANGED vars /\ UNCHANGED <<areas, phase>>
  BY DEF ReadArea, vars
<1>2. Inv'
  BY <1>1, QueryStays
<1>3. p \in Nat /\ n \in Nat \ {0} /\ EndOf(areas, p) = p + n /\ p + n <= Reach
      /\ Reach \in Nat /\ p # End
  BY AreaFacts
<1> HIDE DEF n
<1>4. DOMAIN pieces' = {p} /\ pieces'[p] = n /\ DOMAIN buffer' = p..(p + n - 1)
  BY <1>1, <1>3
<1>5. \A x \in DOMAIN buffer' : buffer'[x] = 0
  BY <1>1
<1>6. ReadTypes'
  BY <1>1, <1>3, <1>4, <1>5, NFilesAssumption DEF ReadTypes
<1>7. Waiting' /\ Clipping'
  BY <1>1 DEF Waiting, Clipping
<1>8. Pieces'
  <2>1. EndOf(areas', p) = p + n /\ p \in DOMAIN areas'
    BY <1>1, <1>3
  <2> QED
    BY <1>1, <1>3, <1>4, <2>1 DEF Pieces
<1>9. Copying'
  <2>1. \A x \in start'..(start' + num' - 1) : InPiece(p, x)'
    BY <1>1, <1>3, <1>4 DEF InPiece
  <2>2. \A x \in DOMAIN buffer' : Taken(x)'
    <3>1. p \in DOMAIN pieces'
      BY <1>4
    <3> QED
      BY <1>1, <1>4, <2>1, <3>1 DEF Taken
  <2>3. ~Copied(p)'
    BY <1>1, <1>3 DEF Copied
  <2> QED
    BY <1>1, <1>4, <1>5, <2>2, <2>3 DEF Copying
<1> QED
  BY <1>2, <1>6, <1>7, <1>8, <1>9 DEF ReadInv, Reader

-----------------------------------------------------------------------------
(* Clipping.                                                               *)

LEMMA ClipFacts ==
    ASSUME ReadInv, step = "clip"
    PROVE  /\ phase = "done" /\ answer # "ok"
           /\ start \in Nat /\ num \in Nat /\ mark \in Nat /\ left \in Nat
           /\ start <= mark /\ mark <= start + num /\ left <= num
           /\ left # 0 => mark + left = start + num
           /\ left = 0 => it = End
           /\ it # End => /\ it \in DOMAIN areas
                          /\ \A k \in DOMAIN areas : k < it => EndOf(areas, k) <= mark
                          /\ \A s \in start..(mark - 1) : Taken(s)
           /\ it = End => \A s \in DOMAIN buffer : Taken(s)
           /\ DOMAIN buffer = start..(start + num - 1)
           /\ \A p \in DOMAIN pieces :
                 /\ p \in Nat /\ pieces[p] \in Nat \ {0}
                 /\ p + pieces[p] <= mark \/ \E k \in DOMAIN areas : Final(p, k)
<1>1. phase = "done" /\ answer # "ok"
  BY DEF ReadInv, Reader, Waiting
<1>2. /\ start \in Nat /\ num \in Nat /\ mark \in Nat /\ left \in Nat
      /\ start <= mark /\ mark <= start + num /\ left <= num
      /\ DOMAIN buffer = start..(start + num - 1)
  BY DEF ReadInv, Reader, ReadTypes
<1>3. \A p \in DOMAIN pieces : p \in Nat /\ pieces[p] \in Nat \ {0}
  BY DEF ReadInv, Reader, Pieces
<1> QED
  BY <1>1, <1>2, <1>3 DEF ReadInv, Reader, Clipping

\* The next area, or none.
LEMMA NextArea ==
    ASSUME ReadInv, NEW a \in DOMAIN areas
    PROVE  /\ NextKey(areas, a) \in DOMAIN areas \cup {End}
           /\ NextKey(areas, a) # End => a < NextKey(areas, a)
           /\ \A k \in DOMAIN areas :
                 \/ k <= a
                 \/ NextKey(areas, a) # End /\ NextKey(areas, a) <= k
<1>1. DOMAIN areas \subseteq Nat
  BY AreaFacts
<1>2. /\ NextKey(areas, a) = End => \A k \in DOMAIN areas : k <= a
      /\ NextKey(areas, a) # End => Next(areas, a, NextKey(areas, a))
  BY <1>1, KeyIs
<1> QED
  BY <1>1, <1>2 DEF Next

\* Only an area that reaches behind the mark has a sector behind it.
LEMMA ClipBehindKeeps == ASSUME ReadInv, ClipBehind PROVE ReadInv'
<1>1. /\ step = "clip" /\ it # End /\ it >= mark + left /\ left' = 0 /\ it' = End
      /\ UNCHANGED vars /\ UNCHANGED <<areas, phase>>
      /\ UNCHANGED <<step, start, num, mark, before, pieces, buffer, answer>>
  BY DEF ClipBehind, vars
<1>2. Inv'
  BY <1>1, QueryStays
<1>3. ReadTypes' /\ Waiting' /\ Pieces' /\ Copying'
  BY <1>1, ClipFacts
  DEF ReadInv, Reader, ReadTypes, Waiting, Pieces, Copying, EndOf
<1>4. left # 0 /\ it >= start + num
  BY <1>1, ClipFacts
<1>5. \A s \in DOMAIN buffer' : Taken(s)'
  <2>1. ASSUME NEW s \in DOMAIN buffer, NEW k \in DOMAIN areas, Covers(areas, k, s)
        PROVE  \E p \in DOMAIN pieces : InPiece(p, s)
    <3>1. s \in Nat /\ start <= s /\ s < start + num /\ k <= s /\ s < EndOf(areas, k)
      BY <1>1, <2>1, ClipFacts DEF Covers
    <3>2. k < it
      BY <1>1, <1>4, <3>1, ClipFacts, AreaFacts
    <3>3. s \in start..(mark - 1)
      <4>1. EndOf(areas, k) <= mark
        BY <1>1, <3>2, ClipFacts
      <4> QED
        BY <1>1, <3>1, <4>1, ClipFacts, AreaFacts
    <3>4. Taken(s)
      BY <1>1, <3>3, ClipFacts
    <3> QED
      BY <2>1, <3>4 DEF Taken
  <2> QED
    BY <1>1, <2>1 DEF Taken, Covers, InPiece, EndOf
<1>6. ASSUME NEW p \in DOMAIN pieces', p + pieces'[p] > mark'
      PROVE  \E k \in DOMAIN areas' : Final(p, k)'
  <2>1. p \in DOMAIN pieces /\ ~(p + pieces[p] <= mark)
    BY <1>1, <1>6, ClipFacts
  <2>2. PICK k \in DOMAIN areas : Final(p, k)
    BY <1>1, <2>1, ClipFacts
  <2>3. Final(p, k)'
    BY <1>1, <2>2 DEF Final, EndOf
  <2> QED
    BY <1>1, <2>3
<1>7. Clipping'
  <2>1. \A p \in DOMAIN pieces' :
           p + pieces'[p] <= mark' \/ \E k \in DOMAIN areas' : Final(p, k)'
    <3>1. \A p \in DOMAIN pieces' : p + pieces'[p] \in Nat /\ mark' \in Nat
      BY <1>1, ClipFacts
    <3> QED
      BY <1>6, <3>1
  <2>2. \A s \in DOMAIN buffer' : buffer'[s] = 0
    BY <1>1 DEF ReadInv, Reader, Clipping
  <2> QED
    BY <1>1, <1>5, <2>1, <2>2 DEF Clipping
<1> QED
  BY <1>2, <1>3, <1>7 DEF ReadInv, Reader

LEMMA ClipBeforeKeeps == ASSUME ReadInv, ClipBefore PROVE ReadInv'
<1>1. /\ step = "clip" /\ it # End /\ EndOf(areas, it) <= mark
      /\ it' = NextKey(areas, it)
      /\ UNCHANGED vars /\ UNCHANGED <<areas, phase>>
      /\ UNCHANGED <<step, start, num, mark, left, before, pieces, buffer, answer>>
  BY DEF ClipBefore, vars
<1>2. Inv'
  BY <1>1, QueryStays
<1>3. /\ it \in DOMAIN areas /\ it' \in DOMAIN areas \cup {End} /\ left # 0
      /\ it' # End => it < it'
      /\ \A k \in DOMAIN areas : k <= it \/ (it' # End /\ it' <= k)
  BY <1>1, ClipFacts, NextArea
<1>4. ReadTypes' /\ Waiting' /\ Pieces' /\ Copying'
  BY <1>1, <1>3, ClipFacts
  DEF ReadInv, Reader, ReadTypes, Waiting, Pieces, Copying, EndOf
<1>5. \A k \in DOMAIN areas : it' = End \/ k < it' => EndOf(areas, k) <= mark
  <2>1. ASSUME NEW k \in DOMAIN areas, it' = End \/ k < it' PROVE EndOf(areas, k) <= mark
    <3>1. it \in Nat /\ k \in Nat /\ (it' # End => it' \in Nat)
      BY <1>3, AreaFacts
    <3>2. k < it \/ k = it
      BY <1>3, <2>1, <3>1
    <3> QED
      BY <1>1, <3>2, ClipFacts
  <2> QED
    BY <2>1
<1>6. /\ it' # End => \A s \in start..(mark - 1) : Taken(s)'
      /\ it' = End => \A s \in DOMAIN buffer' : Taken(s)'
  <2>1. \A s \in start..(mark - 1) : Taken(s)'
    BY <1>1, ClipFacts DEF Taken, Covers, InPiece, EndOf
  <2>2. ASSUME it' = End, NEW s \in DOMAIN buffer, NEW k \in DOMAIN areas,
               Covers(areas, k, s)
        PROVE  s \in start..(mark - 1)
    <3>1. s \in Nat /\ start <= s /\ s < EndOf(areas, k)
      BY <1>1, <2>2, ClipFacts DEF Covers
    <3> QED
      BY <1>1, <1>5, <2>2, <3>1, ClipFacts, AreaFacts
  <2>3. it' = End => \A s \in DOMAIN buffer' : Taken(s)'
    BY <1>1, <2>1, <2>2 DEF Taken, Covers, EndOf
  <2> QED
    BY <2>1, <2>3
<1>7. ASSUME NEW p \in DOMAIN pieces, NEW k \in DOMAIN areas, Final(p, k)
      PROVE  Final(p, k)'
  <2>1. it <= k
    BY <1>1, <1>7 DEF Final
  <2>2. k # it
    <3>1. p \in Nat /\ pieces[p] \in Nat \ {0} /\ EndOf(areas, it) \in Nat /\ mark \in Nat
      BY <1>1, <1>3, <1>7, ClipFacts, AreaFacts
    <3>2. mark <= p /\ p + pieces[p] = start + num /\ start + num <= EndOf(areas, k)
      BY <1>7 DEF Final
    <3> QED
      BY <1>1, <3>1, <3>2, ClipFacts
  <2>3. it' # End => it' <= k
    BY <1>3, <1>7, <2>1, <2>2, AreaFacts
  <2> QED
    BY <1>1, <1>7, <2>3 DEF Final, EndOf
<1>8. Clipping'
  <2>1. \A p \in DOMAIN pieces' :
           p + pieces'[p] <= mark' \/ \E k \in DOMAIN areas' : Final(p, k)'
    BY <1>1, <1>7, ClipFacts
  <2>2. \A s \in DOMAIN buffer' : buffer'[s] = 0
    BY <1>1 DEF ReadInv, Reader, Clipping
  <2>3. /\ left' # 0 => mark' + left' = start' + num'
        /\ left' # 0
    BY <1>1, <1>3, ClipFacts
  <2>4. it' # End => \A k \in DOMAIN areas' : k < it' => EndOf(areas', k) <= mark'
    BY <1>1, <1>5 DEF EndOf
  <2>5. it' \in DOMAIN areas' \cup {End}
    BY <1>1, <1>3
  <2> QED
    BY <1>1, <1>6, <2>1, <2>2, <2>3, <2>4, <2>5 DEF Clipping
<1> QED
  BY <1>2, <1>4, <1>8 DEF ReadInv, Reader
\* The part of the area at it from a sector behind the mark to the sector e.
LEMMA NewPiece ==
    ASSUME ReadInv, step = "clip", it # End, NEW from \in Nat, NEW e \in Nat,
           mark <= from, it <= from, from < e, e <= EndOf(areas, it), e <= start + num,
           \A p \in DOMAIN pieces : p + pieces[p] <= mark,
           pieces' = Insert(pieces, from, e - from),
           UNCHANGED <<areas, start, num>>
    PROVE  /\ Pieces'
           /\ DOMAIN pieces' = DOMAIN pieces \cup {from}
           /\ pieces'[from] = e - from
           /\ \A p \in DOMAIN pieces : p # from /\ pieces'[p] = pieces[p]
<1>1. \A p \in DOMAIN pieces : p \in Nat /\ pieces[p] \in Nat \ {0} /\ p + pieces[p] <= from
  BY ClipFacts
<1>2. from \notin DOMAIN pieces
  BY <1>1
<1>3. /\ DOMAIN pieces' = DOMAIN pieces \cup {from}
      /\ pieces'[from] = e - from
      /\ \A p \in DOMAIN pieces : p # from /\ pieces'[p] = pieces[p]
  <2> DEFINE n == e - from
  <2>1. pieces' = Insert(pieces, from, n)
    OBVIOUS
  <2> HIDE DEF n
  <2>2. /\ DOMAIN pieces' = DOMAIN pieces \cup {from}
        /\ pieces'[from] = n
        /\ \A p \in DOMAIN pieces : p # from /\ pieces'[p] = pieces[p]
    BY <1>2, <2>1 DEF Insert
  <2> QED
    BY <2>2 DEF n
<1>4. e - from \in Nat \ {0} /\ from + (e - from) = e
  OBVIOUS
<1>5. \A k : EndOf(areas, k)' = EndOf(areas, k)
  BY DEF EndOf
<1>6. ASSUME NEW p \in DOMAIN pieces'
      PROVE  /\ p \in Nat /\ pieces'[p] \in Nat \ {0}
             /\ start' <= p /\ p + pieces'[p] <= start' + num'
             /\ \E k \in DOMAIN areas' : k <= p /\ p + pieces'[p] <= EndOf(areas, k)'
             /\ \A q \in DOMAIN pieces' : p < q => p + pieces'[p] <= q
  <2>1. CASE p = from
    <3>1. start <= from /\ it \in DOMAIN areas
      BY ClipFacts
    <3>2. \A q \in DOMAIN pieces' : ~(p < q)
      BY <1>1, <1>3, <2>1
    <3> QED
      BY <1>3, <1>4, <1>5, <2>1, <3>1, <3>2
  <2>2. CASE p \in DOMAIN pieces
    <3>1. pieces'[p] = pieces[p]
      BY <1>3, <2>2
    <3>2. \A q \in DOMAIN pieces' : p < q => p + pieces'[p] <= q
      BY <1>1, <1>3, <2>2, <3>1 DEF ReadInv, Reader, Pieces
    <3>3. /\ start <= p /\ p + pieces[p] <= start + num
          /\ \E k \in DOMAIN areas : k <= p /\ p + pieces[p] <= EndOf(areas, k)
      BY <2>2 DEF ReadInv, Reader, Pieces
    <3> QED
      BY <1>1, <1>5, <2>2, <3>1, <3>2, <3>3
  <2> QED
    BY <1>3, <2>1, <2>2
<1>7. Pieces'
  BY <1>6 DEF Pieces, EndOf
<1> QED
  BY <1>3, <1>7

\* What the pieces had, they have.
LEMMA StillTaken ==
    ASSUME NEW s, Taken(s), UNCHANGED areas, DOMAIN pieces \subseteq DOMAIN pieces',
           \A p \in DOMAIN pieces : pieces'[p] = pieces[p]
    PROVE  Taken(s)'
BY DEF Taken, Covers, InPiece, EndOf

LEMMA ClipLastKeeps == ASSUME ReadInv, ClipLast PROVE ReadInv'
<1> DEFINE from == Max({it, mark})
           e == start + num
<1>1. /\ step = "clip" /\ it # End /\ it < mark + left
      /\ EndOf(areas, it) > mark /\ EndOf(areas, it) >= mark + left
      /\ pieces' = Insert(pieces, from, mark + left - from) /\ it' = End
      /\ UNCHANGED vars /\ UNCHANGED <<areas, phase>>
      /\ UNCHANGED <<step, start, num, mark, left, before, buffer, answer>>
  BY DEF ClipLast, vars
<1>2. Inv'
  BY <1>1, QueryStays
<1>3. /\ it \in DOMAIN areas /\ it \in Nat /\ mark \in Nat /\ e \in Nat
      /\ left # 0 /\ mark + left = e /\ left \in Nat
      /\ EndOf(areas, it) \in Nat
  BY <1>1, ClipFacts, AreaFacts
<1>4. /\ from \in Nat /\ it <= from /\ mark <= from /\ (from = it \/ from = mark)
  BY <1>3, LargerIs
<1> HIDE DEF from
<1>5. from < e /\ e <= EndOf(areas, it)
  BY <1>1, <1>3, <1>4
<1> HIDE DEF e
<1>6. /\ Pieces' /\ from \in DOMAIN pieces' /\ from + pieces'[from] = e
      /\ DOMAIN pieces' = DOMAIN pieces \cup {from}
      /\ \A p \in DOMAIN pieces : pieces'[p] = pieces[p]
      /\ \A p \in DOMAIN pieces : p + pieces[p] <= mark \/ p = from
  <2>1. CASE \A p \in DOMAIN pieces : p + pieces[p] <= mark
    <3>1. pieces' = Insert(pieces, from, e - from)
      <4>1. mark + left - from = e - from
        BY <1>3, <1>4
      <4> QED
        BY <1>1, <4>1
    <3>4. e <= start + num
      BY <1>3 DEF e
    <3>2. /\ Pieces' /\ DOMAIN pieces' = DOMAIN pieces \cup {from}
          /\ pieces'[from] = e - from
          /\ \A p \in DOMAIN pieces : pieces'[p] = pieces[p]
      BY <1>1, <1>3, <1>4, <1>5, <2>1, <3>1, <3>4, NewPiece
    <3>3. from + (e - from) = e
      BY <1>3, <1>4
    <3> QED
      BY <2>1, <3>2, <3>3
  <2>2. CASE \E p \in DOMAIN pieces : ~(p + pieces[p] <= mark)
    <3>1. ASSUME NEW p \in DOMAIN pieces, ~(p + pieces[p] <= mark)
          PROVE  p = from /\ p + pieces[p] = e
      <4>1. PICK k \in DOMAIN areas : Final(p, k)
        BY <1>1, <3>1, ClipFacts
      <4>2. /\ p = mark \/ p = k
            /\ mark <= p /\ k <= p /\ p + pieces[p] = e /\ it <= k
            /\ \A j \in DOMAIN areas : j < k => EndOf(areas, j) <= mark
        BY <1>1, <4>1 DEF Final, e
      <4>3. k = it
        BY <1>1, <1>3, <4>2, AreaFacts
      <4> QED
        BY <1>3, <1>4, <4>2, <4>3, ClipFacts, <1>1
    <3>2. from \in DOMAIN pieces /\ from + pieces[from] = e
      BY <2>2, <3>1
    <3>3. DOMAIN pieces' = DOMAIN pieces /\ \A p \in DOMAIN pieces : pieces'[p] = pieces[p]
      <4> DEFINE n == mark + left - from
      <4>1. pieces' = Insert(pieces, from, n)
        BY <1>1
      <4> HIDE DEF n
      <4>2. /\ DOMAIN pieces' = DOMAIN pieces \cup {from}
            /\ \A p \in DOMAIN pieces : pieces'[p] = pieces[p]
        BY <4>1 DEF Insert
      <4> QED
        BY <3>2, <4>2
    <3>4. Pieces'
      BY <1>1, <3>3 DEF ReadInv, Reader, Pieces, EndOf
    <3> QED
      BY <3>1, <3>2, <3>3, <3>4
  <2> QED
    BY <2>1, <2>2
<1>7. ReadTypes' /\ Waiting' /\ Copying'
  BY <1>1, ClipFacts DEF ReadInv, Reader, ReadTypes, Waiting, Copying
<1>8. ASSUME NEW p \in DOMAIN pieces', NEW k \in DOMAIN areas, p = from, k = it
      PROVE  Final(p, k)'
  <2>1. \A j \in DOMAIN areas : j < k => EndOf(areas, j) <= mark
    BY <1>1, <1>8, ClipFacts
  <2>2. e = start + num /\ \A j : EndOf(areas', j) = EndOf(areas, j)
    BY <1>1 DEF e, EndOf
  <2>3. /\ p = mark \/ p = k
        /\ mark <= p /\ k <= p /\ p + pieces'[p] = e /\ e <= EndOf(areas, k)
    BY <1>4, <1>5, <1>6, <1>8
  <2> QED
    BY <1>1, <2>1, <2>2, <2>3 DEF Final
<1>9. \A s \in DOMAIN buffer' : Taken(s)'
  <2>1. ASSUME NEW s \in DOMAIN buffer, NEW k \in DOMAIN areas, Covers(areas, k, s)
        PROVE  Taken(s)'
    <3>1. s \in Nat /\ start <= s /\ s < e /\ k <= s /\ s < EndOf(areas, k)
      BY <1>1, <2>1, ClipFacts DEF Covers, e
    <3>2. CASE s < mark
      <4>1. Taken(s)
        BY <1>1, <1>3, <3>1, <3>2, ClipFacts
      <4> QED
        BY <1>1, <1>6, <4>1, StillTaken
    <3>3. CASE mark <= s
      <4>1. k = it
        <5>1. k \in Nat /\ EndOf(areas, k) \in Nat /\ phase = "done"
          BY <1>1, ClipFacts, AreaFacts
        <5>2. k < it => EndOf(areas, k) <= mark
          BY <1>1, ClipFacts
        <5>3. it < k => EndOf(areas, it) <= k
          BY <1>3, <5>1, AreaFacts
        <5> QED
          BY <1>3, <1>5, <3>1, <3>3, <5>1, <5>2, <5>3
      <4>2. from <= s /\ s < from + pieces'[from]
        BY <1>4, <1>6, <3>1, <3>3, <4>1
      <4> QED
        BY <1>6, <4>2 DEF Taken, InPiece
    <3> QED
      BY <1>3, <3>1, <3>2, <3>3
  <2> QED
    BY <1>1, <2>1 DEF Taken, Covers, EndOf
<1>10. Clipping'
  <2>1. \A p \in DOMAIN pieces' :
           p + pieces'[p] <= mark' \/ \E k \in DOMAIN areas' : Final(p, k)'
    <3>1. ASSUME NEW p \in DOMAIN pieces', ~(p + pieces'[p] <= mark')
          PROVE  p = from
      BY <1>1, <1>6, <3>1
    <3>2. ASSUME NEW p \in DOMAIN pieces', p = from
          PROVE  \E k \in DOMAIN areas' : Final(p, k)'
      BY <1>1, <1>3, <1>8, <3>2
    <3> QED
      BY <3>1, <3>2
  <2>2. \A s \in DOMAIN buffer' : buffer'[s] = 0
    BY <1>1 DEF ReadInv, Reader, Clipping
  <2>3. left' # 0 => mark' + left' = start' + num'
    BY <1>1, ClipFacts
  <2> QED
    BY <1>1, <1>9, <2>1, <2>2, <2>3 DEF Clipping
<1> QED
  BY <1>2, <1>6, <1>7, <1>10 DEF ReadInv, Reader

LEMMA ClipInsideKeeps == ASSUME ReadInv, ClipInside PROVE ReadInv'
<1> DEFINE from == Max({it, mark})
           e == EndOf(areas, it)
<1>1. /\ step = "clip" /\ it # End /\ e > mark /\ e < mark + left
      /\ pieces' = Insert(pieces, from, e - from)
      /\ left' = mark + left - e /\ mark' = e /\ it' = NextKey(areas, it)
      /\ UNCHANGED vars /\ UNCHANGED <<areas, phase>>
      /\ UNCHANGED <<step, start, num, before, buffer, answer>>
  BY DEF ClipInside, vars
<1>2. Inv'
  BY <1>1, QueryStays
<1>3. /\ it \in DOMAIN areas /\ it \in Nat /\ mark \in Nat /\ e \in Nat
      /\ left # 0 /\ mark + left = start + num /\ left \in Nat
      /\ start \in Nat /\ num \in Nat /\ start <= mark /\ it < e
      /\ phase = "done"
  <2>1. it \in DOMAIN areas /\ left # 0 /\ phase = "done"
    BY <1>1, ClipFacts
  <2>2. e = it + areas[it].len /\ e \in Nat /\ it \in Nat /\ areas[it].len \in Nat \ {0}
    BY <2>1, AreaFacts
  <2>3. it < e
    BY <2>2
  <2> QED
    BY <1>1, <2>1, <2>2, <2>3, ClipFacts
<1>4. /\ from \in Nat /\ it <= from /\ mark <= from /\ (from = it \/ from = mark)
  BY <1>3, LargerIs
<1>5. \A k : EndOf(areas, k)' = EndOf(areas, k)
  BY <1>1 DEF EndOf
<1> HIDE DEF from, e
<1>6. from < e /\ e < start + num
  BY <1>1, <1>3, <1>4
<1>7. \A p \in DOMAIN pieces : p + pieces[p] <= mark
  <2>1. ASSUME NEW p \in DOMAIN pieces, NEW k \in DOMAIN areas, Final(p, k) PROVE FALSE
    <3>1. it <= k /\ start + num <= EndOf(areas, k) /\ p + pieces[p] = start + num
          /\ \A j \in DOMAIN areas : j < k => EndOf(areas, j) <= mark
      BY <1>1, <2>1 DEF Final
    <3>2. k = it
      BY <1>1, <1>3, <3>1, AreaFacts DEF e
    <3> QED
      BY <1>3, <1>6, <3>1, <3>2 DEF e
  <2> QED
    BY <1>1, <2>1, ClipFacts
<1>8. /\ Pieces' /\ DOMAIN pieces' = DOMAIN pieces \cup {from}
      /\ pieces'[from] = e - from
      /\ \A p \in DOMAIN pieces : p # from /\ pieces'[p] = pieces[p]
  <2>1. e <= EndOf(areas, it) /\ e <= start + num
    BY <1>3, <1>6 DEF e
  <2> QED
    BY <1>1, <1>3, <1>4, <1>6, <1>7, <2>1, NewPiece
<1>9. /\ it' \in DOMAIN areas \cup {End}
      /\ it' # End => it < it'
      /\ \A k \in DOMAIN areas : k <= it \/ (it' # End /\ it' <= k)
  BY <1>1, <1>3, NextArea
<1>10. left' \in Nat /\ left' # 0 /\ left' <= num /\ mark' + left' = start + num
       /\ mark' \in start..(start + num)
  BY <1>1, <1>3, <1>6
<1>11. ReadTypes' /\ Waiting' /\ Copying'
  <2>1. left' \in 0..num
    BY <1>3, <1>10
  <2>2. it' \in DOMAIN areas' \cup DOMAIN pieces' \cup {End}
    BY <1>1, <1>9
  <2>3. ReadTypes'
    BY <1>1, <1>10, <2>1, <2>2 DEF ReadInv, Reader, ReadTypes
  <2>4. Waiting' /\ Copying'
    BY <1>1, <1>3, ClipFacts DEF Waiting, Copying
  <2> QED
    BY <2>3, <2>4
<1>12. \A k \in DOMAIN areas : it' = End \/ k < it' => EndOf(areas, k) <= e
  <2>1. ASSUME NEW k \in DOMAIN areas, it' = End \/ k < it' PROVE EndOf(areas, k) <= e
    <3>1. k \in Nat /\ EndOf(areas, k) \in Nat /\ (it' # End => it' \in Nat)
      BY <1>9, AreaFacts
    <3>2. k < it \/ k = it
      BY <1>3, <1>9, <2>1, <3>1
    <3>3. k < it => EndOf(areas, k) <= mark
      BY <1>1, ClipFacts
    <3> QED
      BY <1>1, <1>3, <3>1, <3>2, <3>3 DEF e
  <2> QED
    BY <2>1
<1>13. \A s \in start..(e - 1) : Taken(s)'
  <2>1. ASSUME NEW s \in start..(e - 1), NEW k \in DOMAIN areas, Covers(areas, k, s)
        PROVE  Taken(s)'
    <3>1. s \in Nat /\ start <= s /\ s < e /\ k <= s /\ s < EndOf(areas, k)
      BY <1>3, <2>1 DEF Covers
    <3>2. CASE s < mark
      <4>1. Taken(s)
        BY <1>1, <1>3, <3>1, <3>2, ClipFacts
      <4> QED
        BY <1>1, <1>8, <4>1, StillTaken
    <3>3. CASE mark <= s
      <4>1. k = it
        <5>1. k \in Nat /\ EndOf(areas, k) \in Nat
          BY AreaFacts
        <5>2. k < it => EndOf(areas, k) <= mark
          BY <1>1, ClipFacts
        <5>3. it < k => e <= k
          BY <1>3, <5>1, AreaFacts DEF e
        <5> QED
          BY <1>3, <3>1, <3>3, <5>1, <5>2, <5>3
      <4>2. from <= s /\ s < from + pieces'[from]
        <5>1. from <= s /\ from + (e - from) = e
          BY <1>3, <1>4, <3>1, <3>3, <4>1
        <5> QED
          BY <1>8, <3>1, <5>1
      <4> QED
        BY <1>8, <4>2 DEF Taken, InPiece
    <3> QED
      BY <1>3, <3>1, <3>2, <3>3
  <2> QED
    BY <1>1, <2>1 DEF Taken, Covers, EndOf
<1>14. it' = End => \A s \in DOMAIN buffer' : Taken(s)'
  <2>1. ASSUME it' = End, NEW s \in DOMAIN buffer, NEW k \in DOMAIN areas,
               Covers(areas, k, s)
        PROVE  s \in start..(e - 1)
    <3>1. s \in Nat /\ start <= s /\ s < EndOf(areas, k) /\ EndOf(areas, k) \in Nat
      BY <1>1, <2>1, ClipFacts, AreaFacts DEF Covers
    <3> QED
      BY <1>3, <1>12, <2>1, <3>1
  <2> QED
    BY <1>1, <1>13, <2>1 DEF Taken, Covers, EndOf
<1>15. \A p \in DOMAIN pieces' : p + pieces'[p] <= mark'
  <2>1. ASSUME NEW p \in DOMAIN pieces PROVE p + pieces'[p] <= e
    <3>1. p \in Nat /\ pieces[p] \in Nat /\ pieces'[p] = pieces[p] /\ p + pieces[p] <= mark
      BY <1>1, <1>7, <1>8, ClipFacts
    <3> QED
      BY <1>1, <1>3, <3>1
  <2>2. from + pieces'[from] <= e
    BY <1>3, <1>4, <1>8
  <2> QED
    BY <1>1, <1>8, <2>1, <2>2
<1>16. Clipping'
  <2>1. \A s \in DOMAIN buffer' : buffer'[s] = 0
    BY <1>1 DEF ReadInv, Reader, Clipping
  <2>2. it' # End => \A k \in DOMAIN areas' : k < it' => EndOf(areas, k)' <= mark'
    BY <1>1, <1>5, <1>12
  <2>3. it' # End => \A s \in start'..(mark' - 1) : Taken(s)'
    BY <1>1, <1>13
  <2> QED
    BY <1>1, <1>9, <1>10, <1>14, <1>15, <2>1, <2>2, <2>3 DEF Clipping
<1> QED
  BY <1>2, <1>8, <1>11, <1>16 DEF ReadInv, Reader

LEMMA ClipTurnKeeps == ASSUME ReadInv, ClipTurn PROVE ReadInv'
<1>1. /\ step = "clip" /\ it = End
      /\ UNCHANGED vars /\ UNCHANGED <<areas, phase>>
      /\ UNCHANGED <<start, num, mark, left, pieces, buffer, answer>>
      /\ \/ step' = "copy" /\ it' = Begin(pieces) /\ before' = before
         \/ left # 0 /\ before' = left /\ it' = Begin(areas) /\ step' = "clip"
  BY DEF ClipTurn, vars
<1>2. Inv'
  BY <1>1, QueryStays
<1>3. /\ phase = "done" /\ answer # "ok" /\ \A s \in DOMAIN buffer : Taken(s)
      /\ \A s \in DOMAIN buffer : buffer[s] = 0
  BY <1>1, ClipFacts DEF ReadInv, Reader, Clipping
<1>4. \A s \in DOMAIN buffer : Taken(s)'
  BY <1>1, <1>3, StillTaken
<1>5. DOMAIN pieces \subseteq Nat /\ DOMAIN areas \subseteq Nat
  BY AreaFacts DEF ReadInv, Reader, Pieces
<1>6. Waiting' /\ Pieces'
  BY <1>1, <1>3 DEF ReadInv, Reader, Waiting, Pieces, EndOf
<1>7. CASE step' = "copy" /\ it' = Begin(pieces) /\ before' = before
  <2>1. /\ it' \in DOMAIN pieces \cup {End}
        /\ it' = End => DOMAIN pieces = {}
        /\ it' # End => \A p \in DOMAIN pieces : it' <= p
    BY <1>5, <1>7, KeyIs
  <2>2. ReadTypes'
    BY <1>1, <1>7, <2>1 DEF ReadInv, Reader, ReadTypes
  <2>3. ASSUME NEW p \in DOMAIN pieces PROVE ~Copied(p)'
    <3>1. it' # End /\ it' <= p /\ it' \in Nat /\ p \in Nat
      BY <1>5, <2>1, <2>3
    <3> QED
      BY <3>1 DEF Copied
  <2>4. Copying'
    BY <1>1, <1>3, <1>4, <2>1, <2>3 DEF Copying
  <2>5. Clipping'
    BY <1>7 DEF Clipping
  <2> QED
    BY <1>2, <1>6, <2>2, <2>4, <2>5 DEF ReadInv, Reader
<1>8. CASE left # 0 /\ before' = left /\ it' = Begin(areas) /\ step' = "clip"
  <2>1. /\ it' \in DOMAIN areas \cup {End}
        /\ it' # End => \A k \in DOMAIN areas : it' <= k
    BY <1>5, <1>8, KeyIs
  <2>2. ReadTypes'
    BY <1>1, <1>8, <2>1 DEF ReadInv, Reader, ReadTypes
  <2>3. Copying'
    BY <1>1, <1>3, <1>8 DEF Copying
  <2>4. it' # End => \A k \in DOMAIN areas : ~(k < it')
    BY <1>5, <2>1
  <2>5. \A s \in start..(mark - 1) : s \in DOMAIN buffer
    BY <1>1, ClipFacts
  <2>6. ASSUME NEW p \in DOMAIN pieces, NEW k \in DOMAIN areas, Final(p, k)
        PROVE  Final(p, k)'
    BY <1>1, <2>1, <2>6 DEF Final, EndOf
  <2>7. \A p \in DOMAIN pieces' :
           p + pieces'[p] <= mark' \/ \E k \in DOMAIN areas' : Final(p, k)'
    BY <1>1, <2>6, ClipFacts
  <2>8. left' # 0 /\ mark' + left' = start' + num'
    BY <1>1, <1>8, ClipFacts
  <2>9. /\ it' # End => \A k \in DOMAIN areas' : k < it' => EndOf(areas', k) <= mark'
        /\ \A s \in start'..(mark' - 1) : Taken(s)'
    BY <1>1, <1>4, <2>4, <2>5
  <2>10. Clipping'
    BY <1>1, <1>3, <1>4, <2>1, <2>7, <2>8, <2>9 DEF Clipping
  <2> QED
    BY <1>2, <1>6, <2>2, <2>3, <2>10 DEF ReadInv, Reader
<1> QED
  BY <1>1, <1>7, <1>8
-----------------------------------------------------------------------------
(* Copying.                                                                *)

\* Two pieces have no sector in common.
LEMMA OnePiece ==
    ASSUME ReadInv, NEW p \in DOMAIN pieces, NEW q \in DOMAIN pieces,
           NEW s \in Nat, InPiece(p, s), InPiece(q, s)
    PROVE  p = q
<1>1. /\ p \in Nat /\ q \in Nat /\ pieces[p] \in Nat /\ pieces[q] \in Nat
      /\ p < q => p + pieces[p] <= q
      /\ q < p => q + pieces[q] <= p
  BY DEF ReadInv, Reader, Pieces
<1> QED
  BY <1>1 DEF InPiece

LEMMA ServersStay ==
    ASSUME UNCHANGED held
    PROVE  \A s : /\ Server(s)' = Server(s)
                  /\ \A f : Holds(f, s)' <=> Holds(f, s)
BY DEF Server, Allocated, Holds

LEMMA ServerIn == \A s : Server(s) \subseteq 0..NFiles
BY NFilesAssumption DEF Server, Files

LEMMA CopyPieceKeeps == ASSUME ReadInv, CopyPiece PROVE ReadInv'
<1>1. /\ step = "copy" /\ it # End /\ it' = NextKey(pieces, it)
      /\ UNCHANGED vars /\ UNCHANGED <<held, areas, phase>>
      /\ UNCHANGED <<step, start, num, mark, left, before, pieces, answer>>
  BY DEF CopyPiece, vars
<1>2. Inv'
  BY <1>1, QueryStays
<1>3. /\ it \in DOMAIN pieces /\ DOMAIN pieces \subseteq Nat /\ phase = "done" /\ answer # "ok"
      /\ pieces[it] \in Nat
      /\ DOMAIN buffer = start..(start + num - 1) /\ start \in Nat /\ num \in Nat
  BY <1>1 DEF ReadInv, Reader, ReadTypes, Waiting, Pieces, Copying
<1>4. PICK q \in DOMAIN pieces : q = it
  BY <1>3
<1>5. /\ \A f \in Server(q) : \A s \in q..(q + pieces[q] - 1) : Holds(f, s)
      /\ buffer' = [s \in DOMAIN buffer |->
                       IF s \in q..(q + pieces[q] - 1) /\ Server(q) # {}
                         THEN CHOOSE f \in Server(q) : TRUE
                         ELSE buffer[s]]
  BY <1>4 DEF CopyPiece
<1>6. \A s \in Nat : s \in q..(q + pieces[q] - 1) <=> InPiece(q, s)
  BY <1>3, <1>4 DEF InPiece
<1>7. DOMAIN buffer' = DOMAIN buffer /\ \A s \in DOMAIN buffer : s \in Nat
  BY <1>3, <1>5
<1>8. ASSUME NEW s \in DOMAIN buffer
      PROVE  /\ ~InPiece(q, s) => buffer'[s] = buffer[s]
             /\ InPiece(q, s) /\ Server(q) = {} => buffer'[s] = buffer[s]
             /\ InPiece(q, s) /\ Server(q) # {} => buffer'[s] \in Server(q)
  <2>1. buffer'[s] = IF InPiece(q, s) /\ Server(q) # {}
                       THEN CHOOSE f \in Server(q) : TRUE
                       ELSE buffer[s]
    BY <1>5, <1>6, <1>7
  <2> QED
    BY <2>1
<1>9. /\ it' \in DOMAIN pieces \cup {End}
      /\ \A p \in DOMAIN pieces : Copied(p)' <=> p < q \/ p = q
  <2>1. /\ NextKey(pieces, q) = End => \A k \in DOMAIN pieces : k <= q
        /\ NextKey(pieces, q) # End => Next(pieces, q, NextKey(pieces, q))
    BY <1>3, KeyIs
  <2>2. it' = NextKey(pieces, q)
    BY <1>1, <1>4
  <2>3. ASSUME NEW p \in DOMAIN pieces
        PROVE  it' = End \/ p < it' <=> p < q \/ p = q
    <3>1. p \in Nat /\ q \in Nat
      BY <1>3
    <3>2. CASE it' = End
      BY <2>1, <2>2, <3>1, <3>2
    <3>3. CASE it' # End
      <4>1. it' \in DOMAIN pieces /\ q < it' /\ (p <= q \/ it' <= p)
        BY <2>1, <2>2, <3>3 DEF Next
      <4> QED
        BY <1>3, <3>1, <3>3, <4>1
    <3> QED
      BY <3>2, <3>3
  <2> QED
    BY <2>1, <2>2, <2>3 DEF Next, Copied
<1>10. \A p \in DOMAIN pieces : Copied(p) <=> p < q
  BY <1>1, <1>4 DEF Copied
<1>11. \A p, s : InPiece(p, s)' <=> InPiece(p, s)
  BY <1>1 DEF InPiece
<1>12. ASSUME NEW s \in DOMAIN buffer, NEW p \in DOMAIN pieces, Copied(p)', InPiece(p, s)
       PROVE  Served(p, s)'
  <2>1. Server(p)' = Server(p) /\ \A f : Holds(f, s)' <=> Holds(f, s)
    BY <1>1, ServersStay
  <2>2. SUFFICES IF Server(p) = {} THEN buffer'[s] = 0
                    ELSE buffer'[s] \in Server(p) /\ \A f \in Server(p) : Holds(f, s)
    BY <2>1 DEF Served
  <2>3. CASE p = q
    <3>1. CASE Server(p) # {}
      BY <1>5, <1>6, <1>7, <1>8, <1>12, <2>3, <3>1
    <3>2. CASE Server(p) = {}
      <4>1. ASSUME NEW r \in DOMAIN pieces, Copied(r), InPiece(r, s) PROVE FALSE
        <5>1. r = q
          BY <1>7, <1>12, <2>3, <4>1, OnePiece
        <5> QED
          BY <1>3, <1>10, <4>1, <5>1
      <4>2. buffer[s] = 0
        BY <1>1, <4>1 DEF ReadInv, Reader, Copying
      <4> QED
        BY <1>8, <1>12, <2>3, <3>2, <4>2
    <3> QED
      BY <3>1, <3>2
  <2>4. CASE p # q
    <3>1. Copied(p)
      BY <1>9, <1>10, <1>12, <2>4
    <3>2. Served(p, s)
      BY <1>1, <1>12, <3>1 DEF ReadInv, Reader, Copying
    <3>3. ~InPiece(q, s)
      BY <1>7, <1>12, <2>4, OnePiece
    <3> QED
      BY <1>8, <3>2, <3>3 DEF Served
  <2> QED
    BY <2>3, <2>4
<1>13. ASSUME NEW s \in DOMAIN buffer, \A p \in DOMAIN pieces : Copied(p)' => ~InPiece(p, s)
       PROVE  buffer'[s] = 0
  <2>1. ~InPiece(q, s) /\ \A p \in DOMAIN pieces : Copied(p) => ~InPiece(p, s)
    BY <1>9, <1>10, <1>13
  <2>2. buffer[s] = 0
    BY <1>1, <2>1 DEF ReadInv, Reader, Copying
  <2> QED
    BY <1>8, <2>1, <2>2
<1>14. \A s \in DOMAIN buffer : Taken(s)'
  BY <1>1, StillTaken DEF ReadInv, Reader, Copying
<1>15. Copying'
  <2>1. \A s \in DOMAIN buffer' :
           /\ Taken(s)'
           /\ \A p \in DOMAIN pieces' : Copied(p)' /\ InPiece(p, s)' => Served(p, s)'
           /\ (\A p \in DOMAIN pieces' : Copied(p)' => ~InPiece(p, s)') => buffer'[s] = 0
    BY <1>1, <1>7, <1>11, <1>12, <1>13, <1>14
  <2>2. it' \in DOMAIN pieces' \cup {End}
    BY <1>1, <1>9
  <2> QED
    BY <2>1, <2>2 DEF Copying
<1>16. ReadTypes'
  <2>1. \A s \in DOMAIN buffer' : buffer'[s] \in 0..NFiles
    BY <1>7, <1>8, ServerIn DEF ReadInv, Reader, ReadTypes
  <2> QED
    BY <1>1, <1>7, <1>9, <2>1 DEF ReadInv, Reader, ReadTypes
<1>17. Waiting' /\ Pieces' /\ Clipping'
  BY <1>1, <1>3 DEF ReadInv, Reader, Waiting, Pieces, Clipping, EndOf
<1> QED
  BY <1>2, <1>15, <1>16, <1>17 DEF ReadInv, Reader

LEMMA CopyFailsKeeps == ASSUME ReadInv, CopyFails PROVE ReadInv'
<1>1. /\ step = "copy" /\ step' = "idle" /\ answer' = "failed"
      /\ UNCHANGED vars /\ UNCHANGED <<areas, phase>>
      /\ UNCHANGED <<start, num, mark, left, before, it, pieces, buffer>>
  BY DEF CopyFails, vars
<1>2. Inv'
  BY <1>1, QueryStays
<1> QED
  BY <1>1, <1>2
  DEF ReadInv, Reader, ReadTypes, Waiting, Pieces, Clipping, Copying, EndOf

LEMMA CopyDoneKeeps == ASSUME ReadInv, CopyDone PROVE ReadInv'
<1>1. /\ step = "copy" /\ it = End /\ step' = "idle" /\ answer' = "ok"
      /\ UNCHANGED vars /\ UNCHANGED <<held, areas, phase>>
      /\ UNCHANGED <<start, num, mark, left, before, it, pieces, buffer>>
  BY DEF CopyDone, vars
<1>2. Inv'
  BY <1>1, QueryStays
<1>3. ReadTypes' /\ Waiting' /\ Pieces' /\ Clipping'
  BY <1>1 DEF ReadInv, Reader, ReadTypes, Waiting, Pieces, Clipping, EndOf
<1>4. Copying'
  <2>1. \A p, s : /\ Served(p, s)' <=> Served(p, s)
                  /\ InPiece(p, s)' <=> InPiece(p, s)
                  /\ Copied(p)' <=> Copied(p)
                  /\ Taken(s)' <=> Taken(s)
    BY <1>1, ServersStay DEF Served, InPiece, Copied, Taken, Covers, EndOf
  <2> QED
    BY <1>1, <2>1 DEF ReadInv, Reader, Copying
<1> QED
  BY <1>2, <1>3, <1>4 DEF ReadInv, Reader

-----------------------------------------------------------------------------
(* Every step.                                                             *)

LEMMA ReadStepInv == ReadInv /\ [ReadNext]_allVars => ReadInv'
<1> SUFFICES ASSUME ReadInv, [ReadNext]_allVars PROVE ReadInv'
  OBVIOUS
<1>1. CASE Opening
  BY <1>1, OpeningKeeps
<1>2. CASE \E s \in 0..(DiskSectors - 1) : \E n \in 1..(DiskSectors - s) : ReadBegin(s, n)
  BY <1>2, ReadBeginKeeps
<1>3. CASE \E p \in DOMAIN areas : ReadArea(p)
  BY <1>3, ReadAreaKeeps
<1>4. CASE Reading
  BY <1>4, ClipBehindKeeps, ClipBeforeKeeps, ClipLastKeeps, ClipInsideKeeps, ClipTurnKeeps,
     CopyPieceKeeps, CopyFailsKeeps, CopyDoneKeeps DEF Reading
<1>5. CASE UNCHANGED allVars
  <2>1. /\ UNCHANGED vars /\ UNCHANGED <<held, areas, phase>>
        /\ UNCHANGED <<step, start, num, mark, left, before, it, pieces, buffer, answer>>
    BY <1>5 DEF allVars, vars, readVars
  <2>2. Inv'
    BY <2>1, QueryStays
  <2>3. \A p, s : /\ Served(p, s)' <=> Served(p, s)
                  /\ InPiece(p, s)' <=> InPiece(p, s)
                  /\ Copied(p)' <=> Copied(p)
                  /\ Taken(s)' <=> Taken(s)
    BY <2>1, ServersStay DEF Served, InPiece, Copied, Taken, Covers, EndOf
  <2>4. \A p, k : Final(p, k)' <=> Final(p, k)
    BY <2>1 DEF Final, EndOf
  <2>5. ReadTypes' /\ Waiting' /\ Pieces'
    BY <2>1 DEF ReadInv, Reader, ReadTypes, Waiting, Pieces, EndOf
  <2>6. Clipping'
    BY <2>1, <2>3, <2>4 DEF ReadInv, Reader, Clipping, EndOf
  <2>7. Copying'
    BY <2>1, <2>3 DEF ReadInv, Reader, Copying
  <2> QED
    BY <2>2, <2>5, <2>6, <2>7 DEF ReadInv, Reader
<1> QED
  BY <1>1, <1>2, <1>3, <1>4, <1>5 DEF ReadNext

LEMMA ReadInvHolds == ReadSpec => []ReadInv
BY ReadInitInv, ReadStepInv, PTL DEF ReadSpec
-----------------------------------------------------------------------------
(* What they keep means.                                                   *)

LEMMA GreatestFile ==
    ASSUME NEW T \in SUBSET Files, T # {}
    PROVE  Max(T) \in T /\ \A g \in T : g <= Max(T)
<1> DEFINE U == {NFiles - f : f \in T}
<1>1. NFiles \in Nat /\ \A f \in T : f \in Nat /\ f <= NFiles
  BY NFilesAssumption DEF Files
<1>2. U \in SUBSET Nat /\ U # {}
  BY <1>1
<1>3. PICK m \in U : \A k \in U : m <= k
  BY <1>2, Smallest
<1>4. PICK f \in T : m = NFiles - f
  BY <1>3
<1>5. \A g \in T : f >= g
  <2>1. ASSUME NEW g \in T PROVE f >= g
    <3>1. NFiles - f <= NFiles - g
      BY <1>3, <1>4
    <3> QED
      BY <1>1, <3>1
  <2> QED
    BY <2>1
<1>6. Max(T) \in T /\ \A g \in T : Max(T) >= g
  BY <1>4, <1>5 DEF Max
<1> QED
  BY <1>1, <1>6

\* The only one who owns a sector is the newest file that has it.
LEMMA OwnerIsNewest ==
    ASSUME ReadInv, AreasExact, phase = "done", NEW x \in Nat, x < Reach
    PROVE  /\ \A k \in DOMAIN areas : Covers(areas, k, x) =>
                 /\ Holds(areas[k].file, x)
                 /\ \A g \in Files : Holds(g, x) => g <= areas[k].file
           /\ (\A k \in DOMAIN areas : ~Covers(areas, k, x)) => \A g \in Files : ~Holds(g, x)
<1> DEFINE T == {f \in Files : Holds(f, x)}
<1>1. x \in Sectors /\ Owners(x) = Newest(x, NFiles)
  BY AreaFacts DEF AreasExact, AtRest, Settled, Sectors
<1>2. Newest(x, NFiles) = IF T = {} THEN {} ELSE {Max(T)}
  BY DEF Newest, Files
<1>3. T # {} => Max(T) \in T /\ \A g \in T : g <= Max(T)
  BY GreatestFile
<1>4. ASSUME NEW k \in DOMAIN areas, Covers(areas, k, x)
      PROVE  T # {} /\ areas[k].file = Max(T)
  <2>1. areas[k].file \in Owners(x)
    BY <1>4 DEF Owners
  <2> QED
    BY <1>1, <1>2, <2>1
<1>5. (\A k \in DOMAIN areas : ~Covers(areas, k, x)) => Owners(x) = {}
  BY DEF Owners
<1>6. ASSUME NEW k \in DOMAIN areas, Covers(areas, k, x)
      PROVE  /\ Holds(areas[k].file, x)
             /\ \A g \in Files : Holds(g, x) => g <= areas[k].file
  BY <1>3, <1>4, <1>6
<1>7. (\A k \in DOMAIN areas : ~Covers(areas, k, x)) => T = {}
  BY <1>1, <1>2, <1>5
<1> QED
  BY <1>6, <1>7

\* A file that has allocated the cluster of a sector has the first sector of
\* that cluster.
LEMMA AllocatedIs ==
    ASSUME ReadInv, NEW g \in Files, NEW s \in Nat, Allocated(g, s)
    PROVE  \E b \in Nat :
              /\ b <= s /\ Holds(g, b)
              /\ \A x \in Nat : b <= x /\ x <= s => Allocated(g, x)
<1> DEFINE n == ClusterSectors[g]
           c == s \div n
           b == c * n
<1>1. n \in Nat \ {0}
  BY Counts
<1>2. c \in Nat /\ s % n \in 0..(n - 1) /\ s = b + (s % n)
  BY <1>1, ClusterOf
<1>3. b \in Nat
  BY <1>1, <1>2
<1>4. c \in Clusters(g) /\ held[g][c] # 0
  BY DEF Allocated
<1>5. held[g][c] \in Nat
  <2>1. held[g] \in [Clusters(g) -> 0..ClusterSectors[g]]
    BY DEF ReadInv, Inv, StateTypes, Contents
  <2>2. 0..ClusterSectors[g] \subseteq Nat
    OBVIOUS
  <2> HIDE DEF c, n
  <2> QED
    BY <1>4, <2>1, <2>2
<1>6. b <= s /\ s < b + n
  <2> HIDE DEF b, n, c
  <2>1. \A r \in 0..(n - 1) : s = b + r => b <= s /\ s < b + n
    BY <1>1, <1>3
  <2> QED
    BY <1>2, <2>1
<1>7. Holds(g, b)
  <2>1. b <= b /\ b < b + n /\ b - b < held[g][c]
    <3> HIDE DEF b, n, c
    <3> QED
      BY <1>1, <1>3, <1>4, <1>5
  <2>2. Holds(g, b) <=> c \in Clusters(g) /\ b - b < held[g][c]
    BY <1>2, <1>3, <2>1, HoldsIs
  <2> QED
    BY <1>4, <2>1, <2>2
<1>8. ASSUME NEW x \in Nat, b <= x, x <= s PROVE Allocated(g, x)
  <2>1. x < b + n
    <3> HIDE DEF b, n
    <3> QED
      BY <1>1, <1>3, <1>6, <1>8
  <2>2. x \div n = c
    BY <1>1, <1>2, <1>8, <2>1, ClusterOf
  <2> QED
    BY <1>4, <2>2 DEF Allocated
<1> QED
  BY <1>3, <1>6, <1>7, <1>8

LEMMA HoldsAllocated == \A f \in Files, x \in Nat : Holds(f, x) => Allocated(f, x)
<1> SUFFICES ASSUME NEW f \in Files, NEW x \in Nat, Holds(f, x) PROVE Allocated(f, x)
  OBVIOUS
<1> DEFINE n == ClusterSectors[f]
<1>1. x % n \in 0..(n - 1)
  BY Counts, ClusterOf
<1>2. x \div n \in Clusters(f) /\ x % n < held[f][x \div n]
  BY DEF Holds
<1> HIDE DEF n
<1>3. \A r \in 0..(n - 1) : r < held[f][x \div n] => held[f][x \div n] # 0
  OBVIOUS
<1>4. held[f][x \div n] # 0
  BY <1>1, <1>2, <1>3
<1> QED
  BY <1>2, <1>4 DEF Allocated, n

LEMMA ExactWhere == ReadInv /\ AreasExact => ReadExact
<1> SUFFICES ASSUME ReadInv, AreasExact, answer = "ok",
                    NEW s \in start..(start + num - 1)
             PROVE  buffer[s] = Source(s)
  BY DEF ReadExact
<1>1. /\ phase = "done" /\ it = End /\ s \in DOMAIN buffer /\ s \in Nat /\ s < Reach
      /\ start \in Nat /\ num \in Nat /\ start + num <= Reach
      /\ DOMAIN buffer = start..(start + num - 1)
  BY AreaFacts DEF ReadInv, Reader, ReadTypes, Waiting
<1>2. /\ Taken(s)
      /\ \A x \in DOMAIN buffer, p \in DOMAIN pieces : InPiece(p, x) => Served(p, x)
      /\ (\A p \in DOMAIN pieces : ~InPiece(p, s)) => buffer[s] = 0
  BY <1>1 DEF ReadInv, Reader, Copying, Copied
<1> DEFINE A(x) == {f \in Files : Allocated(f, x)}
<1>3. \A x : A(x) # {} => Max(A(x)) \in A(x) /\ \A g \in A(x) : g <= Max(A(x))
  BY GreatestFile
<1>4. Source(s) = IF A(s) # {} /\ Holds(Max(A(s)), s) THEN Max(A(s)) ELSE 0
  BY DEF Source
<1>5. \A f \in Files, x \in Nat : Holds(f, x) => Allocated(f, x)
  BY HoldsAllocated
<1>6. \A p \in DOMAIN pieces : InPiece(p, s) => p \in DOMAIN buffer /\ InPiece(p, p) /\ p <= s
  <2>1. ASSUME NEW p \in DOMAIN pieces, InPiece(p, s)
        PROVE  p \in DOMAIN buffer /\ InPiece(p, p) /\ p <= s
    <3>1. p \in Nat /\ pieces[p] \in Nat \ {0} /\ start <= p
      BY <2>1 DEF ReadInv, Reader, Pieces
    <3> QED
      BY <1>1, <2>1, <3>1 DEF InPiece
  <2> QED
    BY <2>1
<1>7. CASE \A k \in DOMAIN areas : ~Covers(areas, k, s)
  <2>1. \A p \in DOMAIN pieces : ~InPiece(p, s)
    <3>1. ASSUME NEW p \in DOMAIN pieces, InPiece(p, s) PROVE FALSE
      <4>1. PICK k \in DOMAIN areas : k <= p /\ p + pieces[p] <= EndOf(areas, k)
        BY DEF ReadInv, Reader, Pieces
      <4>2. p \in Nat /\ pieces[p] \in Nat
        BY DEF ReadInv, Reader, Pieces
      <4>3. Covers(areas, k, s)
        BY <1>1, <3>1, <4>1, <4>2, AreaFacts DEF Covers, InPiece
      <4> QED
        BY <1>7, <4>3
    <3> QED
      BY <3>1
  <2>2. \A g \in Files : ~Holds(g, s)
    BY <1>1, <1>7, OwnerIsNewest
  <2> QED
    BY <1>2, <1>3, <1>4, <2>1, <2>2
<1>8. CASE \E k \in DOMAIN areas : Covers(areas, k, s)
  <2>1. PICK p \in DOMAIN pieces : InPiece(p, s)
    BY <1>2, <1>8 DEF Taken
  <2>2. PICK k \in DOMAIN areas : k <= p /\ p + pieces[p] <= EndOf(areas, k)
    BY DEF ReadInv, Reader, Pieces
  <2>3. /\ p \in Nat /\ pieces[p] \in Nat \ {0} /\ p <= s /\ s < p + pieces[p]
        /\ p \in DOMAIN buffer /\ InPiece(p, p)
    BY <1>6, <2>1 DEF ReadInv, Reader, Pieces, InPiece
  <2> DEFINE F == areas[k].file
  <2>4. F \in Files /\ k \in Nat /\ EndOf(areas, k) \in Nat /\ EndOf(areas, k) <= Reach
    BY AreaFacts
  <2>5. ASSUME NEW x \in Nat, p <= x, x <= s
        PROVE  Holds(F, x) /\ \A g \in Files : Holds(g, x) => g <= F
    <3>1. Covers(areas, k, x) /\ x < Reach
      <4> DEFINE e == EndOf(areas, k)
      <4>1. e \in Nat /\ p + pieces[p] <= e /\ k <= p /\ k \in Nat /\ Reach \in Nat
        BY <2>2, <2>4, ReachBounds
      <4> HIDE DEF e
      <4>2. k <= x /\ x < e /\ x < Reach
        BY <1>1, <2>3, <2>5, <4>1
      <4> QED
        BY <4>2 DEF Covers, e
    <3> QED
      BY <1>1, <2>5, <3>1, OwnerIsNewest
  <2>6. Holds(F, p) /\ Holds(F, s) /\ \A g \in Files : Holds(g, p) => g <= F
    BY <1>1, <2>3, <2>5
  <2> HIDE DEF F
  <2>7. F \in A(p) /\ F \in A(s)
    BY <1>1, <1>5, <2>3, <2>4, <2>6
  <2>8. Server(p) = {F}
    <3>1. \A f : f \in Server(p) <=> f \in A(p) /\ \A g \in A(p) : g <= f
      BY DEF Server
    <3>2. Max(A(p)) \in Server(p)
      BY <1>3, <2>7, <3>1
    <3>3. \A f \in Server(p) : Holds(f, p)
      BY <1>2, <2>3, <3>2 DEF Served
    <3>4. \A f \in Server(p) : f = F
      <4>1. \A f \in Server(p) : f \in Files /\ f <= F /\ F <= f
        BY <2>6, <2>7, <3>1, <3>3
      <4> QED
        BY <2>4, <4>1, NFilesAssumption DEF Files
    <3> QED
      BY <3>2, <3>4
  <2>9. buffer[s] = F
    BY <1>1, <1>2, <2>1, <2>8 DEF Served
  <2>10. \A g \in A(s) : g <= F
    <3>1. ASSUME NEW g \in A(s), ~(g <= F) PROVE FALSE
      <4>1. g \in Files /\ Allocated(g, s)
        BY <3>1
      <4>2. PICK b \in Nat : /\ b <= s /\ Holds(g, b)
                             /\ \A x \in Nat : b <= x /\ x <= s => Allocated(g, x)
        BY <1>1, <4>1, AllocatedIs
      <4>3. CASE p <= b
        BY <2>5, <3>1, <4>1, <4>2, <4>3
      <4>4. CASE b <= p
        <5>1. g \in A(p)
          BY <2>3, <4>1, <4>2, <4>4
        <5>2. F \in Server(p) /\ \A f \in Server(p) : \A h \in Files : Allocated(h, p) => h <= f
          BY <2>8 DEF Server
        <5> QED
          BY <3>1, <4>1, <5>1, <5>2
      <4> QED
        BY <2>3, <4>2, <4>3, <4>4
    <3> QED
      BY <3>1
  <2>11. Max(A(s)) = F
    <3>1. Max(A(s)) \in A(s) /\ F <= Max(A(s)) /\ Max(A(s)) <= F
      BY <1>3, <2>7, <2>10
    <3>2. Max(A(s)) \in Nat /\ F \in Nat
      BY <2>4, <3>1, NFilesAssumption DEF Files
    <3> QED
      BY <3>1, <3>2
  <2> QED
    BY <1>4, <2>6, <2>7, <2>9, <2>11
<1> QED
  BY <1>7, <1>8

LEMMA ReadInvMeans == ReadInv => ReadTypeOK /\ PiecesInRange
<1> SUFFICES ASSUME ReadInv PROVE ReadTypeOK /\ PiecesInRange
  OBVIOUS
<1>1. start \in 0..Reach /\ num \in 0..Reach /\ start \in Nat /\ num \in Nat
  BY ReachBounds DEF ReadInv, Reader, ReadTypes
<1>2. ASSUME NEW p \in DOMAIN pieces PROVE pieces[p] \in 1..num
  <2>1. p \in Nat /\ pieces[p] \in Nat \ {0} /\ start <= p /\ p + pieces[p] <= start + num
    BY DEF ReadInv, Reader, Pieces
  <2> QED
    BY <1>1, <2>1
<1>3. ReadTypeOK
  BY <1>1, <1>2 DEF ReadTypeOK, ReadInv, Reader, ReadTypes
<1>4. PiecesInRange
  BY DEF PiecesInRange, ReadInv, Reader, Pieces
<1> QED
  BY <1>3, <1>4

\* Opening an image is a query, and reading leaves its answer alone.
LEMMA ReadIsQuery == ReadSpec => Spec
<1>1. ReadInit => Init
  BY DEF ReadInit
<1>2. [ReadNext]_allVars => [Query]_vars
  BY DEF ReadNext, Opening, ReadBegin, ReadArea, Reading, ClipBehind, ClipBefore, ClipLast,
         ClipInside, ClipTurn, CopyPiece, CopyFails, CopyDone, allVars
<1> QED
  BY <1>1, <1>2, PTL DEF ReadSpec, Spec

-----------------------------------------------------------------------------
\* A read never asks for a sector beyond the map, its iterator always points
\* into the map it goes through, and no piece is longer than the range.
\* (Qcow2Lib_Read, lines 1268-1387)
THEOREM ReadTypeCorrect == ReadSpec => []ReadTypeOK
BY ReadInvHolds, ReadInvMeans, PTL

\* Whatever the chain and the range, the loop around the clipping loop cuts
\* pieces that lie in the range and apart, although it goes through the areas
\* again when it has come to their end: no copy leaves readBuffer or is done
\* over another.  (Qcow2Lib_Read, lines 1325-1368)
THEOREM PiecesStayInRange == ReadSpec => []PiecesInRange
BY ReadInvHolds, ReadInvMeans, PTL

\* Of every chain, also of one with clusters that are cut short or that grow:
\* if the areas are exact then a read that answers OK is, though readSectors
\* looks up the file of the first sector of a piece only and takes a file that
\* has the cluster but not the sector.
THEOREM ReadAsExactAsAreas == ReadSpec => [](AreasExact => ReadExact)
<1>1. ReadInv => (AreasExact => ReadExact)
  BY ExactWhere
<1> QED
  BY <1>1, ReadInvHolds, PTL

\* So of the chains whose areas are proved exact every read is: each sector of
\* its buffer comes from the newest file that has allocated it.
THEOREM ReadIsExact ==
    ASSUME Nested, EndsCut
    PROVE  ReadSpec => []ReadExact
<1>1. Spec => []AreasExact
  BY AreasAreExact
<1> QED
  BY <1>1, ReadIsQuery, ReadAsExactAsAreas, PTL
=============================================================================
