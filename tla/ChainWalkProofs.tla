--------------------------- MODULE ChainWalkProofs ---------------------------
(***************************************************************************)
(* Proofs about ChainWalk: what a walk has found, for any files, backing   *)
(* files and snapshots, chains that lead back to themselves included.      *)
(***************************************************************************)
EXTENDS ChainWalk, TLAPS

-----------------------------------------------------------------------------
(* The inductive invariant.                                                *)

FilesOf(s) == {s[k].file : k \in DOMAIN s}
Once == \A k, l \in DOMAIN set : set[k].file = set[l].file => k = l
Under == phase \in {"walk", "search"}
Done == phase \in {"scan", "find", "answered"}

\* The image, and the files below it that the walk has been at.
Seen == FilesOf(set) \cup {Top}

\* While it walks, every file it has seen leads to another one it has seen or
\* to the one it is at: once it is at a file it has seen, it never comes to a
\* file without a backing file.
LeadsOn == Under /\ set # <<>> => \A f \in Seen : Backing(f) \in Seen \cup {at}

\* Unless it has come back, it is on a path of different files.
OnPath ==
    Under /\ ~(set # <<>> /\ at \in Seen) =>
        IF set = <<>>
        THEN at = Top \/ (world.type = "external" /\ at = Backing(Top))
        ELSE IsPath /\ Once /\ at = Backing(set[Len(set)].file)

\* An incremental walk has not met its start, and one between two internal
\* snapshots has kept nothing.
NotAtStart ==
    Under /\ ~Full => /\ world.start \notin FilesOf(set)
                      /\ world.type = "internal" => set = <<>> /\ at = Top

\* A walk that has come to its end.
AtEnd ==
    phase = "walked" /\ set # <<>> =>
        /\ IsPath /\ Once /\ at = set[Len(set)].file
        /\ ~Full /\ world.type = "internal" => at = Top
        /\ \/ ~Full /\ (at = world.start \/ world.type = "internal")
           \/ Backing(at) = NoFile

Searching ==
    phase = "search" =>
        /\ at = Top /\ world.type = "internal" /\ index # 0
        /\ \A i \in 1..(index - 1) : world.snaps[i].name # world.endSp

Found == Done => set # <<>> /\ IsPath /\ Once /\ EndsRight
TablesRight == \A k \in DOMAIN set : TableRight(k)
NoneLost == phase # "failed" => lost = 0

WalkInv ==
    /\ LeadsOn /\ OnPath /\ NotAtStart /\ AtEnd /\ Searching /\ Found
    /\ TablesRight /\ NoneLost

-----------------------------------------------------------------------------
(* What is asked, and of which files.                                      *)

Entries == [file : Files, table : 0..Len(world.snaps)]

LEMMA WorldTypes ==
    ASSUME world \in Worlds
    PROVE  /\ world.snaps \in Seq([name : Names, table : Tables])
           /\ Len(world.snaps) \in Nat
           /\ \A f \in Files : Backing(f) \in Files \cup {NoFile}
           /\ world.type \in {"default", "external", "internal"}
           /\ world.start \in (Files \ {Top}) \cup {Star, Blank}
           /\ world.startSp \in Names \cup {Star, Blank}
<1>1. world \in World
  BY WorldsAssumption
<1> QED
  BY <1>1 DEF World, Backing

\* Of an incremental query.
LEMMA WorldKinds ==
    ASSUME world \in Worlds
    PROVE  /\ world.type = "default" => Full
           /\ world.type = "external" => Backing(Top) # Top
           /\ world.type = "external" /\ ~Full => world.start \in Files
           /\ world.type = "internal" => world.start \notin Files
           /\ world.start \in Files => world.type = "external" /\ ~Full
           /\ Top # world.start
BY WorldTypes, WorldsAssumption, NamesAssumption DEF Full, Backing

-----------------------------------------------------------------------------
(* Appending to the set.                                                   *)

LEMMA KeepFacts ==
    ASSUME WalkTypeOK, NEW f \in Files, NEW i \in 0..Len(world.snaps), Keep(f, i)
    PROVE  /\ set' \in Seq(Entries)
           /\ Len(set) \in Nat
           /\ Len(set') = Len(set) + 1
           /\ DOMAIN set' = DOMAIN set \cup {Len(set')}
           /\ DOMAIN set = 1..Len(set)
           /\ \A k \in DOMAIN set : set'[k] = set[k] /\ set'[k].file = set[k].file
           /\ set'[Len(set')].file = f /\ set'[Len(set')].table = i
           /\ set' # <<>>
           /\ FilesOf(set') = FilesOf(set) \cup {f}
<1>1. set \in Seq(Entries)
  BY DEF WalkTypeOK, Entries
<1> DEFINE e == [file |-> f, table |-> i]
<1>2. e \in Entries /\ e.file = f /\ e.table = i
  BY DEF Entries
<1>3. set' = Append(set, e)
  BY DEF Keep
<1> HIDE DEF e
<1>4. /\ set' \in Seq(Entries) /\ Len(set) \in Nat /\ Len(set') = Len(set) + 1
      /\ DOMAIN set = 1..Len(set) /\ DOMAIN set' = 1..Len(set')
      /\ \A k \in DOMAIN set : set'[k] = set[k]
      /\ set'[Len(set')] = e
  BY <1>1, <1>2, <1>3
<1>5. set' # <<>>
  BY <1>4
<1>6. DOMAIN set' = DOMAIN set \cup {Len(set')}
  BY <1>4
<1>7. FilesOf(set') = FilesOf(set) \cup {f}
  BY <1>2, <1>4, <1>6 DEF FilesOf
<1> QED
  BY <1>2, <1>4, <1>5, <1>6, <1>7

-----------------------------------------------------------------------------
(* Types.                                                                  *)

LEMMA WalkTypeInit == WalkInit => WalkTypeOK
<1> SUFFICES ASSUME WalkInit PROVE WalkTypeOK
  OBVIOUS
<1>1. Len(world.snaps) \in Nat
  BY WorldTypes DEF WalkInit
<1> QED
  BY <1>1, NamesAssumption DEF WalkInit, WalkTypeOK

LEMMA FailTypes ==
    ASSUME WalkTypeOK, lost = 0, NEW n \in 0..2, Fail(n)
    PROVE  WalkTypeOK'
BY DEF WalkTypeOK, Fail

LEMMA ContinueTypes ==
    ASSUME WalkTypeOK, Continue
    PROVE  phase' \in {"walk", "walked"} /\ at' \in Files
BY WorldTypes DEF WalkTypeOK, Continue

LEMMA WalkTypeStep ==
    ASSUME WalkTypeOK, Searching, NoneLost, Walking
    PROVE  WalkTypeOK'
<1>0. /\ world \in Worlds /\ at \in Files /\ set \in Seq(Entries)
      /\ index \in 0..(Len(world.snaps) + 1)
  BY DEF WalkTypeOK, Entries
<1>1. Len(world.snaps) \in Nat
  BY <1>0, WorldTypes
<1>2. CASE OpenFails \/ BackingFails \/ TooFew \/ HeaderAgainFails \/ NotFound
  BY <1>2, FailTypes DEF OpenFails, BackingFails, TooFew, HeaderAgainFails, NotFound, NoneLost
<1>3. CASE SearchFails
  BY <1>3, FailTypes DEF SearchFails, NoneLost
<1>4. CASE Below
  <2>1. set' \in Seq(Entries)
    BY <1>0, <1>1, <1>4, KeepFacts DEF Below
  <2>2. phase' \in {"walk", "walked"} /\ at' \in Files
    BY <1>0, <1>4, ContinueTypes DEF Below
  <2> QED
    BY <1>4, <2>1, <2>2 DEF Below, WalkTypeOK, Entries
<1>5. CASE PassTop
  BY <1>5, ContinueTypes DEF PassTop, WalkTypeOK
<1>6. CASE KeepTop
  <2>1. set' \in Seq(Entries)
    BY <1>1, <1>6, KeepFacts, NamesAssumption DEF KeepTop
  <2>2. phase' \in {"walk", "walked"} /\ at' \in Files
    BY <1>6, ContinueTypes DEF KeepTop
  <2> QED
    BY <1>6, <2>1, <2>2 DEF KeepTop, WalkTypeOK, Entries
<1>7. CASE SearchTop
  BY <1>1, <1>7 DEF SearchTop, WalkTypeOK
<1>8. CASE SearchOn
  BY <1>0, <1>1, <1>8 DEF SearchOn, WalkTypeOK
<1>9. CASE SearchFound
  <2>1. index \in 0..Len(world.snaps)
    BY <1>0, <1>1, <1>9 DEF SearchFound
  <2>2. set' \in Seq(Entries)
    BY <1>9, <2>1, KeepFacts, NamesAssumption DEF SearchFound
  <2>3. phase' \in {"walk", "walked"} /\ at' \in Files
    BY <1>0, <1>9, ContinueTypes DEF SearchFound
  <2> QED
    BY <1>9, <2>2, <2>3 DEF SearchFound, WalkTypeOK, Entries
<1>10. CASE WalkReturns
  BY <1>10 DEF WalkReturns, WalkTypeOK
<1> QED
  BY <1>2, <1>3, <1>4, <1>5, <1>6, <1>7, <1>8, <1>9, <1>10 DEF Walking

-----------------------------------------------------------------------------
(* One more file.                                                          *)

Back == set # <<>> /\ at \in Seen

LEMMA SeenTypes ==
    ASSUME WalkTypeOK
    PROVE  Seen \subseteq Files /\ at \in Files /\ NoFile \notin Files
<1>0. set \in Seq(Entries)
  BY DEF WalkTypeOK, Entries
<1>1. \A k \in DOMAIN set : set[k] \in Entries
  BY <1>0
<1>2. FilesOf(set) \subseteq Files
  BY <1>1 DEF FilesOf, Entries
<1> QED
  BY <1>2, NamesAssumption DEF WalkTypeOK, Seen

\* A walk that has come back to a file goes on for ever.
LEMMA BackGoesOn ==
    ASSUME WalkTypeOK, LeadsOn, Under, Back
    PROVE  Backing(at) \in Seen
BY DEF LeadsOn, Back

\* Where it has not, the next file makes the path one longer.
LEMMA KeepOnPath ==
    ASSUME WalkTypeOK, OnPath, Under, ~Back, at = Top => world.type # "external",
           NEW i \in 0..Len(world.snaps), Keep(at, i), UNCHANGED world
    PROVE  IsPath' /\ Once' /\ set'[Len(set')].file = at
<1> DEFINE n == Len(set')
<1>1. /\ Len(set) \in Nat /\ n = Len(set) + 1
      /\ DOMAIN set' = DOMAIN set \cup {n} /\ DOMAIN set = 1..Len(set)
      /\ \A k \in DOMAIN set : set'[k].file = set[k].file
      /\ set'[n].file = at
  BY KeepFacts DEF WalkTypeOK
<1> HIDE DEF n
<1>2. CASE set = <<>>
  <2>1. n = 1 /\ DOMAIN set' = {1}
    BY <1>1, <1>2
  <2>2. at = IF world.type = "external" THEN Backing(Top) ELSE Top
    BY <1>2 DEF OnPath, Back
  <2>3. IsPath'
    <3>1. 1..(Len(set') - 1) = {}
      BY <2>1 DEF n
    <3>2. set'[1].file = IF world.type = "external" THEN Backing(Top) ELSE Top
      BY <1>1, <2>1, <2>2
    <3> QED
      BY <3>1, <3>2 DEF IsPath, Backing
  <2>4. Once'
    BY <2>1 DEF Once
  <2> QED
    BY <1>1, <2>3, <2>4 DEF n
<1>3. CASE set # <<>>
  <2>1. IsPath /\ Once /\ at = Backing(set[Len(set)].file) /\ at \notin Seen
    BY <1>3 DEF OnPath, Back
  <2>2. Len(set) \in DOMAIN set /\ 1 \in DOMAIN set
    BY <1>1, <1>3 DEF WalkTypeOK
  <2>3. \A k \in DOMAIN set : set'[k].file # at
    BY <1>1, <2>1 DEF Seen, FilesOf
  <2>4. Once'
    BY <1>1, <2>1, <2>3 DEF Once
  <2>5. ASSUME NEW k \in 1..(n - 1)
        PROVE  set'[k + 1].file = Backing(set'[k].file)
    <3>1. k \in DOMAIN set
      BY <1>1
    <3>2. CASE k = Len(set)
      BY <1>1, <2>1, <3>1, <3>2
    <3>3. CASE k # Len(set)
      <4>0. k \in 1..(n - 1) /\ n = Len(set) + 1 /\ Len(set) \in Nat
        BY <1>1
      <4>1. k \in 1..(Len(set) - 1) /\ k + 1 \in 1..Len(set)
        BY <3>3, <4>0
      <4> QED
        BY <1>1, <2>1, <3>1, <4>1 DEF IsPath
    <3> QED
      BY <3>2, <3>3
  <2>6. set'[1].file = IF world.type = "external" THEN Backing(Top) ELSE Top
    BY <1>1, <2>1, <2>2 DEF IsPath
  <2>7. IsPath'
    BY <2>5, <2>6 DEF IsPath, Backing, n
  <2> QED
    BY <1>1, <2>4, <2>7 DEF n
<1> QED
  BY <1>2, <1>3

\* And the walk goes on, having seen it.
LEMMA KeepGoesOn ==
    ASSUME WalkTypeOK, LeadsOn, OnPath, Under, at = Top => world.type # "external",
           NEW i \in 0..Len(world.snaps), Keep(at, i), UNCHANGED world,
           at' = Backing(at)
    PROVE  LeadsOn' /\ OnPath'
<1>1. Seen' = Seen \cup {at} /\ set' # <<>>
  BY KeepFacts DEF WalkTypeOK, Seen
<1>2. \A f : Backing(f)' = Backing(f)
  BY DEF Backing
<1>3. ASSUME NEW f \in Seen' PROVE Backing(f) \in Seen' \cup {at'}
  <2>1. CASE f = at
    BY <2>1
  <2>2. CASE f # at /\ set # <<>>
    BY <1>1, <2>2 DEF LeadsOn
  <2>3. CASE f # at /\ set = <<>>
    <3>1. f = Top
      <4>1. FilesOf(set) = {}
        BY <2>3 DEF FilesOf
      <4> QED
        BY <1>1, <2>3, <4>1 DEF Seen
    <3>2. at = Backing(Top)
      BY <2>3, <3>1 DEF OnPath
    <3> QED
      BY <1>1, <3>1, <3>2
  <2> QED
    BY <2>1, <2>2, <2>3
<1>4. LeadsOn'
  BY <1>2, <1>3 DEF LeadsOn
<1>5. CASE Back
  <2>1. at' \in Seen'
    BY <1>1, <1>5, BackGoesOn
  <2> QED
    BY <1>1, <1>4, <2>1 DEF OnPath
<1>6. CASE ~Back
  <2>1. IsPath' /\ Once' /\ at' = Backing(set'[Len(set')].file)
    BY <1>6, KeepOnPath
  <2> QED
    BY <1>1, <1>2, <1>4, <2>1 DEF OnPath
<1> QED
  BY <1>5, <1>6

\* Or it ends, where it has not been before.
LEMMA KeepEnds ==
    ASSUME WalkTypeOK, LeadsOn, OnPath, NotAtStart, Under,
           at = Top => world.type # "external",
           NEW i \in 0..Len(world.snaps), Keep(at, i), UNCHANGED <<world, at>>,
           \/ Backing(at) = NoFile
           \/ ~Full /\ at = world.start
           \/ ~Full /\ world.type = "internal" /\ at = Top
    PROVE  AtEnd'
<1>1. ~Back
  <2>1. CASE Backing(at) = NoFile
    BY <2>1, BackGoesOn, SeenTypes
  <2>2. CASE ~Full /\ at = world.start
    BY <2>2, WorldKinds DEF NotAtStart, Back, Seen, WalkTypeOK
  <2>3. CASE ~Full /\ world.type = "internal" /\ at = Top
    BY <2>3 DEF NotAtStart, Back
  <2> QED
    BY <2>1, <2>2, <2>3
<1>2. IsPath' /\ Once' /\ set'[Len(set')].file = at
  BY <1>1, KeepOnPath
<1>3. ~Full /\ world.type = "internal" => at = Top
  BY DEF NotAtStart
<1> QED
  BY <1>2, <1>3 DEF AtEnd, Full, Backing

LEMMA KeepTables ==
    ASSUME WalkTypeOK, TablesRight, NEW f \in Files, NEW i \in 0..Len(world.snaps), Keep(f, i),
           UNCHANGED world,
           IF f = Top /\ world.type = "internal"
           THEN /\ i # 0 /\ world.snaps[i].name = world.endSp
                /\ \A j \in 1..(i - 1) : world.snaps[j].name # world.endSp
           ELSE i = 0
    PROVE  TablesRight'
<1>1. /\ DOMAIN set' = DOMAIN set \cup {Len(set')}
      /\ \A k \in DOMAIN set : set'[k] = set[k]
      /\ set'[Len(set')].file = f /\ set'[Len(set')].table = i
  BY KeepFacts
<1>2. ASSUME NEW k \in DOMAIN set' PROVE TableRight(k)'
  <2>1. CASE k = Len(set')
    BY <1>1, <2>1 DEF TableRight
  <2>2. CASE k \in DOMAIN set
    BY <1>1, <2>2 DEF TableRight, TablesRight
  <2> QED
    BY <1>1, <2>1, <2>2
<1> QED
  BY <1>2 DEF TablesRight

-----------------------------------------------------------------------------
(* The walk keeps the invariant.                                           *)

LEMMA WalkInvInit == WalkInit => WalkInv
<1> SUFFICES ASSUME WalkInit PROVE WalkInv
  OBVIOUS
<1>1. LeadsOn /\ OnPath /\ AtEnd /\ Searching /\ Found /\ NoneLost
  BY DEF WalkInit, LeadsOn, OnPath, AtEnd, Searching, Found, Done, NoneLost
<1>2. TablesRight /\ FilesOf(set) = {}
  BY DEF WalkInit, TablesRight, FilesOf
<1> QED
  BY <1>1, <1>2 DEF WalkInit, NotAtStart, WalkInv

LEMMA FailInv ==
    ASSUME WalkInv, NEW n \in 0..2, Fail(n)
    PROVE  WalkInv'
<1>1. phase' = "failed" /\ UNCHANGED <<world, set>>
  BY DEF Fail
<1>2. TablesRight'
  BY <1>1 DEF WalkInv, TablesRight, TableRight
<1> QED
  BY <1>1, <1>2 DEF WalkInv, LeadsOn, OnPath, NotAtStart, AtEnd, Searching, Found, NoneLost,
                    Under, Done

\* The table a file is kept with is the one to be read.
RightTable(i) ==
    IF at = Top /\ world.type = "internal"
    THEN /\ i # 0 /\ world.snaps[i].name = world.endSp
         /\ \A j \in 1..(i - 1) : world.snaps[j].name # world.endSp
    ELSE i = 0

LEMMA KeepEndsInv ==
    ASSUME WalkTypeOK, WalkInv, Under, at = Top => world.type # "external",
           NEW i \in 0..Len(world.snaps), Keep(at, i), RightTable(i),
           UNCHANGED <<world, at, lost>>, phase' = "walked",
           \/ Backing(at) = NoFile
           \/ ~Full /\ at = world.start
           \/ ~Full /\ world.type = "internal" /\ at = Top
    PROVE  WalkInv'
<1>1. AtEnd'
  BY KeepEnds DEF WalkInv
<1>2. TablesRight'
  BY KeepTables DEF WalkInv, RightTable, WalkTypeOK
<1>3. NoneLost'
  BY DEF WalkInv, NoneLost, Under
<1> QED
  BY <1>1, <1>2, <1>3 DEF WalkInv, LeadsOn, OnPath, NotAtStart, Searching, Found, Under, Done

LEMMA KeepGoesOnInv ==
    ASSUME WalkTypeOK, WalkInv, Under, at = Top => world.type # "external",
           NEW i \in 0..Len(world.snaps), Keep(at, i), RightTable(i),
           UNCHANGED <<world, lost>>, phase' = "walk", at' = Backing(at),
           ~Full => at # world.start /\ world.type # "internal"
    PROVE  WalkInv'
<1>1. LeadsOn' /\ OnPath'
  BY KeepGoesOn DEF WalkInv
<1>2. TablesRight'
  BY KeepTables DEF WalkInv, RightTable, WalkTypeOK
<1>3. NoneLost'
  BY DEF WalkInv, NoneLost, Under
<1>4. FilesOf(set') = FilesOf(set) \cup {at}
  BY KeepFacts DEF WalkTypeOK
<1>5. NotAtStart'
  BY <1>4 DEF WalkInv, NotAtStart, Full, Under
<1> QED
  BY <1>1, <1>2, <1>3, <1>5 DEF WalkInv, AtEnd, Searching, Found, Done

LEMMA WalkInvStep ==
    ASSUME WalkTypeOK, WalkInv, Walking
    PROVE  WalkInv'
<1>0. world \in Worlds /\ 0 \in 0..Len(world.snaps)
  BY WorldTypes DEF WalkTypeOK
<1>1. CASE OpenFails \/ BackingFails \/ TooFew \/ HeaderAgainFails \/ NotFound
  BY <1>1, FailInv DEF OpenFails, BackingFails, TooFew, HeaderAgainFails, NotFound
<1>2. CASE SearchFails
  BY <1>2, FailInv DEF SearchFails
<1>3. CASE Below
  <2>1. /\ Under /\ at # Top /\ Keep(at, 0) /\ UNCHANGED <<world, lost>>
        /\ phase = "walk" /\ RightTable(0)
    BY <1>3 DEF Below, Under, RightTable
  <2>2. CASE ~Full /\ at = world.start
    BY <1>0, <1>3, <2>1, <2>2, KeepEndsInv DEF Below
  <2>3. CASE ~(~Full /\ at = world.start) /\ Backing(at) = NoFile
    BY <1>0, <1>3, <2>1, <2>3, KeepEndsInv DEF Below, Continue
  <2>4. CASE ~(~Full /\ at = world.start) /\ Backing(at) # NoFile
    <3>1. ~Full => world.type # "internal"
      BY <2>1 DEF WalkInv, NotAtStart
    <3> QED
      BY <1>0, <1>3, <2>1, <2>4, <3>1, KeepGoesOnInv DEF Below, Continue
  <2> QED
    BY <2>2, <2>3, <2>4
<1>4. CASE PassTop
  <2>1. Under /\ at = Top /\ at \in Seen /\ UNCHANGED <<world, set, lost>>
    BY <1>4 DEF PassTop, Under, Seen
  <2>2. Backing(Top) = at' \/ (Backing(Top) = NoFile /\ phase' = "walked")
    BY <1>4 DEF PassTop, Continue
  <2>3. set # <<>> => Backing(Top) \in Seen /\ Backing(Top) # NoFile
    BY <2>1, BackGoesOn, SeenTypes DEF WalkInv, Back
  <2>4. Seen' = Seen /\ (\A f : Backing(f)' = Backing(f)) /\ (Full <=> Full')
    BY <2>1 DEF Seen, Backing, Full
  <2>5. LeadsOn'
    BY <2>1, <2>3, <2>4 DEF LeadsOn, WalkInv
  <2>6. OnPath'
    BY <1>4, <2>1, <2>2, <2>3, <2>4 DEF OnPath, Under, PassTop
  <2>7. NotAtStart'
    BY <1>4, <2>1, <2>4 DEF NotAtStart, PassTop, WalkInv
  <2>8. AtEnd'
    BY <1>4, <2>1, <2>3 DEF AtEnd, PassTop, Continue
  <2>9. TablesRight' /\ NoneLost'
    BY <2>1 DEF WalkInv, TablesRight, TableRight, NoneLost, Under
  <2>10. phase' \in {"walk", "walked"}
    BY <1>4 DEF PassTop, Continue
  <2> QED
    BY <2>5, <2>6, <2>7, <2>8, <2>9, <2>10 DEF WalkInv, Searching, Found, Done
<1>5. CASE KeepTop
  <2>1. /\ Under /\ at = Top /\ Keep(at, 0) /\ UNCHANGED <<world, lost>>
        /\ world.type = "default" /\ RightTable(0) /\ Full
    BY <1>0, <1>5, WorldKinds DEF KeepTop, Under, RightTable
  <2>2. CASE Backing(at) = NoFile
    BY <1>0, <1>5, <2>1, <2>2, KeepEndsInv DEF KeepTop, Continue
  <2>3. CASE Backing(at) # NoFile
    BY <1>0, <1>5, <2>1, <2>3, KeepGoesOnInv DEF KeepTop, Continue
  <2> QED
    BY <2>2, <2>3
<1>6. CASE SearchTop \/ SearchOn
  <2>1. Under /\ phase' = "search" /\ UNCHANGED <<world, at, set, lost>>
    BY <1>6 DEF SearchTop, SearchOn, Under
  <2>2. LeadsOn' /\ OnPath' /\ NotAtStart'
    BY <2>1 DEF WalkInv, LeadsOn, OnPath, NotAtStart, Under, Seen, Backing, Full, IsPath, Once
  <2>3. TablesRight' /\ NoneLost'
    BY <2>1 DEF WalkInv, TablesRight, TableRight, NoneLost, Under
  <2>4. Searching'
    BY <1>6 DEF WalkInv, Searching, SearchTop, SearchOn, WalkTypeOK
  <2> QED
    BY <2>1, <2>2, <2>3, <2>4 DEF WalkInv, AtEnd, Found, Done
<1>7. CASE SearchFound
  <2>1. /\ Under /\ at = Top /\ Keep(at, index) /\ UNCHANGED <<world, lost>>
        /\ world.type = "internal" /\ RightTable(index) /\ index \in 0..Len(world.snaps)
    BY <1>0, <1>7, WorldTypes DEF SearchFound, Under, RightTable, WalkInv, Searching, WalkTypeOK
  <2>2. Full <=> world.startSp = Star
    BY <1>0, <2>1, WorldsAssumption, NamesAssumption DEF Full
  <2>3. CASE ~Full
    BY <1>7, <2>1, <2>2, <2>3, KeepEndsInv DEF SearchFound
  <2>4. CASE Full /\ Backing(at) = NoFile
    BY <1>7, <2>1, <2>2, <2>4, KeepEndsInv DEF SearchFound, Continue
  <2>5. CASE Full /\ Backing(at) # NoFile
    BY <1>7, <2>1, <2>2, <2>5, KeepGoesOnInv DEF SearchFound, Continue
  <2> QED
    BY <2>3, <2>4, <2>5
<1>8. CASE WalkReturns
  <2>1. UNCHANGED <<world, at, set, lost>> /\ phase = "walked" /\ phase' \in {"failed", "scan"}
    BY <1>8 DEF WalkReturns
  <2>2. ASSUME phase' = "scan" PROVE set # <<>> /\ IsPath /\ Once /\ EndsRight
    <3>1. set # <<>> /\ (world.start \in Files => at = world.start)
      BY <1>8, <2>2 DEF WalkReturns
    <3>2. /\ IsPath /\ Once /\ at = set[Len(set)].file
          /\ ~Full /\ world.type = "internal" => at = Top
          /\ \/ ~Full /\ (at = world.start \/ world.type = "internal")
             \/ Backing(at) = NoFile
      BY <2>1, <3>1 DEF WalkInv, AtEnd
    <3>3. CASE world.start \in Files
      BY <1>0, <3>1, <3>2, <3>3, WorldKinds DEF EndsRight
    <3>4. CASE world.start \notin Files /\ world.type = "internal" /\ ~Full
      BY <3>1, <3>2, <3>4 DEF EndsRight
    <3>5. CASE world.start \notin Files /\ ~(world.type = "internal" /\ ~Full)
      <4>1. Backing(at) = NoFile
        BY <3>2, <3>5 DEF WalkTypeOK
      <4> QED
        BY <3>1, <3>2, <3>5, <4>1 DEF EndsRight
    <3> QED
      BY <3>3, <3>4, <3>5
  <2>3. Found'
    BY <2>1, <2>2 DEF Found, Done, IsPath, Once, EndsRight, Backing, Full
  <2>4. TablesRight' /\ NoneLost'
    BY <2>1 DEF WalkInv, TablesRight, TableRight, NoneLost
  <2> QED
    BY <2>1, <2>3, <2>4 DEF WalkInv, LeadsOn, OnPath, NotAtStart, AtEnd, Searching, Under
<1> QED
  BY <1>1, <1>2, <1>3, <1>4, <1>5, <1>6, <1>7, <1>8 DEF Walking
=============================================================================
