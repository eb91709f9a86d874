------------------------- MODULE SnapshotQueryProofs -------------------------
(***************************************************************************)
(* Proofs about SnapshotQuery: that a walk finds what was asked for, and   *)
(* that a query reports what changed, for any files, chains, snapshots and *)
(* clusters.                                                               *)
(***************************************************************************)
EXTENDS SnapshotQuery, ChainWalkProofs, SnapshotContentProofs

-----------------------------------------------------------------------------
(* The inductive invariant.                                                *)

Has(k, c) == Offset(TableOf(set[k]), c) # 0

\* Nothing is reported before the walk has returned, and nothing is read
\* before the query has.
InTurn ==
    /\ phase \in {"walk", "search", "walked"} => scanned = 0 /\ reported = {}
    /\ phase # "answered" => reading = NoCluster /\ copy = <<>>
    /\ phase = "answered" => scanned = Len(set)

\* The search for the start has passed over no snapshot of its name.
Finding ==
    phase = "find" =>
        /\ scanned < Len(set)
        /\ Comparing /\ TableOf(Current) # <<>> /\ index >= 2
        /\ \A i \in 2..(index - 1) : world.snaps[i].name # world.startSp

\* s is the snapshot the search stops at.
IsStart(s) ==
    /\ s \in 2..Len(world.snaps)
    /\ world.snaps[s].name = world.startSp
    /\ \A i \in 2..(s - 1) : world.snaps[i].name # world.startSp

\* What has been reported so far.
Reported ==
    Done =>
        IF ~Comparing
        THEN reported = {c \in Clusters : \E k \in DOMAIN set :
                              k > Len(set) - scanned /\ Has(k, c)}
        ELSE IF scanned = 0 \/ TableOf(set[1]) = <<>>
        THEN reported = {}
        ELSE \E s \in 2..Len(world.snaps) :
                /\ IsStart(s)
                /\ reported = {c \in Clusters :
                      Offset(TableOf(set[1]), c) # Offset(world.snaps[s].table, c)}

\* What was read of a cluster is what the newest file of the set has.
Copied ==
    \A c \in DOMAIN copy :
        \E k \in Serving(c) : copy[c] = <<set[k].file, Offset(TableOf(set[k]), c)>>

IInv == TypeOK /\ WalkInv /\ InTurn /\ Finding /\ Reported /\ Copied

-----------------------------------------------------------------------------
(* Facts about the set a walk has found.                                   *)

LEMMA SetTypes ==
    ASSUME WalkTypeOK
    PROVE  /\ Len(set) \in Nat /\ DOMAIN set = 1..Len(set)
           /\ \A k \in DOMAIN set : set[k].file \in Files
                                 /\ set[k].table \in 0..Len(world.snaps)
           /\ set # <<>> <=> Len(set) # 0
<1>1. set \in Seq(Entries)
  BY DEF WalkTypeOK, Entries
<1>2. /\ Len(set) \in Nat /\ DOMAIN set = 1..Len(set)
      /\ \A k \in DOMAIN set : set[k] \in Entries
      /\ set # <<>> <=> Len(set) # 0
  BY <1>1
<1> QED
  BY <1>2 DEF Entries

\* Between two internal snapshots the image is alone in the set, and read
\* through the snapshot endSp.
LEMMA ComparingSet ==
    ASSUME WalkTypeOK, WalkInv, Done, Comparing
    PROVE  /\ Len(set) = 1 /\ set[1].file = Top
           /\ set[1].table \in 1..Len(world.snaps)
           /\ world.snaps[set[1].table].name = world.endSp
           /\ ~Full /\ world.start \notin Files
<1>1. world.type = "internal" /\ ~Full /\ world.start \notin Files
  BY WorldsAssumption, NamesAssumption, WorldKinds DEF Comparing, Full, WalkTypeOK
<1>2. set # <<>> /\ IsPath /\ Once /\ EndsRight
  BY DEF WalkInv, Found
<1>3. 1 \in DOMAIN set /\ Len(set) \in DOMAIN set
  BY <1>2, SetTypes
<1>4. set[1].file = Top
  BY <1>1, <1>2 DEF IsPath
<1>5. set[Len(set)].file = Top
  BY <1>1, <1>2 DEF EndsRight
<1>6. Len(set) = 1
  BY <1>2, <1>3, <1>4, <1>5 DEF Once
<1>7. TableRight(1)
  BY <1>3 DEF WalkInv, TablesRight
<1>8. set[1].table # 0 /\ world.snaps[set[1].table].name = world.endSp
  BY <1>1, <1>4, <1>7 DEF TableRight
<1>9. set[1].table \in 1..Len(world.snaps)
  BY <1>3, <1>8, SetTypes, WorldTypes DEF WalkTypeOK
<1> QED
  BY <1>1, <1>4, <1>6, <1>8, <1>9

\* The files of the set after the walk do not change any more.
LEMMA DoneInv ==
    ASSUME WalkInv, Done, Done', UNCHANGED <<world, set, lost>>
    PROVE  WalkInv'
<1>1. Found'
  BY DEF WalkInv, Found, IsPath, Once, EndsRight, Backing, Full
<1>2. TablesRight'
  BY DEF WalkInv, TablesRight, TableRight
<1>3. NoneLost'
  BY DEF WalkInv, NoneLost, Done
<1> QED
  BY <1>1, <1>2, <1>3 DEF WalkInv, LeadsOn, OnPath, NotAtStart, AtEnd, Searching, Under, Done

LEMMA IInvInit == Init => IInv
<1> SUFFICES ASSUME Init PROVE IInv
  OBVIOUS
<1>1. WalkTypeOK /\ WalkInv
  BY WalkTypeInit, WalkInvInit DEF Init
<1>2. TypeOK
  <2>1. scanned \in 0..Len(set)
    BY <1>1, SetTypes DEF Init
  <2>2. DOMAIN copy = {}
    BY DEF Init
  <2> QED
    BY <1>1, <2>1, <2>2 DEF Init, TypeOK
<1>3. phase = "walk"
  BY DEF Init, WalkInit
<1> QED
  BY <1>1, <1>2, <1>3 DEF Init, IInv, InTurn, Finding, Reported, Done, Copied

-----------------------------------------------------------------------------
(* The steps of a query.                                                   *)

LEMMA WalkStep == ASSUME IInv, Walk PROVE IInv'
<1>1. WalkTypeOK /\ WalkInv /\ Walking
  BY DEF IInv, TypeOK, Walk
<1>2. WalkTypeOK' /\ WalkInv'
  BY <1>1, WalkTypeStep, WalkInvStep DEF WalkInv
<1>3. phase \in {"walk", "search", "walked"}
  BY <1>1 DEF Walking, OpenFails, BackingFails, Below, TooFew, PassTop, KeepTop, SearchTop,
              HeaderAgainFails, SearchOn, SearchFound, NotFound, SearchFails, WalkReturns
<1>4. phase' \in {"walk", "search", "walked", "scan", "failed"}
  <2>1. CASE OpenFails \/ BackingFails \/ TooFew \/ HeaderAgainFails \/ NotFound
    BY <2>1 DEF OpenFails, BackingFails, TooFew, HeaderAgainFails, NotFound, Fail
  <2>2. CASE Below \/ PassTop \/ KeepTop \/ SearchFound
    BY <2>2 DEF Below, PassTop, KeepTop, SearchFound, Continue
  <2>3. CASE SearchTop \/ SearchOn \/ SearchFails \/ WalkReturns
    BY <1>3, <2>3 DEF SearchTop, SearchOn, SearchFails, WalkReturns, Fail
  <2> QED
    BY <1>1, <2>1, <2>2, <2>3 DEF Walking
<1>5. /\ UNCHANGED <<scanned, reported, reading, pointed, copy>>
      /\ scanned = 0 /\ reported = {} /\ reading = NoCluster /\ copy = <<>>
  BY <1>3 DEF Walk, queryVars, IInv, InTurn
<1>6. DOMAIN set' = 1..Len(set') /\ Len(set') \in Nat
  BY <1>2, SetTypes
<1>7. TypeOK'
  BY <1>2, <1>5, <1>6 DEF IInv, TypeOK
<1>8. InTurn' /\ Finding' /\ Copied'
  BY <1>4, <1>5 DEF InTurn, Finding, Copied
<1>9. {c \in Clusters : \E k \in DOMAIN set' : k > Len(set') - scanned' /\ Has(k, c)'} = {}
  BY <1>5, <1>6
<1>10. Reported'
  BY <1>4, <1>5, <1>9 DEF Reported
<1> QED
  BY <1>2, <1>7, <1>8, <1>10 DEF IInv

\* The table a file is read through.
LEMMA TableOfStays ==
    ASSUME UNCHANGED <<world, set>>
    PROVE  /\ \A k : TableOf(set[k])' = TableOf(set[k])
           /\ \A k, c : Has(k, c)' = Has(k, c)
           /\ \A c : Serving(c)' = Serving(c)
           /\ Comparing' = Comparing
           /\ \A s : IsStart(s)' = IsStart(s)
           /\ scanned' = scanned => TableOf(Current)' = TableOf(Current)
BY DEF TableOf, Has, Serving, Having, Comparing, IsStart, Current

LEMMA CopiedStays ==
    ASSUME Copied, UNCHANGED <<world, set, copy>>
    PROVE  Copied'
BY TableOfStays DEF Copied

LEMMA QueryFailStep ==
    ASSUME IInv, phase \in {"scan", "find"}, NEW n \in 0..2, Fail(n), UNCHANGED queryVars
    PROVE  IInv'
<1>1. WalkTypeOK' /\ WalkInv'
  BY FailTypes, FailInv DEF IInv, TypeOK, WalkInv, NoneLost
<1>2. UNCHANGED <<world, set>> /\ phase' = "failed"
  BY DEF Fail
<1>3. TypeOK' /\ InTurn' /\ Finding' /\ Reported'
  BY <1>1, <1>2 DEF IInv, TypeOK, InTurn, Finding, Reported, Done, queryVars
<1>4. Copied'
  BY <1>2, CopiedStays DEF IInv, queryVars
<1> QED
  BY <1>1, <1>3, <1>4 DEF IInv

LEMMA SearchStep == ASSUME IInv, FindStart \/ FindOn PROVE IInv'
<1>1. Done /\ Comparing /\ scanned < Len(set) /\ TableOf(Current) # <<>>
  BY DEF FindStart, FindOn, Scanning, Done, IInv, Finding
<1>2. /\ WalkTypeOK /\ WalkInv /\ Len(world.snaps) \in Nat /\ 2 <= Len(world.snaps) + 1
      /\ index \in 0..(Len(world.snaps) + 1)
  BY <1>1, ComparingSet, WorldTypes DEF IInv, TypeOK, WalkTypeOK
<1>3. /\ phase' = "find" /\ UNCHANGED <<world, at, set, lost>>
      /\ UNCHANGED <<scanned, reported, reading, pointed, copy>>
  BY DEF FindStart, FindOn, queryVars
<1>4. index' \in 0..(Len(world.snaps) + 1)
  BY <1>2 DEF FindStart, FindOn
<1>5. WalkTypeOK'
  BY <1>2, <1>3, <1>4 DEF WalkTypeOK
<1>6. WalkInv'
  BY <1>1, <1>2, <1>3, DoneInv DEF Done
<1>7. TypeOK' /\ InTurn'
  BY <1>1, <1>3, <1>5 DEF IInv, TypeOK, InTurn, Done, FindStart, FindOn, Scanning
<1>8. Copied'
  BY <1>3, CopiedStays DEF IInv
<1>9. Reported'
  BY <1>1, <1>3, TableOfStays DEF IInv, Reported
<1>10. index' >= 2 /\ \A i \in 2..(index' - 1) : world.snaps[i].name # world.startSp
  BY <1>2 DEF FindStart, FindOn, IInv, Finding
<1>11. Finding'
  BY <1>1, <1>3, <1>10, TableOfStays DEF Finding
<1> QED
  BY <1>6, <1>7, <1>8, <1>9, <1>11 DEF IInv

\* The reports after one more file.
LEMMA ReportMore ==
    ASSUME IInv, Scanning, ~Comparing, UNCHANGED <<world, set, phase>>,
           scanned' = scanned + 1,
           reported' = reported \cup {c \in Clusters : Offset(TableOf(Current), c) # 0}
    PROVE  Reported'
<1> DEFINE n == Len(set) - scanned
<1>1. Len(set) \in Nat /\ scanned \in 0..Len(set) /\ DOMAIN set = 1..Len(set) /\ scanned < Len(set)
  BY SetTypes DEF IInv, TypeOK, Scanning
<1>2. n \in DOMAIN set /\ Current = set[n]
  BY <1>1 DEF Current
<1>3. \A k \in DOMAIN set : k > Len(set) - (scanned + 1) <=> (k > n \/ k = n)
  BY <1>1
<1>4. reported = {c \in Clusters : \E k \in DOMAIN set : k > n /\ Has(k, c)}
  BY DEF IInv, Reported, Done, Scanning
<1> HIDE DEF n
<1>5. reported' = {c \in Clusters : \E k \in DOMAIN set :
                        k > Len(set) - (scanned + 1) /\ Has(k, c)}
  BY <1>2, <1>3, <1>4 DEF Has
<1> QED
  BY <1>5, TableOfStays DEF Reported

LEMMA ScanStep == ASSUME IInv, ScanEmpty \/ ScanFile PROVE IInv'
<1>1. /\ Scanning /\ UNCHANGED <<world, phase, at, index, set, lost, reading, pointed, copy>>
      /\ scanned' = scanned + 1 /\ phase = "scan"
  BY DEF ScanEmpty, ScanFile, walkVars, Scanning
<1>2. WalkTypeOK /\ WalkInv /\ reading = NoCluster /\ copy = <<>> /\ DOMAIN copy = {}
  BY <1>1 DEF IInv, TypeOK, InTurn
<1>3. WalkTypeOK' /\ WalkInv'
  BY <1>1, <1>2, DoneInv DEF WalkTypeOK, Done
<1>4. scanned' \in 0..Len(set')
  BY <1>1, <1>2, SetTypes DEF IInv, TypeOK, Scanning
<1>5. reported' \subseteq Clusters
  BY DEF ScanEmpty, ScanFile, IInv, TypeOK
<1>6. TypeOK' /\ InTurn' /\ Finding' /\ Copied'
  BY <1>1, <1>2, <1>3, <1>4, <1>5 DEF IInv, TypeOK, InTurn, Finding, Copied
<1>7. CASE Comparing
  <2>0. ScanEmpty /\ Len(set) = 1
    BY <1>1, <1>2, <1>7, ComparingSet DEF ScanFile, Done
  <2>1. scanned = 0
    BY <1>1, <2>0 DEF IInv, TypeOK, Scanning
  <2>2. TableOf(set[1]) = <<>> /\ reported' = reported
    BY <2>0, <2>1 DEF ScanEmpty, Current
  <2>3. reported = {}
    BY <1>1, <1>7, <2>1 DEF IInv, Reported, Done
  <2>4. Reported'
    BY <1>1, <1>7, <2>2, <2>3, TableOfStays DEF Reported
  <2> QED
    BY <1>3, <1>6, <2>4 DEF IInv
<1>8. CASE ~Comparing
  <2>1. reported' = reported \cup {c \in Clusters : Offset(TableOf(Current), c) # 0}
    BY DEF ScanEmpty, ScanFile, Offset
  <2>2. Reported'
    BY <1>1, <1>8, <2>1, ReportMore
  <2> QED
    BY <1>3, <1>6, <2>2 DEF IInv
<1> QED
  BY <1>7, <1>8

LEMMA CompareStep == ASSUME IInv, Compare PROVE IInv'
<1>1. /\ phase = "find" /\ phase' = "scan" /\ scanned' = scanned + 1
      /\ UNCHANGED <<world, at, index, set, lost, reading, pointed, copy>>
      /\ Done /\ Done' /\ Comparing /\ scanned < Len(set)
      /\ WalkTypeOK /\ WalkInv /\ reading = NoCluster /\ copy = <<>> /\ DOMAIN copy = {}
  BY DEF Compare, Done, IInv, InTurn, Finding, TypeOK
<1>2. Len(set) = 1 /\ scanned = 0 /\ Current = set[1]
  <2>1. Len(set) = 1
    BY <1>1, ComparingSet
  <2>2. scanned = 0
    BY <1>1, <2>1 DEF IInv, TypeOK
  <2> QED
    BY <2>1, <2>2 DEF Current
<1>3. WalkTypeOK' /\ WalkInv'
  BY <1>1, DoneInv DEF WalkTypeOK
<1>4. IsStart(index)
  BY <1>1, WorldTypes DEF IInv, Finding, Compare, IsStart, WalkTypeOK
<1>5. reported = {}
  BY <1>1, <1>2 DEF IInv, Reported
<1>6. reported' = {c \in Clusters :
                      Offset(TableOf(set[1]), c) # Offset(world.snaps[index].table, c)}
  BY <1>2, <1>5 DEF Compare, Differs
<1>7. TypeOK' /\ InTurn' /\ Finding' /\ Copied'
  BY <1>1, <1>2, <1>3, <1>6 DEF TypeOK, InTurn, Finding, Copied, IInv
<1>8. TableOf(set[1]) # <<>> /\ scanned' = 1
  BY <1>1, <1>2 DEF IInv, Finding
<1>9. index \in 2..Len(world.snaps)
  BY <1>4 DEF IsStart
<1>10. Reported'
  BY <1>1, <1>4, <1>6, <1>8, <1>9, TableOfStays DEF Reported
<1> QED
  BY <1>3, <1>7, <1>10 DEF IInv

LEMMA QueryReturnsStep == ASSUME IInv, QueryReturns PROVE IInv'
<1>1. /\ phase = "scan" /\ phase' = "answered" /\ scanned = Len(set)
      /\ UNCHANGED <<world, at, index, set, lost, scanned, reported, reading, pointed, copy>>
      /\ Done /\ Done' /\ WalkTypeOK /\ WalkInv
  BY DEF QueryReturns, Done, IInv, TypeOK, queryVars
<1>2. WalkTypeOK' /\ WalkInv'
  BY <1>1, DoneInv DEF WalkTypeOK
<1>3. TypeOK' /\ InTurn' /\ Finding'
  BY <1>1, <1>2 DEF TypeOK, InTurn, Finding, IInv
<1>4. Copied' /\ Reported'
  BY <1>1, CopiedStays, TableOfStays DEF IInv, Reported
<1> QED
  BY <1>2, <1>3, <1>4 DEF IInv

LEMMA ScanKeeps == ASSUME IInv, Scan PROVE IInv'
<1>1. CASE ScanFails
  BY <1>1, QueryFailStep DEF ScanFails, Scanning
<1>2. CASE FindFails
  <2>1. phase \in {"scan", "find"} /\ UNCHANGED queryVars /\ \E n \in 0..2 : Fail(n)
    BY <1>2 DEF FindFails, Scanning
  <2> QED
    BY <2>1, QueryFailStep
<1>3. CASE StartNotFound
  BY <1>3, QueryFailStep DEF StartNotFound
<1> QED
  BY <1>1, <1>2, <1>3, ScanStep, SearchStep, CompareStep, QueryReturnsStep DEF Scan

-----------------------------------------------------------------------------
(* The reads.                                                              *)

LEMMA ReadFrame ==
    ASSUME IInv, phase = "answered", UNCHANGED <<walkVars, scanned, reported>>,
           reading' \in reported \cup {NoCluster}, pointed' \in BOOLEAN,
           DOMAIN copy' \subseteq reported, Copied'
    PROVE  IInv'
<1>1. UNCHANGED <<world, phase, at, index, set, lost>> /\ Done
  BY DEF walkVars, Done
<1>2. WalkTypeOK' /\ WalkInv'
  BY <1>1, DoneInv DEF IInv, TypeOK, WalkTypeOK, Done
<1>3. TypeOK' /\ InTurn' /\ Finding'
  BY <1>1, <1>2 DEF IInv, TypeOK, InTurn, Finding
<1>4. Reported'
  BY <1>1, TableOfStays DEF IInv, Reported, Done
<1> QED
  BY <1>2, <1>3, <1>4 DEF IInv

LEMMA ReadKeeps == ASSUME IInv, Read \/ \E c \in Clusters : ReadBegin(c) PROVE IInv'
<1>0. Copied /\ reading \in reported \cup {NoCluster} /\ DOMAIN copy \subseteq reported
  BY DEF IInv, TypeOK
<1>1. CASE \E c \in Clusters : ReadBegin(c)
  <2>1. /\ phase = "answered" /\ UNCHANGED <<walkVars, scanned, reported, copy>>
        /\ reading' \in reported /\ pointed' \in BOOLEAN
    BY <1>1 DEF ReadBegin
  <2>2. Copied'
    BY <1>0, <2>1, CopiedStays DEF walkVars
  <2> QED
    BY <1>0, <2>1, <2>2, ReadFrame
<1>2. CASE ReadPoint \/ ReadAgain
  <2>1. /\ phase = "answered" /\ UNCHANGED <<walkVars, scanned, reported, reading, copy>>
        /\ pointed' \in BOOLEAN
    BY <1>2 DEF ReadPoint, ReadAgain, IInv, InTurn
  <2>2. Copied'
    BY <1>0, <2>1, CopiedStays DEF walkVars
  <2> QED
    BY <1>0, <2>1, <2>2, ReadFrame
<1>3. CASE ReadServe
  <2>1. /\ phase = "answered" /\ UNCHANGED <<walkVars, world, set, scanned, reported, pointed>>
        /\ reading' = NoCluster /\ reading \in reported
    BY <1>0, <1>3 DEF ReadServe, IInv, InTurn, walkVars
  <2>2. PICK k \in Serving(reading) :
           copy' = [c \in DOMAIN copy \cup {reading} |->
                      IF c = reading THEN <<set[k].file, Offset(TableOf(set[k]), reading)>>
                                     ELSE copy[c]]
    BY <1>3 DEF ReadServe
  <2>3. /\ DOMAIN copy' = DOMAIN copy \cup {reading}
        /\ copy'[reading] = <<set[k].file, Offset(TableOf(set[k]), reading)>>
        /\ \A c \in DOMAIN copy : c # reading => copy'[c] = copy[c]
    BY <2>2
  <2>4. Copied'
    BY <1>0, <2>1, <2>3, TableOfStays DEF Copied
  <2> QED
    BY <1>0, <2>1, <2>3, <2>4, ReadFrame DEF IInv, TypeOK
<1> QED
  BY <1>1, <1>2, <1>3 DEF Read

LEMMA StutterKeeps == ASSUME IInv, UNCHANGED vars PROVE IInv'
<1>1. /\ UNCHANGED <<world, phase, at, index, set, lost>>
      /\ UNCHANGED <<scanned, reported, reading, pointed, copy>>
  BY DEF vars, walkVars, queryVars
<1>2. WalkTypeOK' /\ WalkInv'
  BY <1>1 DEF IInv, TypeOK, WalkTypeOK, WalkInv, LeadsOn, OnPath, NotAtStart, AtEnd, Searching,
              Found, TablesRight, NoneLost, Under, Done, Seen, Back, Backing, Full, IsPath, Once,
              EndsRight, TableRight
<1>3. TypeOK' /\ InTurn'
  BY <1>1, <1>2 DEF IInv, TypeOK, InTurn
<1>4. Finding' /\ Reported' /\ Copied'
  BY <1>1, TableOfStays, CopiedStays DEF IInv, Finding, Reported, Done
<1> QED
  BY <1>2, <1>3, <1>4 DEF IInv

-----------------------------------------------------------------------------
(* What the disk is at the end and at the start, and what the set says.    *)

LEMMA SetFacts ==
    ASSUME WalkTypeOK, WalkInv, Done
    PROVE  /\ world \in Worlds /\ Len(set) \in Nat \ {0} /\ DOMAIN set = 1..Len(set)
           /\ \A k \in DOMAIN set : set[k].file \in Files /\ set[k].file # NoFile
           /\ IsPath /\ Once /\ EndsRight
<1>1. set # <<>> /\ IsPath /\ Once /\ EndsRight
  BY DEF WalkInv, Found
<1>2. world \in Worlds
  BY DEF WalkTypeOK
<1> QED
  BY <1>1, <1>2, SetTypes, NamesAssumption

\* Only the first file of the set can be read through the table of a snapshot.
LEMMA OnlyFirst ==
    ASSUME WalkTypeOK, WalkInv, Done, NEW k \in DOMAIN set
    PROVE  \/ TableOf(set[k]) = world.active[set[k].file]
           \/ k = 1 /\ world.type = "internal" /\ set[1].file = Top
<1>1. TableRight(k) /\ IsPath /\ Once /\ 1 \in DOMAIN set
  BY SetFacts DEF WalkInv, TablesRight
<1>2. CASE set[k].table = 0
  BY <1>2 DEF TableOf
<1>3. CASE set[k].table # 0
  BY <1>1, <1>3 DEF TableRight, IsPath, Once
<1> QED
  BY <1>2, <1>3

LEMMA EndCases ==
    ASSUME world \in Worlds, NEW c
    PROVE  /\ world.type = "external" => EndContent(c) = ContentFrom(Backing(Top), c)
           /\ world.type = "internal" => EndContent(c) = ContentOfSnap(set[1].table, c)
           /\ world.type = "default" => EndContent(c) = ContentFrom(Top, c)
BY DEF EndContent

LEMMA StartCases ==
    ASSUME world \in Worlds, NEW c
    PROVE  /\ Full => StartContent(c) = Zeros
           /\ ~Full /\ world.type = "external" =>
                  StartContent(c) = ContentFrom(Backing(world.start), c)
           /\ ~Full /\ world.type = "internal" => StartContent(c) = ContentOfSnap(StartSnap, c)
BY DEF StartContent

\* The disk at the end, as far down the set as no file has had the cluster.
LEMMA EndAt ==
    ASSUME WalkTypeOK, WalkInv, Done, NEW c
    PROVE  \A k \in DOMAIN set :
              (\A l \in 1..(k - 1) : ~Has(l, c)) =>
                 EndContent(c) = IF Has(k, c)
                                 THEN <<set[k].file, Offset(TableOf(set[k]), c)>>
                                 ELSE ContentFrom(Backing(set[k].file), c)
<1> DEFINE Right(k) == (\A l \in 1..(k - 1) : ~Has(l, c)) =>
                 EndContent(c) = IF Has(k, c)
                                 THEN <<set[k].file, Offset(TableOf(set[k]), c)>>
                                 ELSE ContentFrom(Backing(set[k].file), c)
           S == {n \in Nat : n + 1 \in DOMAIN set => Right(n + 1)}
<1>1. /\ world \in Worlds /\ Len(set) \in Nat \ {0} /\ DOMAIN set = 1..Len(set)
      /\ \A k \in DOMAIN set : set[k].file \in Files
      /\ IsPath /\ Once
  BY SetFacts
<1>2. ASSUME NEW k \in DOMAIN set, TableOf(set[k]) = world.active[set[k].file],
             EndContent(c) = ContentFrom(set[k].file, c)
      PROVE  Right(k)
  <2>1. set[k].file \in Files
    BY <1>1
  <2> QED
    BY <1>1, <1>2, <2>1, ContentUnfolds DEF Has
<1>3. Right(1)
  <2>1. 1 \in DOMAIN set
    BY <1>1
  <2>2. set[1].file = IF world.type = "external" THEN Backing(Top) ELSE Top
    BY <1>1 DEF IsPath
  <2>3. CASE world.type = "internal"
    <3>1. set[1].table # 0 /\ set[1].file = Top
      BY <2>1, <2>2, <2>3 DEF WalkInv, TablesRight, TableRight
    <3>2. TableOf(set[1]) = world.snaps[set[1].table].table
      BY <3>1 DEF TableOf
    <3>3. EndContent(c) = ContentOfSnap(set[1].table, c)
      BY <1>1, <2>3, EndCases
    <3> QED
      BY <3>1, <3>2, <3>3 DEF ContentOfSnap, Has
  <2>4. CASE world.type # "internal"
    <3>1. TableOf(set[1]) = world.active[set[1].file]
      BY <2>1, <2>4, OnlyFirst
    <3>2. EndContent(c) = ContentFrom(set[1].file, c)
      BY <1>1, <2>2, <2>4, EndCases, WorldTypes
    <3> QED
      BY <1>2, <2>1, <3>1, <3>2
  <2> QED
    BY <2>3, <2>4
<1>4. ASSUME NEW k \in DOMAIN set, k + 1 \in DOMAIN set, Right(k) PROVE Right(k + 1)
  <2> SUFFICES ASSUME \A l \in 1..k : ~Has(l, c) PROVE Right(k + 1)
    <3>1. k \in Nat /\ (k + 1) - 1 = k
      BY <1>1
    <3> QED
      BY <3>1
  <2>1. k \in 1..k /\ k + 1 # 1 /\ k \in 1..(Len(set) - 1) /\ \A l \in 1..(k - 1) : l \in 1..k
    BY <1>1, <1>4
  <2>2. EndContent(c) = ContentFrom(Backing(set[k].file), c)
    BY <1>4, <2>1
  <2>3. set[k + 1].file = Backing(set[k].file)
    BY <1>1, <2>1 DEF IsPath
  <2>4. TableOf(set[k + 1]) = world.active[set[k + 1].file]
    BY <1>4, <2>1, OnlyFirst
  <2> HIDE DEF Right
  <2> QED
    BY <1>2, <1>4, <2>2, <2>3, <2>4
<1> HIDE DEF Right
<1>5. 0 \in S
  BY <1>3
<1>6. ASSUME NEW n \in Nat, n \in S PROVE n + 1 \in S
  <2>1. CASE (n + 1) + 1 \in DOMAIN set
    <3>1. n + 1 \in DOMAIN set
      BY <1>1, <2>1
    <3> QED
      BY <1>4, <1>6, <2>1, <3>1
  <2> QED
    BY <2>1
<1> HIDE DEF S
<1>7. Nat \subseteq S
  BY <1>5, <1>6, Induct
<1>8. ASSUME NEW k \in DOMAIN set PROVE Right(k)
  <2>1. k - 1 \in Nat /\ (k - 1) + 1 = k
    BY <1>1
  <2> QED
    BY <1>7, <2>1 DEF S
<1> QED
  BY <1>8 DEF Right

\* The newest file of the set that has the cluster, or what is below the set.
LEMMA EndIs ==
    ASSUME WalkTypeOK, WalkInv, Done, NEW c
    PROVE  /\ \A k \in Serving(c) :
                 EndContent(c) = <<set[k].file, Offset(TableOf(set[k]), c)>>
           /\ Having(c) = {} => EndContent(c) = ContentFrom(Backing(set[Len(set)].file), c)
           /\ Having(c) # {} => Serving(c) # {}
<1>1. Len(set) \in Nat \ {0} /\ DOMAIN set = 1..Len(set)
  BY SetFacts
<1>2. Having(c) = {k \in DOMAIN set : Has(k, c)}
  BY DEF Having, Has
<1>3. ASSUME NEW k \in Serving(c)
      PROVE  EndContent(c) = <<set[k].file, Offset(TableOf(set[k]), c)>>
  <2>1. k \in DOMAIN set /\ Has(k, c) /\ \A l \in DOMAIN set : Has(l, c) => k <= l
    BY <1>2 DEF Serving
  <2>2. \A l \in 1..(k - 1) : l \in DOMAIN set /\ ~(k <= l)
    BY <1>1, <2>1
  <2>3. \A l \in 1..(k - 1) : ~Has(l, c)
    BY <2>1, <2>2
  <2> QED
    BY <2>1, <2>3, EndAt
<1>4. ASSUME Having(c) = {}
      PROVE  EndContent(c) = ContentFrom(Backing(set[Len(set)].file), c)
  <2>1. Len(set) \in DOMAIN set /\ \A l \in 1..(Len(set) - 1) : l \in DOMAIN set
    BY <1>1
  <2>2. \A l \in DOMAIN set : ~Has(l, c)
    BY <1>2, <1>4
  <2> QED
    BY <2>1, <2>2, EndAt
<1>5. Having(c) # {} => Serving(c) # {}
  <2>1. Having(c) \subseteq Nat
    BY <1>1 DEF Having
  <2> QED
    BY <2>1, Least DEF Serving
<1> QED
  BY <1>3, <1>4, <1>5

\* The disk at the start is what is below the set.
LEMMA StartIs ==
    ASSUME WalkTypeOK, WalkInv, Done, ~Comparing, NEW c
    PROVE  StartContent(c) = ContentFrom(Backing(set[Len(set)].file), c)
<1> DEFINE last == set[Len(set)].file
<1>1. world \in Worlds /\ EndsRight
  BY SetFacts
<1>2. world.type = "default" \/ world.type = "external" \/ world.type = "internal"
  BY <1>1, WorldTypes
<1>3. CASE Full
  <2>1. world.start \notin Files
    BY <1>1, <1>3, WorldKinds
  <2>2. Backing(last) = NoFile
    BY <1>1, <1>3, <2>1 DEF EndsRight
  <2> QED
    BY <1>1, <1>3, <2>2, StartCases, ContentOfNoFile
<1>4. CASE ~Full
  <2>1. world.type = "external" /\ world.start \in Files
    BY <1>1, <1>2, <1>4, WorldKinds DEF Comparing, Full
  <2>2. last = world.start
    BY <1>1, <2>1 DEF EndsRight
  <2> QED
    BY <1>1, <1>4, <2>1, <2>2, StartCases
<1> QED
  BY <1>3, <1>4

\* A query of internal snapshots stops at the snapshot that is the start.
LEMMA StartSnapIs ==
    ASSUME WalkTypeOK, NEW s, IsStart(s)
    PROVE  StartSnap = s
<1> DEFINE named == {i \in 2..Len(world.snaps) : world.snaps[i].name = world.startSp}
           found == CHOOSE i \in named : \A j \in named : i <= j
<1>1. Len(world.snaps) \in Nat
  BY WorldTypes DEF WalkTypeOK
<1>2. s \in named
  BY DEF IsStart
<1>3. ASSUME NEW j \in named PROVE s <= j
  <2>1. s \in Int /\ j \in Int /\ 2 <= j
    BY <1>1, <1>2
  <2>2. ~(j \in 2..(s - 1))
    BY DEF IsStart
  <2> QED
    BY <2>1, <2>2
<1>4. named \subseteq Int
  BY <1>1
<1> HIDE DEF named
<1>5. found \in named /\ \A j \in named : found <= j
  BY <1>2, <1>3
<1>6. found <= s /\ s <= found
  BY <1>2, <1>3, <1>5
<1>7. found \in Int /\ s \in Int
  BY <1>2, <1>4, <1>5
<1>8. found = s
  BY <1>6, <1>7
<1> QED
  BY <1>8 DEF StartSnap, named

LEMMA ComparingContents ==
    ASSUME WalkTypeOK, WalkInv, Done, Comparing, NEW s, IsStart(s), NEW c
    PROVE  /\ EndContent(c) = ContentOfSnap(set[1].table, c)
           /\ StartContent(c) = ContentOfSnap(s, c)
           /\ Offset(TableOf(set[1]), c) = Offset(world.snaps[set[1].table].table, c)
           /\ Len(set) = 1 /\ set[1].file = Top
<1>1. world \in Worlds /\ world.type = "internal" /\ ~Full /\ Len(set) = 1
      /\ set[1].file = Top /\ set[1].table \in 1..Len(world.snaps)
  BY ComparingSet, SetFacts DEF Comparing
<1>2. set[1].table # 0
  BY <1>1
<1> QED
  BY <1>1, <1>2, EndCases, StartCases, StartSnapIs DEF TableOf

\* What an answered query has reported.
LEMMA Answered ==
    ASSUME IInv, phase = "answered"
    PROVE  /\ WalkTypeOK /\ WalkInv /\ Done /\ Copied /\ reported \subseteq Clusters
           /\ ~Comparing => \A c \in Clusters : c \in reported <=> Having(c) # {}
           /\ Comparing /\ ~EndIsEmpty =>
                 \E s : /\ IsStart(s)
                        /\ \A c \in Clusters : c \in reported <=>
                              Offset(TableOf(set[1]), c) # Offset(world.snaps[s].table, c)
<1>1. WalkTypeOK /\ WalkInv /\ Done /\ Reported /\ scanned = Len(set) /\ Copied
      /\ reported \subseteq Clusters
  BY DEF IInv, TypeOK, InTurn, Done
<1>2. Len(set) \in Nat \ {0} /\ DOMAIN set = 1..Len(set)
  BY <1>1, SetFacts
<1>3. ASSUME ~Comparing, NEW c \in Clusters PROVE c \in reported <=> Having(c) # {}
  <2>1. \A k \in DOMAIN set : k > Len(set) - scanned
    BY <1>1, <1>2
  <2>2. c \in reported <=> \E k \in DOMAIN set : Has(k, c)
    BY <1>1, <1>3, <2>1 DEF Reported
  <2> QED
    BY <2>2 DEF Has, Having
<1>4. ASSUME Comparing, ~EndIsEmpty
      PROVE  \E s : /\ IsStart(s)
                    /\ \A c \in Clusters : c \in reported <=>
                          Offset(TableOf(set[1]), c) # Offset(world.snaps[s].table, c)
  BY <1>1, <1>2, <1>4 DEF Reported, EndIsEmpty
<1> QED
  BY <1>1, <1>3, <1>4

LEMMA CopyHolds == IInv => CopyIsDisk
<1> SUFFICES ASSUME IInv, phase = "answered", ~EndIsEmpty, DOMAIN copy = reported,
                    NEW c \in Clusters
             PROVE  EndContent(c) = IF c \in reported THEN copy[c] ELSE StartContent(c)
  BY DEF CopyIsDisk
<1>1. WalkTypeOK /\ WalkInv /\ Done /\ Copied
  BY Answered
<1>2. ASSUME c \in reported PROVE EndContent(c) = copy[c]
  BY <1>1, <1>2, EndIs DEF Copied
<1>3. ASSUME c \notin reported PROVE EndContent(c) = StartContent(c)
  <2>1. CASE ~Comparing
    <3>1. Having(c) = {}
      BY <1>3, <2>1, Answered
    <3> QED
      BY <1>1, <2>1, <3>1, EndIs, StartIs
  <2>2. CASE Comparing
    <3>1. PICK s : /\ IsStart(s)
                   /\ \A d \in Clusters : d \in reported <=>
                         Offset(TableOf(set[1]), d) # Offset(world.snaps[s].table, d)
      BY <2>2, Answered
    <3>2. Offset(world.snaps[set[1].table].table, c) = Offset(world.snaps[s].table, c)
      BY <1>1, <1>3, <2>2, <3>1, ComparingContents
    <3> QED
      BY <1>1, <2>2, <3>1, <3>2, ComparingContents DEF ContentOfSnap
  <2> QED
    BY <2>1, <2>2
<1> QED
  BY <1>2, <1>3

\* The set is on the trail of the image.
LEMMA SetOnTrail ==
    ASSUME WalkTypeOK, WalkInv, Done
    PROVE  \E a \in {0, 1} : \A k \in DOMAIN set : set[k].file = Trail(Top)[a + (k - 1)]
<1> DEFINE a == IF world.type = "external" THEN 1 ELSE 0
           t == Trail(Top)
           S == {n \in Nat : n + 1 \in DOMAIN set => set[n + 1].file = t[a + n]}
<1>1. /\ world \in Worlds /\ Len(set) \in Nat \ {0} /\ DOMAIN set = 1..Len(set)
      /\ \A k \in DOMAIN set : set[k].file \in Files
      /\ IsPath
  BY SetFacts
<1>2. Top \in Links /\ Backing(Top) = Down(Top)
  BY <1>1, NamesAssumption, DownTypes DEF Links
<1>3. IsTrail(t, Top)
  BY <1>1, <1>2, TrailIs
<1> HIDE DEF t
<1>4. t[0] = Top /\ t[1] = Backing(Top)
  <2>1. t[0 + 1] = Down(t[0]) /\ t[0] = Top
    BY <1>3 DEF IsTrail
  <2> QED
    BY <1>2, <2>1
<1>5. 0 \in S
  BY <1>1, <1>4 DEF IsPath
<1>6. ASSUME NEW n \in Nat, n \in S, (n + 1) + 1 \in DOMAIN set
      PROVE  set[(n + 1) + 1].file = t[a + (n + 1)]
  <2>1. n + 1 \in DOMAIN set /\ n + 1 \in 1..(Len(set) - 1)
    BY <1>1, <1>6
  <2>2. set[n + 1].file = t[a + n] /\ set[n + 1].file \in Files
    BY <1>1, <1>6, <2>1
  <2>3. set[(n + 1) + 1].file = Backing(t[a + n]) /\ Backing(t[a + n]) = Down(t[a + n])
    BY <1>1, <2>1, <2>2, DownTypes DEF IsPath
  <2>4. a + n \in Nat /\ a + (n + 1) = (a + n) + 1
    OBVIOUS
  <2>5. t[(a + n) + 1] = Down(t[a + n])
    BY <1>3, <2>4 DEF IsTrail
  <2> QED
    BY <2>3, <2>4, <2>5
<1>7. \A n \in Nat : n \in S => n + 1 \in S
  BY <1>6
<1> HIDE DEF S
<1>8. Nat \subseteq S
  BY <1>5, <1>7, Induct
<1>9. ASSUME NEW k \in DOMAIN set PROVE set[k].file = t[a + (k - 1)]
  <2>1. k - 1 \in Nat /\ (k - 1) + 1 = k
    BY <1>1
  <2> QED
    BY <1>8, <2>1 DEF S
<1>10. a \in {0, 1}
  OBVIOUS
<1> QED
  BY <1>9, <1>10 DEF t

\* In a chain that ends, what a reader finds below a file is of another file.
LEMMA NotBelow ==
    ASSUME WalkTypeOK, WalkInv, Done, Acyclic,
           NEW k \in DOMAIN set, NEW l \in DOMAIN set, k <= l, NEW c, NEW o
    PROVE  ContentFrom(Backing(set[l].file), c) # <<set[k].file, o>>
<1> DEFINE t == Trail(Top)
           f == set[l].file
           b == Backing(f)
<1>1. /\ world \in Worlds /\ k \in Nat /\ l \in Nat /\ 1 <= k
      /\ set[k].file \in Files /\ f \in Files
  BY SetFacts
<1>2. f \in Links /\ b = Down(f) /\ b \in Links /\ Top \in Links /\ NoFile \notin Files
  BY <1>1, DownTypes, NamesAssumption DEF Links
<1>3. PICK a \in {0, 1} : \A n \in DOMAIN set : set[n].file = t[a + (n - 1)]
  BY SetOnTrail
<1>4. f = t[a + (l - 1)] /\ set[k].file = t[a + (k - 1)]
  BY <1>3
<1> HIDE DEF t, f
<1>5. a + (l - 1) \in Nat /\ a + (k - 1) \in Nat /\ a + l \in Nat /\ (a + (l - 1)) + 1 = a + l
  BY <1>1, <1>3
<1>6. b = t[a + l]
  <2>1. IsTrail(t, Top)
    BY <1>1, <1>2, TrailIs DEF t
  <2>2. t[(a + (l - 1)) + 1] = Down(t[a + (l - 1)])
    BY <1>5, <2>1 DEF IsTrail
  <2> QED
    BY <1>2, <1>4, <1>5, <2>2
<1> HIDE DEF b
<1>7. ASSUME NEW m \in Nat PROVE Trail(b)[m] # set[k].file
  <2>1. Trail(b)[m] = t[(a + l) + m]
    <3>1. Trail(t[a + l])[m] = t[(a + l) + m]
      BY <1>1, <1>2, <1>5, TrailFrom DEF t
    <3> QED
      BY <1>6, <3>1
  <2>2. (a + l) + m \in Nat /\ a + (k - 1) < (a + l) + m
    BY <1>1, <1>3, <1>5
  <2>3. t[a + (k - 1)] # t[(a + l) + m]
    BY <1>1, <1>2, <1>4, <1>5, <2>2, NoReturn DEF t
  <2> QED
    BY <1>4, <2>1, <2>3
<1>8. \/ ContentFrom(b, c) = Zeros
      \/ \E m \in Nat : \E p : ContentFrom(b, c) = <<Trail(b)[m], p>>
  BY <1>1, <1>2, ContentCases
<1>9. ContentFrom(b, c) # <<set[k].file, o>>
  BY <1>7, <1>8 DEF Zeros
<1> QED
  BY <1>9 DEF b, f

LEMMA ReportHolds == IInv => ReportExact
<1> SUFFICES ASSUME IInv, phase = "answered", Acyclic, ~EndIsEmpty
             PROVE  reported = {c \in Clusters : StartContent(c) # EndContent(c)}
  BY DEF ReportExact
<1>1. WalkTypeOK /\ WalkInv /\ Done /\ reported \subseteq Clusters
  BY Answered
<1>2. Len(set) \in Nat \ {0} /\ DOMAIN set = 1..Len(set)
  BY <1>1, SetFacts
<1> SUFFICES ASSUME NEW c \in Clusters
             PROVE  c \in reported <=> StartContent(c) # EndContent(c)
  BY <1>1
<1>3. CASE ~Comparing
  <2>1. StartContent(c) = ContentFrom(Backing(set[Len(set)].file), c)
    BY <1>1, <1>3, StartIs
  <2>2. c \in reported <=> Having(c) # {}
    BY <1>3, Answered
  <2>3. CASE Having(c) = {}
    BY <1>1, <2>1, <2>2, <2>3, EndIs
  <2>4. CASE Having(c) # {}
    <3>1. PICK k \in Serving(c) : EndContent(c) = <<set[k].file, Offset(TableOf(set[k]), c)>>
      BY <1>1, <2>4, EndIs
    <3>2. k \in DOMAIN set /\ Len(set) \in DOMAIN set /\ k <= Len(set)
      BY <1>2 DEF Serving, Having
    <3>3. StartContent(c) # EndContent(c)
      BY <1>1, <2>1, <3>1, <3>2, NotBelow
    <3> QED
      BY <2>2, <2>4, <3>3
  <2> QED
    BY <2>3, <2>4
<1>4. CASE Comparing
  <2>1. PICK s : /\ IsStart(s)
                 /\ \A d \in Clusters : d \in reported <=>
                       Offset(TableOf(set[1]), d) # Offset(world.snaps[s].table, d)
    BY <1>4, Answered
  <2> DEFINE oe == Offset(world.snaps[set[1].table].table, c)
             os == Offset(world.snaps[s].table, c)
             below == ContentFrom(Backing(Top), c)
  <2>2. /\ EndContent(c) = IF oe # 0 THEN <<Top, oe>> ELSE below
        /\ StartContent(c) = IF os # 0 THEN <<Top, os>> ELSE below
        /\ set[1].file = Top
        /\ c \in reported <=> oe # os
    BY <1>1, <1>4, <2>1, ComparingContents DEF ContentOfSnap
  <2>3. \A o : below # <<Top, o>>
    <3>1. 1 \in DOMAIN set
      BY <1>2
    <3> QED
      BY <1>1, <2>2, <3>1, NotBelow
  <2> HIDE DEF oe, os, below
  <2> QED
    BY <2>2, <2>3
<1> QED
  BY <1>3, <1>4

-----------------------------------------------------------------------------
(* The theorems.                                                           *)

\* Everything above holds in every reachable state.
THEOREM Invariance == Spec => []IInv
<1>1. IInv /\ [Next]_vars => IInv'
  BY WalkStep, ScanKeeps, ReadKeeps, StutterKeeps DEF Next
<1> QED
  BY IInvInit, <1>1, PTL DEF Spec

\* Every state is type correct; in particular no walk loses more than two
\* descriptors, and only what was reported is ever read.
THEOREM TypeCorrect == Spec => []TypeOK
<1>1. IInv => TypeOK
  BY DEF IInv
<1> QED
  BY <1>1, Invariance, PTL

\* A walk that succeeds has found exactly what was asked for, in chains of any
\* length, those that lead back to one of their files included.
THEOREM WalkIsExact == Spec => []FoundExactly
<1>1. IInv => FoundExactly
  BY DEF IInv, TypeOK, WalkTypeOK, WalkInv, Found, Done, TablesRight, NoneLost, Once, FoundExactly
<1> QED
  BY <1>1, Invariance, PTL

\* A query reports exactly the clusters that differ, whatever the chain and the
\* snapshots are: the scan of the set finds what a reader of the two disks,
\* each through the whole chain, would.
THEOREM ReportIsExact == Spec => []ReportExact
BY Invariance, ReportHolds, PTL

\* A copy of the disk at the start, brought up to date with the reads of what
\* was reported, is the disk at the end, chains without an end included.
THEOREM CopyIsRight == Spec => []CopyIsDisk
BY Invariance, CopyHolds, PTL
=============================================================================
