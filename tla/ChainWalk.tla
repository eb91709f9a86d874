------------------------------ MODULE ChainWalk ------------------------------
(***************************************************************************)
(* The walk from an image to its base: InitForQueryChangedDiskAreas with   *)
(* GetQCOW2Header, in physics/localread/qcow2Lib.cpp.                      *)
(*                                                                         *)
(* A query looks for the files it is about by walking down the backing     *)
(* files and, on internal snapshots, through the snapshots of the image,   *)
(* the newest first.  It opens every file it comes to; the files of the    *)
(* answer stay open.  What the files hold does not change meanwhile: the   *)
(* world, the files and what is asked of them, is chosen once.             *)
(***************************************************************************)
EXTENDS Integers, Sequences, FiniteSets

CONSTANTS
    Files,      \* paths of image files
    Top,        \* the one the query is made of: endPath
    NoFile,     \* no backing file
    Star,       \* "*", which asks for everything
    Blank,      \* the empty string
    Names,      \* names of snapshots
    Clusters,   \* guest clusters
    Worlds,     \* the situations a query may be made in
    MaxFds,     \* bound: the descriptors that are free when it begins
    Allowed     \* what may happen: reads and opens that fail ("fault")

\* An L1 table as a reader sees it: where each cluster is in the file, 0 if
\* nowhere; the empty function if it has no L2 table at all.
Tables == [Clusters -> Nat] \cup {<<>>}

\* The backing file and the table in use of each file; the snapshots of Top,
\* the newest first; the arguments of the query.
World == [backing : [Files -> Files \cup {NoFile}],
          active  : [Files -> Tables],
          snaps   : Seq([name : Names, table : Tables]),
          type    : {"default", "external", "internal"},
          start   : (Files \ {Top}) \cup {Star, Blank},
          startSp : Names \cup {Star, Blank},
          endSp   : Names \cup {Blank}]

ASSUME NamesAssumption ==
    /\ IsFiniteSet(Files) /\ Top \in Files /\ NoFile \notin Files
    /\ Star \notin Files \cup Names /\ Blank \notin Files \cup Names \cup {Star}
\* The callers refuse blank names and a query from a snapshot to itself.
ASSUME WorldsAssumption ==
    /\ Worlds \subseteq World
    /\ \A w \in Worlds :
          /\ w.type = "default"  => w.start = Star /\ w.startSp = Blank
          /\ w.type = "external" => w.start # Blank /\ w.startSp = Blank
          /\ w.type = "internal" => /\ w.start = Blank
                                    /\ w.startSp # Blank /\ w.endSp # Blank
                                    /\ w.startSp # w.endSp
          \* Such a chain is walked for ever: see the README.
          /\ w.type = "external" => w.backing[Top] # Top
ASSUME MaxFdsAssumption == MaxFds \in Nat
ASSUME AllowedAssumption == Allowed \subseteq {"fault"}

VARIABLES
    world,      \* what is asked, and of which files
    phase,      \* where the walk is
    at,         \* filePath
    index,      \* the snapshot the search is at, from 1
    set,        \* g_backingFileInfoSet: the files found, the newest first,
                \*   each with the table it is read through (0: that in use)
    lost        \* descriptors that are open and in no set

walkVars == <<world, phase, at, index, set, lost>>

Backing(f) == world.backing[f]
Full == world.start = Star \/ world.startSp = Star

\* n more files can be open at the same time.
CanOpen(n) == Len(set) + lost + n <= MaxFds

-----------------------------------------------------------------------------
WalkInit ==
    /\ world \in Worlds
    /\ phase = "walk"
    /\ at = Top
    /\ index = 0
    /\ set = <<>>
    /\ lost = 0

\* Mutant of Keep: a file that is in the set already is not added again.
KeepOnce(f, i) ==
    set' = IF \E k \in DOMAIN set : set[k].file = f
             THEN set ELSE Append(set, [file |-> f, table |-> i])

\* ncQCOW2Info is filled and appended.
Keep(f, i) == set' = Append(set, [file |-> f, table |-> i])

\* The walk returns false; n descriptors are left open.
Fail(n) ==
    /\ phase' = "failed"
    /\ lost' = lost + n
    /\ UNCHANGED <<world, at, index, set>>

\* Mutant of Continue: the walk goes on though there is no backing file.
ContinueAlways == phase' = "walk" /\ at' = Backing(at)

\* On to the backing file, if there is one.
Continue ==
    IF Backing(at) = NoFile
    THEN phase' = "walked" /\ UNCHANGED at
    ELSE phase' = "walk" /\ at' = Backing(at)

-----------------------------------------------------------------------------
\* GetQCOW2Header or OpenFile fails.
OpenFails ==
    /\ phase = "walk"
    /\ "fault" \in Allowed \/ ~CanOpen(1)
    /\ Fail(0)

\* The name of the backing file cannot be read.
BackingFails ==
    /\ "fault" \in Allowed
    /\ phase = "walk"
    /\ CanOpen(1)
    /\ Backing(at) # NoFile
    /\ Fail(1)

\* A file below the image is kept; an incremental walk ends at its start.
Below ==
    /\ phase = "walk" /\ at # Top
    /\ CanOpen(1)
    /\ Full \/ set # <<>> \/ Backing(at) # NoFile
    /\ Keep(at, 0)
    /\ IF ~Full /\ at = world.start
         THEN phase' = "walked" /\ UNCHANGED at
         ELSE Continue
    /\ UNCHANGED <<world, index, lost>>

\* An incremental walk needs two files below the image, be the first of them
\* its start or not.
TooFew ==
    /\ phase = "walk" /\ at # Top
    /\ CanOpen(1)
    /\ ~Full /\ set = <<>> /\ Backing(at) = NoFile
    /\ Fail(0)

\* The image itself.  On external snapshots it is passed over; ...
PassTop ==
    /\ phase = "walk" /\ at = Top
    /\ world.type = "external"
    /\ CanOpen(1)
    /\ Continue
    /\ UNCHANGED <<world, index, set, lost>>

\* ... by default it is kept; ...
KeepTop ==
    /\ phase = "walk" /\ at = Top
    /\ world.type = "default"
    /\ CanOpen(2)
    /\ Keep(Top, 0)
    /\ Continue
    /\ UNCHANGED <<world, index, lost>>

\* ... and on internal snapshots it is kept with the table of the snapshot
\* endSp, which is searched for.
SearchTop ==
    /\ phase = "walk" /\ at = Top
    /\ world.type = "internal"
    /\ CanOpen(2)
    /\ phase' = "search"
    /\ index' = 1
    /\ UNCHANGED <<world, at, set, lost>>

\* The header is read once more, with the file open.
HeaderAgainFails ==
    /\ phase = "walk" /\ at = Top
    /\ world.type # "external"
    /\ CanOpen(1)
    /\ "fault" \in Allowed \/ ~CanOpen(2)
    /\ Fail(1)

SearchOn ==
    /\ phase = "search"
    /\ index <= Len(world.snaps)
    /\ world.snaps[index].name # world.endSp
    /\ index' = index + 1
    /\ UNCHANGED <<world, phase, at, set, lost>>

\* Mutant of SearchFound: the table in use is kept instead of the snapshot's.
SearchFoundActive ==
    /\ phase = "search"
    /\ index <= Len(world.snaps)
    /\ world.snaps[index].name = world.endSp
    /\ Keep(Top, 0)
    /\ IF world.startSp # Star
         THEN phase' = "walked" /\ UNCHANGED at
         ELSE Continue
    /\ UNCHANGED <<world, index, lost>>

\* What changed between two snapshots is in the image itself: only a full
\* query goes on to the backing files.
SearchFound ==
    /\ phase = "search"
    /\ index <= Len(world.snaps)
    /\ world.snaps[index].name = world.endSp
    /\ Keep(Top, index)
    /\ IF world.startSp # Star
         THEN phase' = "walked" /\ UNCHANGED at
         ELSE Continue
    /\ UNCHANGED <<world, index, lost>>

NotFound ==
    /\ phase = "search"
    /\ index > Len(world.snaps)
    /\ Fail(1)

\* A header cannot be read, with one descriptor lost, or the name of a
\* snapshot in it, with two.
SearchFails ==
    /\ "fault" \in Allowed
    /\ phase = "search"
    /\ index <= Len(world.snaps)
    /\ \E n \in {1, 2} : Fail(n)

\* The start has to be met, and the callers want a file in the set.
WalkReturns ==
    /\ phase = "walked"
    /\ phase' = IF (world.start \in Files /\ at # world.start) \/ set = <<>>
                  THEN "failed" ELSE "scan"
    /\ UNCHANGED <<world, at, index, set, lost>>

Walking ==
    \/ OpenFails \/ BackingFails \/ Below \/ TooFew \/ PassTop \/ KeepTop
    \/ SearchTop \/ HeaderAgainFails \/ SearchOn \/ SearchFound \/ NotFound
    \/ SearchFails \/ WalkReturns

-----------------------------------------------------------------------------
WalkTypeOK ==
    /\ world \in Worlds
    /\ phase \in {"walk", "search", "walked", "scan", "find", "answered",
                  "failed"}
    /\ at \in Files
    /\ index \in 0..(Len(world.snaps) + 1)
    /\ set \in Seq([file : Files, table : 0..Len(world.snaps)])
    /\ lost \in 0..2

\* The files of the set are a path down the chain that begins at the image,
\* or below it on external snapshots, and leaves no file out.
IsPath ==
    /\ set[1].file = IF world.type = "external" THEN Backing(Top) ELSE Top
    /\ \A k \in 1..(Len(set) - 1) : set[k + 1].file = Backing(set[k].file)

\* Where the path has to end.
EndsRight ==
    LET last == set[Len(set)].file
    IN  CASE world.start \in Files -> last = world.start
          [] world.type = "internal" /\ ~Full -> last = Top
          [] OTHER -> Backing(last) = NoFile

\* The table the image is read through: the newest snapshot with the name.
TableRight(k) ==
    IF set[k].file = Top /\ world.type = "internal"
    THEN /\ set[k].table # 0
         /\ world.snaps[set[k].table].name = world.endSp
         /\ \A i \in 1..(set[k].table - 1) : world.snaps[i].name # world.endSp
    ELSE set[k].table = 0

\* A walk that succeeds has found exactly what was asked for: every file from
\* the image (or below it) to the start or the base, in this order and each
\* once, the image with the table of the end snapshot; and it has lost none of
\* the descriptors it opened on the way.
FoundExactly ==
    phase \notin {"walk", "search", "walked", "failed"} =>
        /\ set # <<>> /\ IsPath /\ EndsRight
        /\ \A k \in DOMAIN set : TableRight(k)
        /\ \A k, l \in DOMAIN set : set[k].file = set[l].file => k = l
        /\ lost = 0
=============================================================================
