---------------------------- MODULE SnapshotQuery ----------------------------
(***************************************************************************)
(* What changed between two snapshots: QueryChangedAreasOnExtSp and        *)
(* QueryChangedAreasOnIntSp with QueryChangedAreas, after the walk of      *)
(* ChainWalk, and the reads by which a caller then copies what changed:    *)
(* physics/localread/qcow2Lib.cpp.                                         *)
(*                                                                         *)
(* A query scans the files of its set, the oldest first.  Between external *)
(* snapshots a cluster has changed if a file of the set has it; between    *)
(* internal ones if the tables of the two snapshots differ about it.  How  *)
(* the clusters become areas of sectors is the subject of ChangedAreas;    *)
(* here an area is a set of clusters.                                      *)
(***************************************************************************)
EXTENDS ChainWalk

CONSTANTS NoCluster     \* no cluster is being read

ASSUME NoClusterAssumption == NoCluster \notin Clusters

VARIABLES
    scanned,    \* how many files of the set have been scanned
    reported,   \* the clusters in changeInfoMap
    reading,    \* the cluster Qcow2Lib_Read is to read
    pointed,    \* the globals are pointed at Top
    copy        \* history: what was read of each cluster that was read

queryVars == <<scanned, reported, reading, pointed, copy>>
vars == <<walkVars, queryVars>>

Offset(t, c) == IF t = <<>> THEN 0 ELSE t[c]

\* The table a file of the set is read through.
TableOf(e) == IF e.table = 0 THEN world.active[e.file]
                             ELSE world.snaps[e.table].table

\* isIncreBackupOnInternalSnapshot
Comparing == world.type = "internal" /\ world.startSp # Star

-----------------------------------------------------------------------------
(* What a reader of the disk finds, by the format: the data of the newest  *)
(* file that has the cluster, which its place in the file stands for.      *)

Zeros == <<>>

\* The files from f down, NoFile behind the last.  A chain that leads back to a
\* file shows nothing new after as many steps as there are files.
Steps == 0..Cardinality(Files)
Down(f) == IF f = NoFile THEN NoFile ELSE Backing(f)
Line(f) ==
    LET Nth[n \in Steps] == IF n = 0 THEN f ELSE Down(Nth[n - 1])
    IN  Nth

\* The first file from f down that has c.
ContentFrom(f, c) ==
    LET having == {n \in Steps : /\ Line(f)[n] # NoFile
                                 /\ Offset(world.active[Line(f)[n]], c) # 0}
        first == CHOOSE n \in having : \A m \in having : n <= m
    IN  IF having = {} THEN Zeros
        ELSE <<Line(f)[first], Offset(world.active[Line(f)[first]], c)>>

\* The same of a snapshot of Top.
ContentOfSnap(i, c) ==
    LET o == Offset(world.snaps[i].table, c)
    IN  IF o # 0 THEN <<Top, o>> ELSE ContentFrom(Backing(Top), c)

\* The newest snapshot with the name that is not the newest of all, which is
\* never taken for a start.
StartSnap ==
    LET named == {i \in 2..Len(world.snaps) : world.snaps[i].name = world.startSp}
    IN  CHOOSE i \in named : \A j \in named : i <= j

\* The disk as the caller's last copy has it: nothing, or the disk at startSp,
\* or below startPath.
StartContent(c) ==
    IF Full THEN Zeros
    ELSE IF world.type = "external" THEN ContentFrom(Backing(world.start), c)
    ELSE ContentOfSnap(StartSnap, c)

\* The disk as it is to be copied: below Top, or at endSp.
EndContent(c) ==
    CASE world.type = "external" -> ContentFrom(Backing(Top), c)
      [] world.type = "internal" -> ContentOfSnap(set[1].table, c)
      [] OTHER                   -> ContentFrom(Top, c)

-----------------------------------------------------------------------------
Init ==
    /\ WalkInit
    /\ scanned = 0
    /\ reported = {}
    /\ reading = NoCluster
    /\ pointed = FALSE
    /\ copy = <<>>

Walk == Walking /\ UNCHANGED queryVars

\* The oldest file that has not been scanned.
Current == set[Len(set) - scanned]

Scanning ==
    /\ phase = "scan"
    /\ scanned < Len(set)

\* The L1 table has no L2 table in it: there is no data in the file.
ScanEmpty ==
    /\ Scanning
    /\ TableOf(Current) = <<>>
    /\ scanned' = scanned + 1
    /\ UNCHANGED <<walkVars, reported, reading, pointed, copy>>

\* What the file has allocated has changed.
ScanFile ==
    /\ Scanning
    /\ TableOf(Current) # <<>>
    /\ ~Comparing
    /\ reported' = reported \cup {c \in Clusters : Offset(TableOf(Current), c) # 0}
    /\ scanned' = scanned + 1
    /\ UNCHANGED <<walkVars, reading, pointed, copy>>

\* The L1 table cannot be read.
ScanFails ==
    /\ "fault" \in Allowed
    /\ Scanning
    /\ Fail(0)
    /\ UNCHANGED queryVars

\* The start is searched for behind the newest snapshot.
FindStart ==
    /\ Scanning
    /\ TableOf(Current) # <<>>
    /\ Comparing
    /\ CanOpen(1)
    /\ phase' = "find"
    /\ index' = 2
    /\ UNCHANGED <<world, at, set, lost, queryVars>>

FindOn ==
    /\ phase = "find"
    /\ index <= Len(world.snaps)
    /\ world.snaps[index].name # world.startSp
    /\ index' = index + 1
    /\ UNCHANGED <<world, phase, at, set, lost, queryVars>>

\* A header cannot be read, with nothing lost, or a name, with a descriptor.
FindFails ==
    /\ \/ phase = "find" /\ index <= Len(world.snaps)
       \/ Scanning /\ TableOf(Current) # <<>> /\ Comparing
    /\ \/ ~CanOpen(1) /\ Fail(0)
       \/ "fault" \in Allowed /\ CanOpen(1) /\ \E n \in {0, 1} : Fail(n)
    /\ UNCHANGED queryVars

StartNotFound ==
    /\ phase = "find"
    /\ index > Len(world.snaps)
    /\ Fail(0)
    /\ UNCHANGED queryVars

\* Mutant of Differs: a cluster the end snapshot does not have is left out.
DiffersAtEnd(t1, t2, c) == Offset(t1, c) # Offset(t2, c) /\ Offset(t1, c) # 0

Differs(t1, t2, c) == Offset(t1, c) # Offset(t2, c)

\* The tables of the end and of the start are compared, cluster by cluster.
Compare ==
    /\ phase = "find"
    /\ index <= Len(world.snaps)
    /\ world.snaps[index].name = world.startSp
    /\ reported' = reported \cup
          {c \in Clusters : Differs(TableOf(Current), world.snaps[index].table, c)}
    /\ scanned' = scanned + 1
    /\ phase' = "scan"
    /\ UNCHANGED <<world, at, index, set, lost, reading, pointed, copy>>

QueryReturns ==
    /\ phase = "scan"
    /\ scanned = Len(set)
    /\ phase' = "answered"
    /\ UNCHANGED <<world, at, index, set, lost, queryVars>>

Scan == \/ ScanEmpty \/ ScanFile \/ ScanFails \/ FindStart \/ FindOn \/ FindFails
        \/ StartNotFound \/ Compare \/ QueryReturns

-----------------------------------------------------------------------------
(* Qcow2Lib_Read, by a handle of Top, of a cluster that was reported.  By  *)
(* default it is the library that queries, and nobody is told the areas.   *)

\* The globals may still be pointed at Top, or not yet.
ReadBegin(c) ==
    /\ phase = "answered"
    /\ world.type # "default"
    /\ reading = NoCluster
    /\ c \in reported \ DOMAIN copy
    /\ reading' = c
    /\ pointed' \in BOOLEAN
    /\ UNCHANGED <<walkVars, scanned, reported, copy>>

\* They are pointed at the set the query has left for Top.
ReadPoint ==
    /\ reading # NoCluster
    /\ ~pointed
    /\ pointed' = TRUE
    /\ UNCHANGED <<walkVars, scanned, reported, reading, copy>>

\* The places in the set of the files that have the cluster.
Having(c) == {k \in DOMAIN set : Offset(TableOf(set[k]), c) # 0}

\* Mutant of Serving: the oldest of them is read.
ServingOldest(c) == {k \in Having(c) : \A l \in Having(c) : l <= k}

\* readSectors reads the newest of them.
Serving(c) == {k \in Having(c) : \A l \in Having(c) : k <= l}

ReadServe ==
    /\ reading # NoCluster
    /\ pointed
    /\ \E k \in Serving(reading) :
          copy' = [c \in DOMAIN copy \cup {reading} |->
                      IF c = reading THEN <<set[k].file, Offset(TableOf(set[k]), reading)>>
                                     ELSE copy[c]]
    /\ reading' = NoCluster
    /\ UNCHANGED <<walkVars, scanned, reported, pointed>>

\* No file of the set has the cluster: the path is forgotten, and Read calls
\* itself.
ReadAgain ==
    /\ reading # NoCluster
    /\ pointed
    /\ Having(reading) = {}
    /\ pointed' = FALSE
    /\ UNCHANGED <<walkVars, scanned, reported, reading, copy>>

Read == ReadPoint \/ ReadServe \/ ReadAgain

Next == Walk \/ Scan \/ Read \/ \E c \in Clusters : ReadBegin(c)

Spec == Init /\ [][Next]_vars
\* A query and a read are calls of one thread and run on while they can.
FairSpec == Spec /\ WF_vars(Walk) /\ WF_vars(Scan) /\ WF_vars(Read)

-----------------------------------------------------------------------------
TypeOK ==
    /\ WalkTypeOK
    /\ scanned \in 0..Len(set)
    /\ reported \subseteq Clusters
    /\ reading \in reported \cup {NoCluster}
    /\ pointed \in BOOLEAN
    /\ DOMAIN copy \subseteq reported

\* Where the library cannot see a change: an end snapshot without any L2 table
\* is passed over before it is compared.
EndIsEmpty == Comparing /\ TableOf(set[1]) = <<>>

\* The chain comes to an end.
Acyclic == \E n \in Steps : Line(Top)[n] = NoFile

\* A query reports exactly the clusters in which the disk at the end differs
\* from the disk at the start: none that is the same is copied for nothing and
\* none that changed is missed, a cluster given up in between included.
ReportExact ==
    phase = "answered" /\ Acyclic /\ ~EndIsEmpty =>
        reported = {c \in Clusters : StartContent(c) # EndContent(c)}

\* A backup is the disk: a copy of the start, brought up to date by reading each
\* reported cluster, is what a reader of the whole chain finds at the end,
\* though the reads see no file but those of the query's set.
CopyIsDisk ==
    phase = "answered" /\ ~EndIsEmpty /\ DOMAIN copy = reported =>
        \A c \in Clusters :
            EndContent(c) = IF c \in reported THEN copy[c] ELSE StartContent(c)

\* The query answers or fails, though the chain may lead back to one of its
\* files: the walk runs out of descriptors then.
QueryEnds == <>(phase \in {"answered", "failed"})

\* A read of a cluster that the query has reported returns.
ReportedReads == (reading # NoCluster) ~> (reading = NoCluster)
=============================================================================
