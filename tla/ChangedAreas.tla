---------------------------- MODULE ChangedAreas ----------------------------
(***************************************************************************)
(* How the library finds out which file of a backing chain holds which     *)
(* part of a virtual disk: QueryChangedDiskAreas and QueryChangedAreas of  *)
(* physics/localread/qcow2Lib.cpp.                                         *)
(*                                                                         *)
(* The chain is walked from the base (file 1) to the newest overlay (file  *)
(* NFiles).  Each file adds its allocated clusters to one std::map from    *)
(* start sector to (length, file); the map is then swept twice with an     *)
(* iterator, once to merge neighbours of one file and once to cut away the *)
(* sectors of older files that a newer file overlays.  Reads are later     *)
(* served from nothing but this map, so it has to be exact.                *)
(*                                                                         *)
(* The map is a function from the start sectors it has to areas.  The      *)
(* iterator is the start sector it points at, or End.                      *)
(***************************************************************************)
EXTENDS Integers, FiniteSets, FiniteSetsExt, Functions

CONSTANTS
    NFiles,             \* files in the chain, 1 is the base
    ClusterSectors,     \* sectors in a cluster of each file
    SizeSectors,        \* virtual size of each file, in sectors
    Truncatable         \* files whose physically last cluster may be cut short

Files == 1..NFiles

ASSUME NFilesAssumption == NFiles \in Nat \ {0}
ASSUME ClusterAssumption == ClusterSectors \in [Files -> Nat \ {0}]
ASSUME SizeAssumption == SizeSectors \in [Files -> Nat \ {0}]
ASSUME TruncatableAssumption == Truncatable \subseteq Files

VARIABLES
    held,       \* sectors the file physically has of each of its clusters
    areas,      \* changeInfoMap
    file,       \* the file QueryChangedAreas is working on
    cluster,    \* the cluster the scan is at
    phase,      \* the loop of QueryChangedAreas that runs
    at          \* its iterator

vars == <<held, areas, file, cluster, phase, at>>

-----------------------------------------------------------------------------
\* The number of clusters the scan visits: the last one may be cut by the
\* virtual size, and is still recorded as a whole cluster.
ClusterCount(f) == (SizeSectors[f] + ClusterSectors[f] - 1) \div ClusterSectors[f]
Clusters(f) == 0..(ClusterCount(f) - 1)
Reach == Max({ClusterCount(f) * ClusterSectors[f] : f \in Files})

\* What a file may physically hold.  A cluster is unallocated (0) or whole,
\* but for at most one at the end of a truncated file.
Contents(f) ==
    {h \in [Clusters(f) -> 0..ClusterSectors[f]] :
        LET short == {c \in Clusters(f) : h[c] \notin {0, ClusterSectors[f]}}
        IN  /\ Cardinality(short) <= 1
            /\ f \notin Truncatable => short = {}}

-----------------------------------------------------------------------------
\* std::map: erase, insert (which leaves an existing key alone), and the
\* iterator order.
Erase(m, keys) == Restrict(m, DOMAIN m \ keys)
Insert(m, k, area) ==
    [x \in DOMAIN m \cup {k} |-> IF x \in DOMAIN m THEN m[x] ELSE area]

End == -1
Least(keys) == IF keys = {} THEN End ELSE Min(keys)
Begin(m) == Least(DOMAIN m)
NextKey(m, k) == Least({x \in DOMAIN m : x > k})

Area(len, f) == [len |-> len, file |-> f]
EndOf(m, k) == k + m[k].len

-----------------------------------------------------------------------------
\* Mutants: a cluster that covers an older area leaves an empty rest of it;
\* the scan or a sweep drops a rest, or cuts nothing.
RecordKeepsEmptyRest(m, s, len, f) ==
    LET gone == Erase(m, {s})
        rest == IF s \in DOMAIN m /\ m[s].len >= len
                  THEN Insert(gone, s + len, Area(m[s].len - len, m[s].file))
                  ELSE gone
    IN  Insert(rest, s, Area(len, f))
RecordDropsRest(m, s, len, f) == Insert(Erase(m, {s}), s, Area(len, f))
CutSecondKeepsSecond(m, a, b) ==
    IF EndOf(m, a) < EndOf(m, b)
      THEN Insert(m, EndOf(m, a), Area(EndOf(m, b) - EndOf(m, a), m[b].file))
      ELSE m
CutFirstDropsRest(m, a, b) == Insert(Erase(m, {a}), a, Area(b - a, m[a].file))
CutFirstKeepsLength(m, a, b) == m

\* Record a cluster of len sectors at sector s: an older area with the same
\* start is replaced, and what it has beyond the cluster is put back.
Record(m, s, len, f) ==
    LET gone == Erase(m, {s})
        rest == IF s \in DOMAIN m /\ m[s].len > len
                  THEN Insert(gone, s + len, Area(m[s].len - len, m[s].file))
                  ELSE gone
    IN  Insert(rest, s, Area(len, f))

\* Two neighbours become one.
Merged(m, a, b) ==
    Insert(Erase(m, {a, b}), a, Area(m[a].len + m[b].len, m[a].file))

\* The area at a is of the current file: drop b, keep what b has beyond a.
CutSecond(m, a, b) ==
    LET gone == Erase(m, {b})
    IN  IF EndOf(m, a) < EndOf(m, b)
          THEN Insert(gone, EndOf(m, a), Area(EndOf(m, b) - EndOf(m, a), m[b].file))
          ELSE gone

\* The area at b is of the current file: a keeps what it has before b, and
\* what it has beyond b becomes an area of its own.
CutFirst(m, a, b) ==
    LET before == Insert(Erase(m, {a}), a, Area(b - a, m[a].file))
    IN  IF EndOf(m, a) > EndOf(m, b)
          THEN Insert(before, EndOf(m, b), Area(EndOf(m, a) - EndOf(m, b), m[a].file))
          ELSE before

-----------------------------------------------------------------------------
Init ==
    /\ \E h \in [Files -> UNION {Contents(f) : f \in Files}] :
          /\ \A f \in Files : h[f] \in Contents(f)
          /\ held = h
    /\ areas = <<>>
    /\ file = 1
    /\ cluster = 0
    /\ phase = "scan"
    /\ at = End

\* QueryChangedDiskAreas turns to the next file, or is done.
NextFile ==
    /\ cluster' = 0
    /\ at' = End
    /\ IF file = NFiles
         THEN phase' = "done" /\ UNCHANGED file
         ELSE phase' = "scan" /\ file' = file + 1

\* The file has no L1 table, or one without an L2 table: nothing is done.
SkipEmpty ==
    /\ phase = "scan"
    /\ cluster = 0
    /\ \A c \in Clusters(file) : held[file][c] = 0
    /\ NextFile
    /\ UNCHANGED <<held, areas>>

\* One turn of the scan.
ScanCluster ==
    /\ phase = "scan"
    /\ cluster \in Clusters(file)
    /\ areas' = IF held[file][cluster] = 0
                  THEN areas
                  ELSE Record(areas, cluster * ClusterSectors[file],
                              held[file][cluster], file)
    /\ cluster' = cluster + 1
    /\ UNCHANGED <<held, file, phase, at>>

ScanEnd ==
    /\ phase = "scan"
    /\ cluster = ClusterCount(file)
    /\ phase' = "merge"
    /\ at' = Begin(areas)
    /\ UNCHANGED <<held, areas, file, cluster>>

\* One turn of the merging sweep.
MergeStep ==
    /\ phase = "merge"
    /\ at # End
    /\ LET next == NextKey(areas, at)
       IN  /\ next # End
           /\ IF /\ areas[at].file = areas[next].file
                 /\ EndOf(areas, at) = next
                THEN areas' = Merged(areas, at, next) /\ UNCHANGED at
                ELSE at' = next /\ UNCHANGED areas
    /\ UNCHANGED <<held, file, cluster, phase>>

SweepOver == at = End \/ NextKey(areas, at) = End

MergeEnd ==
    /\ phase = "merge"
    /\ SweepOver
    /\ phase' = "trim"
    /\ at' = Begin(areas)
    /\ UNCHANGED <<held, areas, file, cluster>>

\* One turn of the trimming sweep.
TrimStep ==
    /\ phase = "trim"
    /\ at # End
    /\ LET next == NextKey(areas, at)
           overlap == EndOf(areas, at) > next
       IN  /\ next # End
           /\ \/ /\ overlap
                 /\ areas[at].file = file
                 /\ areas' = CutSecond(areas, at, next)
                 /\ at' = IF EndOf(areas, at) < EndOf(areas, next)
                            THEN Begin(areas')
                            ELSE at
              \/ /\ overlap
                 /\ areas[at].file # file
                 /\ areas[next].file = file
                 /\ areas' = CutFirst(areas, at, next)
                 /\ at' = next
              \/ /\ overlap => areas[at].file # file /\ areas[next].file # file
                 /\ at' = next
                 /\ UNCHANGED areas
    /\ UNCHANGED <<held, file, cluster, phase>>

TrimEnd ==
    /\ phase = "trim"
    /\ SweepOver
    /\ NextFile
    /\ UNCHANGED <<held, areas>>

Query == SkipEmpty \/ ScanCluster \/ ScanEnd \/ MergeStep \/ MergeEnd
            \/ TrimStep \/ TrimEnd

\* Once the query has returned the caller has its map: nothing more happens.
Spec == Init /\ [][Query]_vars
\* The query is one call of one thread: it runs on while it can.
FairSpec == Spec /\ WF_vars(Query)

-----------------------------------------------------------------------------
TypeOK ==
    /\ \A f \in Files : held[f] \in Contents(f)
    /\ DOMAIN areas \subseteq 0..Reach
    /\ \A k \in DOMAIN areas : areas[k] \in [len : 1..Reach, file : Files]
    /\ file \in Files
    /\ cluster \in 0..ClusterCount(file)
    /\ phase \in {"scan", "merge", "trim", "done"}
    /\ at \in DOMAIN areas \cup {End}

Sectors == 0..(Reach - 1)
Covers(m, k, s) == k <= s /\ s < EndOf(m, k)
\* The file areas attribute sector s to.
Owners(s) == {areas[k].file : k \in {k \in DOMAIN areas : Covers(areas, k, s)}}

\* The sector s is in the file f.
Holds(f, s) ==
    LET c == s \div ClusterSectors[f]
    IN  c \in Clusters(f) /\ s % ClusterSectors[f] < held[f][c]
Newest(s, last) == LET fs == {f \in 1..last : Holds(f, s)}
                   IN  IF fs = {} THEN {} ELSE {Max(fs)}

\* Files 1..Settled have been worked in and no sweep is under way.
Settled == IF phase = "done" THEN NFiles ELSE file - 1
AtRest == phase = "done" \/ (phase = "scan" /\ cluster = 0)

\* Between two files and at the end, the map attributes every sector to the
\* newest file that has it and to no other, and a sector no file has to none:
\* the answer of QueryChangedDiskAreas is exact.
AreasExact == AtRest => \A s \in Sectors : Owners(s) = Newest(s, Settled)

\* Between two files no two areas overlap: Read clips a request to the areas
\* one after the other and would read a sector twice.
AreasDisjoint ==
    AtRest => \A j, k \in DOMAIN areas : j < k => EndOf(areas, j) <= k

\* No turn of a sweep gives up a sector of the disk: what it erases it puts back
\* or has put somewhere else, so that a sector that had an owner still has one.
NothingUncovered == [][\A s \in Sectors : Owners(s) # {} => Owners(s)' # {}]_vars

\* Trimming starts again from the beginning of the map after some cuts; it
\* comes to its end all the same and the query returns.
QueryReturns == <>(phase = "done")

=============================================================================
