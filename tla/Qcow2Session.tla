---------------------------- MODULE Qcow2Session ----------------------------
(***************************************************************************)
(* The state the library shares between all calls and all handles, in      *)
(* physics/localread/qcow2Lib.cpp: g_logFunc.snapshotType and .path,       *)
(* g_backingFileInfoSet, g_backingFileInfoSetMap and g_changeSectorMap, and*)
(* the file descriptors they hold.                                         *)
(*                                                                         *)
(* A handle opened for reading is a path and nothing else: what a read of  *)
(* it returns comes from these globals, and each call of the library may   *)
(* point them at another image.  The calls are made by one thread; a read  *)
(* is several steps because it may call itself.                            *)
(***************************************************************************)
EXTENDS Integers, FiniteSets, Functions

CONSTANTS
    Images,     \* the files; a path names one
    Chain,      \* the files of each image's backing chain, itself included
    Rank,       \* the place of a file in its chain, the base lowest
    Handles,    \* Qcow2LibHandles opened for reading
    MaxFds,     \* bound: the descriptors the process may hold
    None,       \* no path, no file
    Allowed     \* what may happen: queries, failing calls ("fault"), Exit and
                \*   Init while handles are open ("init")

Fds == 1 .. MaxFds

ASSUME ImagesAssumption == None \notin Images /\ IsFiniteSet(Images)
ASSUME ChainAssumption ==
    /\ Chain \in [Images -> SUBSET Images]
    /\ \A p \in Images : p \in Chain[p]
\* The files of a chain are one below the other.
ASSUME RankAssumption ==
    /\ Rank \in [Images -> Nat]
    /\ \A p \in Images : \A i, j \in Chain[p] : Rank[i] = Rank[j] => i = j
ASSUME HandlesAssumption == None \notin Handles
ASSUME MaxFdsAssumption == MaxFds \in Nat
ASSUME AllowedAssumption == Allowed \subseteq {"query", "fault", "init"}

VARIABLES
    type,           \* g_logFunc.snapshotType
    path,           \* g_logFunc.path
    set,            \* g_backingFileInfoSet: the descriptor of each file in it
    map,            \* g_backingFileInfoSetMap: such a set for each queried path
    areas,          \* g_changeSectorMap: the image whose areas it has, or None
    fds,            \* what each descriptor of the process is open on, or None
    handles,        \* the path of each handle, None when it is not open
    call,           \* the handle a read is under way on, or None
    found,          \* the files that have the sector it is to read
    stale,          \* history: a call has changed the globals since they
                    \*   were pointed at path
    leaky           \* history: a call has failed, or the library's own set was
                    \*   dropped for one a query has left

vars == <<type, path, set, map, areas, fds, handles, call, found,
          stale, leaky>>

\* Partial functions into the descriptors.
Sets == UNION {[S -> Fds] : S \in SUBSET Images}

\* The newest of some files; the empty set for none.
NewestOf(S) == {i \in S : \A j \in S : Rank[j] <= Rank[i]}

-----------------------------------------------------------------------------
Init ==
    /\ type = "default"
    /\ path = None
    /\ set = <<>>
    /\ map = <<>>
    /\ areas = None
    /\ fds = [f \in Fds |-> None]
    /\ handles = [h \in Handles |-> None]
    /\ call = None
    /\ found = {}
    /\ stale = FALSE
    /\ leaky = FALSE

\* CloseFile of every descriptor in D.
Closed(D) == [f \in Fds |-> IF f \in D THEN None ELSE fds[f]]

-----------------------------------------------------------------------------
\* Mutant of AfterRelease: the old set is forgotten without being closed.
ForgetOnly == fds

\* InitForQueryChangedDiskAreas closes the old set if it is the library's own,
\* and forgets it in any case; ...
AfterRelease == IF type = "default" THEN Closed(Range(set)) ELSE fds
Free == {f \in Fds : AfterRelease[f] = None}

\* ... then it opens files, the newest first; open gives each the lowest free
\* descriptor.  (Those that GetQCOW2Header opens and closes are left out.)
Opened(S) ==
    [i \in S |-> CHOOSE f \in Free :
        Cardinality({g \in Free : g <= f}) = Cardinality({j \in S : Rank[j] >= Rank[i]})]
AfterOpen(m) ==
    [f \in Fds |-> IF f \in Range(m) THEN CHOOSE i \in DOMAIN m : m[i] = f
                                     ELSE AfterRelease[f]]

\* The files of C that a walk down the chain comes to before some file of it.
Prefixes(C) == {{j \in C : Rank[j] > Rank[i]} : i \in C}

\* Mutant of Walk: the files are kept although they could not be opened.
WalkUnchecked(S) ==
    IF Cardinality(S) <= Cardinality(Free)
    THEN set' = Opened(S) /\ fds' = AfterOpen(Opened(S))
    ELSE set' = [i \in S |-> -1] /\ UNCHANGED fds

Walk(S) ==
    /\ Cardinality(S) <= Cardinality(Free)
    /\ set' = Opened(S)
    /\ fds' = AfterOpen(Opened(S))

\* A walk over C that fails, maybe with one file more open and not in the set.
WalkFails(C) ==
    \E S \in Prefixes(C) :
        /\ Cardinality(S) <= Cardinality(Free)
        /\ set' = Opened(S)
        /\ \/ fds' = AfterOpen(Opened(S))
           \/ \E lost \in NewestOf(C \ S) :
                 /\ Cardinality(S) < Cardinality(Free)
                 /\ fds' = AfterOpen(Opened(S \cup {lost}))

\* How Open and Read turn the globals to the image p: to the set a query has
\* left for it, with the set that was there forgotten, ...
PointToQueried(p) ==
    /\ p \in DOMAIN map
    /\ type' = "external"
    /\ set' = map[p]
    /\ path' = p
    /\ stale' = FALSE
    /\ leaky' = (leaky \/ (type = "default" /\ set # <<>>))
    /\ UNCHANGED <<map, areas, fds>>

\* Mutant of PointToChain: the areas are those of the image pointed at before.
PointKeepsAreas(p) ==
    /\ p \notin DOMAIN map
    /\ type' = "default"
    /\ Walk(Chain[p])
    /\ path' = p
    /\ stale' = FALSE
    /\ UNCHANGED <<map, areas, leaky>>

\* ... or to the whole chain, by a query of their own.
PointToChain(p) ==
    /\ p \notin DOMAIN map
    /\ type' = "default"
    /\ Walk(Chain[p])
    /\ areas' = p
    /\ path' = p
    /\ stale' = FALSE
    /\ UNCHANGED <<map, leaky>>

\* That query fails, while it walks the chain or while it scans the files; the
\* globals are left half way, and path as it was.
PointFails(p) ==
    /\ "fault" \in Allowed
    /\ p \notin DOMAIN map
    /\ type' = "default"
    /\ \/ WalkFails(Chain[p]) /\ UNCHANGED areas
       \/ Walk(Chain[p]) /\ areas' = None
    /\ stale' = TRUE
    /\ leaky' = TRUE
    /\ UNCHANGED <<map, path>>

-----------------------------------------------------------------------------
(* Qcow2Lib_Open with the read-only flag, and Qcow2Lib_Close.              *)

Open(h, p) ==
    /\ call = None
    /\ handles[h] = None
    /\ PointToQueried(p) \/ PointToChain(p)
    /\ handles' = [handles EXCEPT ![h] = p]
    /\ UNCHANGED <<call, found>>

OpenFails(h, p) ==
    /\ call = None
    /\ handles[h] = None
    /\ PointFails(p)
    /\ UNCHANGED <<handles, call, found>>

\* Mutant of Close: the descriptors of a queried set are closed too.
CloseAnySet(h) ==
    /\ call = None
    /\ handles[h] # None
    /\ fds' = Closed(Range(set))
    /\ set' = <<>>
    /\ path' = IF path = handles[h] THEN None ELSE path
    /\ areas' = None
    /\ handles' = [handles EXCEPT ![h] = None]
    /\ stale' = TRUE
    /\ UNCHANGED <<type, map, call, found, leaky>>

\* The areas go whatever handle is closed, and so do the descriptors of a
\* default set; path only if it is the path of this handle.
Close(h) ==
    /\ call = None
    /\ handles[h] # None
    /\ IF type = "default"
         THEN fds' = Closed(Range(set)) /\ set' = <<>>
         ELSE UNCHANGED <<fds, set>>
    /\ path' = IF path = handles[h] THEN None ELSE path
    /\ areas' = None
    /\ handles' = [handles EXCEPT ![h] = None]
    /\ stale' = TRUE
    /\ UNCHANGED <<type, map, call, found, leaky>>

-----------------------------------------------------------------------------
(* QueryChangedAreasOnExtSp and QueryChangedAreasOnIntSp.                  *)

Kinds == {"external", "internal"}

\* The files a query may open: on external snapshots, the backing files of p
\* down to a start path or to the base; on internal snapshots, p alone, or for
\* a full backup its whole chain.
Queryable(p, kind) ==
    IF kind = "external" THEN ({Chain[p] \ {p}} \cup Prefixes(Chain[p] \ {p})) \ {{}}
    ELSE {{p}, Chain[p]}

\* The query is answered, and the set kept for p; the descriptors of the set
\* an earlier query of p has left are closed.
Query(p, kind) ==
    /\ "query" \in Allowed
    /\ call = None
    /\ type' = kind
    /\ \E S \in Queryable(p, kind) :
          LET m   == Opened(S)
              old == IF p \in DOMAIN map THEN Range(map[p]) ELSE {}
          IN  /\ Cardinality(S) <= Cardinality(Free)
              /\ set' = m
              /\ map' = [q \in DOMAIN map \cup {p} |-> IF q = p THEN m ELSE map[q]]
              /\ fds' = [f \in Fds |-> IF f \in old THEN None ELSE AfterOpen(m)[f]]
    /\ stale' = TRUE
    /\ UNCHANGED <<path, areas, handles, call, found, leaky>>

\* The query fails: on its arguments, with nothing but the type changed, or
\* while it walks the chain or scans the files.
QueryFails(p, kind) ==
    /\ "query" \in Allowed
    /\ call = None
    /\ type' = kind
    /\ \/ UNCHANGED <<set, fds>>
       \/ LET C == IF kind = "external" THEN Chain[p] \ {p} ELSE Chain[p]
          IN  WalkFails(C) \/ Walk(C)
    /\ stale' = TRUE
    /\ leaky' = TRUE
    /\ UNCHANGED <<path, map, areas, handles, call, found>>

-----------------------------------------------------------------------------
(* Qcow2Lib_Read of one sector, which the files in S have allocated.       *)

ReadBegin(h, S) ==
    /\ call = None
    /\ handles[h] # None
    /\ call' = h
    /\ found' = S
    /\ UNCHANGED <<type, path, set, map, areas, fds, handles, stale, leaky>>

\* The globals are pointed at another path.
ReadPoint ==
    /\ call # None
    /\ path # handles[call]
    /\ PointToQueried(handles[call]) \/ PointToChain(handles[call])
    /\ UNCHANGED <<handles, call, found>>

ReadFails ==
    /\ call # None
    /\ path # handles[call]
    /\ PointFails(handles[call])
    /\ call' = None
    /\ found' = {}
    /\ UNCHANGED handles

\* readSectors: the file the data comes from, the newest of the set that has
\* the sector; none for zeros.
Served == {fds[set[i]] : i \in NewestOf(found \cap DOMAIN set)}

\* By default a sector outside the areas is zeros, and the set is not looked
\* at; otherwise only the set is.
Result ==
    IF type = "default" /\ (areas = None \/ found \cap Chain[areas] = {})
    THEN {} ELSE Served

ReadAnswer ==
    /\ call # None
    /\ path = handles[call]
    /\ type = "default" \/ Served # {}
    /\ call' = None
    /\ found' = {}
    /\ UNCHANGED <<type, path, set, map, areas, fds, handles, stale, leaky>>

\* No file of a queried set has it: Read forgets the path and calls itself.
ReadAgain ==
    /\ call # None
    /\ path = handles[call]
    /\ type # "default" /\ Served = {}
    /\ path' = None
    /\ UNCHANGED <<type, set, map, areas, fds, handles, call, found, stale, leaky>>

-----------------------------------------------------------------------------
(* Qcow2Lib_Exit, and Qcow2Lib_Init of a library already in use.           *)

Exit ==
    /\ call = None
    /\ "init" \in Allowed \/ \A h \in Handles : handles[h] = None
    /\ LET own == IF type = "default" THEN Range(set) ELSE {}
       IN  fds' = Closed(own \cup UNION {Range(map[p]) : p \in DOMAIN map})
    /\ set' = <<>>
    /\ map' = <<>>
    /\ areas' = None
    /\ stale' = TRUE
    /\ UNCHANGED <<type, path, handles, call, found, leaky>>

Reinit ==
    /\ "init" \in Allowed
    /\ call = None
    /\ type' = "default"
    /\ set' = <<>>
    /\ map' = <<>>
    /\ areas' = None
    /\ stale' = TRUE
    /\ leaky' = (leaky \/ set # <<>> \/ map # <<>>)
    /\ UNCHANGED <<path, fds, handles, call, found>>

Next ==
    \/ \E h \in Handles, p \in Images : Open(h, p) \/ OpenFails(h, p)
    \/ \E h \in Handles : Close(h)
    \/ \E p \in Images, kind \in Kinds : Query(p, kind) \/ QueryFails(p, kind)
    \/ \E h \in Handles, S \in SUBSET Images : ReadBegin(h, S)
    \/ ReadPoint \/ ReadFails \/ ReadAnswer \/ ReadAgain
    \/ Exit \/ Reinit

Spec == Init /\ [][Next]_vars

-----------------------------------------------------------------------------
TypeOK ==
    /\ type \in {"default"} \cup Kinds
    /\ path \in Images \cup {None}
    /\ set \in Sets
    /\ DOMAIN map \subseteq Images /\ \A p \in DOMAIN map : map[p] \in Sets
    /\ areas \in Images \cup {None}
    /\ fds \in [Fds -> Images \cup {None}]
    /\ handles \in [Handles -> Images \cup {None}]
    /\ call \in Handles \cup {None}
    /\ found \subseteq Images
    /\ stale \in BOOLEAN /\ leaky \in BOOLEAN

\* Every descriptor in the set and in the map is open, on the file it is kept
\* for: none is ever closed under another holder of it, nor closed twice and
\* by then open on another file, whatever calls are made in whatever order.
FdSafe ==
    /\ \A i \in DOMAIN set : fds[set[i]] = i
    /\ \A p \in DOMAIN map : \A i \in DOMAIN map[p] : fds[map[p][i]] = i

\* What a read of handle h is to return: of the chain of its image, or of the
\* set the last query of that image has left.
Right(h) ==
    LET p == handles[h]
    IN  IF p \in DOMAIN map THEN NewestOf(found \cap DOMAIN map[p])
                            ELSE NewestOf(found \cap Chain[p])
Answered(h) == call = h /\ call' = None /\ path = handles[h]

\* A read returns the data of the image its handle was opened on, unless a
\* close, a query, an exit or a failed call has changed the globals since they
\* were last pointed at that image; opens and reads of other handles between
\* an open and a read do no harm.
ReadRight == [][\A h \in Handles : Answered(h) /\ ~stale => Result = Right(h)]_vars

\* The same of every read of an open handle that no query was made of.
HandleReadRight ==
    [][\A h \in Handles : Answered(h) /\ handles[h] \notin DOMAIN map
                             => Result = Right(h)]_vars

\* Calls that succeed lose no descriptor: what is open is in the set or the
\* map, for a later call to close, however queries, opens, closes and reads
\* follow each other.  Only two things do lose one: a call that fails, and a
\* turn from the library's own set to one a query has left.
NoLeak ==
    ~leaky => {f \in Fds : fds[f] # None}
                 = Range(set) \cup UNION {Range(map[p]) : p \in DOMAIN map}

=============================================================================
