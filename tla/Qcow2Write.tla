----------------------------- MODULE Qcow2Write -----------------------------
(***************************************************************************)
(* The part of physics/localread/qcow2Lib.cpp that changes an image:       *)
(* Qcow2Lib_Write with setRefcount, Qcow2Lib_Clean, and Qcow2Lib_Open and  *)
(* Qcow2Lib_Close of handles opened for writing.                           *)
(*                                                                         *)
(* Every pwrite of the code is a step of its own, so that an error or a    *)
(* crash may come between any two of them.  Offsets in the image are host  *)
(* cluster numbers; 0 is the header, and also the null of the tables.      *)
(* The virtual disk is a whole number of clusters.  An 8 or 2 byte pwrite  *)
(* is done or not; one of data may store any part of its sectors.          *)
(*                                                                         *)
(* A cluster holds data or a table.  Where the code places one over the    *)
(* other, MetaDisjoint fails, and what a write to the one then does to the *)
(* other is not modelled: the state that breaks it is the last to trust.   *)
(***************************************************************************)
EXTENDS Integers, Sequences, FiniteSets

CONSTANTS
    Handles,        \* Qcow2LibHandles opened for writing
    L1Size,         \* pHeader->l1_size
    L2Size,         \* entries of a table in one cluster: l2_size, and
                    \*   l1_size_in_one_cluster
    L1Cluster,      \* the cluster of pHeader->l1_table_offset
    RefBlock0,      \* the cluster of the first refcount block
    RefEntries,     \* refcount_block_entries
    DiskClusters,   \* pHeader->size, in clusters
    Sectors,        \* cluster_sector
    Value, Zero,    \* contents of a sector; Zero is all zeros
    Base,           \* what the backing chain holds of each sector
    Starts,         \* first sectors of the writes the environment makes
    MaxLen,         \* the most sectors it writes in one call
    CleanChunk,     \* clusters Clean zeroes in one pwrite
    Swapped,        \* where the offset of a cluster leads once its bytes have
                    \*   been swapped once too often
    Allowed         \* which of "reopen", "fault", "crash" and "clean" may happen

Guest == 0..(DiskClusters - 1)
Sector == 0..(DiskClusters * Sectors - 1)
InCluster == 0..(Sectors - 1)
L1Index == 0..(L1Size - 1)

ASSUME HandlesAssumption == Handles # {}
ASSUME SizeAssumption ==
    /\ L1Size \in Nat \ {0} /\ L2Size \in Nat \ {0} /\ Sectors \in Nat \ {0}
    /\ DiskClusters \in Nat \ {0} /\ DiskClusters <= L1Size * L2Size
\* The header and the refcount table come before the first refcount block.
ASSUME LayoutAssumption ==
    /\ RefBlock0 \in Nat /\ L1Cluster \in Nat
    /\ 1 < RefBlock0 /\ RefBlock0 < L1Cluster
\* A refcount block counts at least itself and one more cluster.
ASSUME RefAssumption == RefEntries \in Nat \ {0, 1}
ASSUME ValueAssumption == Zero \in Value /\ Base \in [Sector -> Value]
\* The bytes of 0 are 0 in any order.
ASSUME SwapAssumption == Swapped \in [0..DiskClusters -> Nat] /\ Swapped[0] = 0
ASSUME EnvironmentAssumption ==
    /\ Starts \subseteq Sector /\ MaxLen \in Nat /\ CleanChunk \in Nat \ {0}
    /\ Allowed \subseteq {"reopen", "fault", "crash", "clean"}

VARIABLES
    l1,         \* the L1 table: the cluster of each L2 table, or 0
    l2,         \* the L2 tables: the cluster of each guest cluster, or 0
    blocks,     \* the refcount table: the cluster of each refcount block it has
    counted,    \* the clusters with a refcount other than 0
    data,       \* the contents of the clusters data may be in
    size,       \* the length of the file, in entries of a table
    open,       \* the handles that are open
    last,       \* handle->cluster_offset, 0 while it is not known
    call,       \* the call in progress: "idle", "write" or "clean"
    who,        \* the handle of the last write
    sec,        \* startSector, as it moves
    buf,        \* what pWriteBuf has left
    todo,       \* clusters whose setRefcount is under way, the innermost first
    wipe,       \* the next cluster Clean zeroes
    result      \* what the last call answered

image == <<l1, l2, blocks, counted, data, size>>
vars == <<l1, l2, blocks, counted, data, size, open, last,
          call, who, sec, buf, todo, wipe, result>>

-----------------------------------------------------------------------------
(* Layout of the image, and what the tables say.                           *)

L1Clusters == (L1Size + L2Size - 1) \div L2Size
\* Where Write puts the i-th L2 table, and the first cluster of data.
TableAt(i) == L1Cluster + i + L1Clusters
\* Mutant: the L1 table is not counted.
FirstDataTooLow == L1Cluster + L1Size
FirstData == L1Cluster + L1Size + 1

TableOf(g) == g \div L2Size
\* The cluster the tables have for the guest cluster g, or 0.
HostOf(g) == IF l1[TableOf(g)] = 0 THEN 0 ELSE l2[g]
Mapped == {g \in Guest : HostOf(g) # 0}

\* Where the entry of the guest cluster p is in the file.
EntryAt(p) == l1[TableOf(p)] * L2Size + (p % L2Size)

\* The entries the search of Write reads, also those for clusters beyond the
\* disk, and those of them the file has.
Searched == {p \in 0..(L1Size * L2Size - 1) : l1[TableOf(p)] # 0}
Within == {p \in Searched : EntryAt(p) < size}

\* A pread behind the end of the file fills nothing in and is no error: the
\* entry read last is still there, and is converted once more.
Stale == {Swapped[IF p \in Guest THEN l2[p] ELSE 0] :
             p \in {q \in Within : Within # Searched /\ \A r \in Within : r <= q}}

\* Mutant: only the table at hand is searched.
LargestOfTable ==
    LET here == Stale \cup {HostOf(g) : g \in {g \in Guest : TableOf(g) = TableOf(sec \div Sectors)}}
    IN  {m \in here : \A n \in here : n <= m}

\* "The largest allocated cluster offset", or 0, as the search of Write finds
\* it.  A set of one element.
Largest ==
    LET found == Stale \cup {HostOf(g) : g \in Guest}
    IN  {m \in found : \A n \in found : n <= m}

\* Where Write places the next cluster of data of a handle.
NextData(h) ==
    IF last[h] # 0
      THEN {last[h] + 1}
      ELSE {IF m = 0 THEN FirstData ELSE m + 1 : m \in Largest}

\* The cluster Write is at, and how much of the buffer goes there.
GuestAt == sec \div Sectors
IndexInCluster == sec % Sectors
Room == Sectors - IndexInCluster
ChunkLen == IF Len(buf) < Room THEN Len(buf) ELSE Room
\* Mutant: only the first sector of the chunk is looked at.
FirstIsZero == buf[1] = Zero
ChunkIsZero == \A i \in 1..ChunkLen : buf[i] = Zero

\* Mutant: the chunk goes to the start of the cluster.
PatchedAtStart(c, n) ==
    [i \in InCluster |-> IF i < n THEN buf[i + 1] ELSE data[c][i]]

\* The cluster c with n values of the buffer written at the current sector.
Patched(c, n) ==
    [i \in InCluster |->
        IF IndexInCluster <= i /\ i < IndexInCluster + n
          THEN buf[i - IndexInCluster + 1]
          ELSE data[c][i]]

RefIndex(c) == c \div RefEntries

\* The length of the file after a pwrite that ends at e.  One of data or of a
\* refcount is taken to reach the end of its cluster, where no table can be.
Longer(e) == IF e > size THEN e ELSE size

-----------------------------------------------------------------------------
(* A fresh image, as qemu-img makes it.                                    *)

Init ==
    /\ l1 = [i \in L1Index |-> 0]
    /\ l2 = [g \in Guest |-> 0]
    /\ blocks = [i \in {0} |-> RefBlock0]
    /\ counted = 0..(L1Cluster + L1Clusters - 1)
    /\ data = [c \in 0..DiskClusters |-> [i \in InCluster |-> Zero]]
    /\ size = L1Cluster * L2Size + L1Size
    /\ open = {}
    /\ last = [h \in Handles |-> 0]
    /\ call = "idle"
    /\ who \in Handles
    /\ sec = 0
    /\ buf = <<>>
    /\ todo = <<>>
    /\ wipe = 0
    /\ result = "none"

\* The call in progress answers r.
Answer(r) ==
    /\ call' = "idle"
    /\ sec' = 0
    /\ buf' = <<>>
    /\ todo' = <<>>
    /\ wipe' = 0
    /\ result' = r

-----------------------------------------------------------------------------
(* Qcow2Lib_Open and Qcow2Lib_Close, without the read-only flag.           *)

Open(h) ==
    /\ call = "idle"
    /\ h \notin open
    /\ open' = open \cup {h}
    /\ last' = [last EXCEPT ![h] = 0]
    /\ UNCHANGED <<image, call, who, sec, buf, todo, wipe, result>>

Close(h) ==
    /\ "reopen" \in Allowed
    /\ call = "idle"
    /\ h \in open
    /\ open' = open \ {h}
    /\ last' = [last EXCEPT ![h] = 0]
    /\ UNCHANGED <<image, call, who, sec, buf, todo, wipe, result>>

-----------------------------------------------------------------------------
(* Qcow2Lib_Write.                                                         *)

\* A call on an open handle.  A range beyond the virtual size is refused.
Begin(h, s, values) ==
    /\ call = "idle"
    /\ h \in open
    /\ who' = h
    /\ IF s + Len(values) > DiskClusters * Sectors
         THEN /\ result' = "invalid"
              /\ UNCHANGED <<call, sec, buf>>
         ELSE /\ call' = "write"
              /\ sec' = s
              /\ buf' = values
              /\ result' = "none"
    /\ UNCHANGED <<image, open, last, todo, wipe>>

\* The loop of Write is between two calls of setRefcount.
Writing == call = "write" /\ todo = <<>>

\* The guest cluster has no L2 table: enter one in the L1 table, at the place
\* the layout gives it, and count its cluster.
AllocL2 ==
    /\ Writing
    /\ buf # <<>>
    /\ l1[TableOf(GuestAt)] = 0
    /\ l1' = [l1 EXCEPT ![TableOf(GuestAt)] = TableAt(TableOf(GuestAt))]
    /\ todo' = <<TableAt(TableOf(GuestAt))>>
    /\ UNCHANGED <<l2, blocks, counted, data, size, open, last,
                   call, who, sec, buf, wipe, result>>

\* Mutant: the handle does not learn where the block is.
RefBlockForgotten ==
    /\ call = "write"
    /\ todo # <<>>
    /\ RefIndex(Head(todo)) \notin DOMAIN blocks
    /\ last[who] + 1 >= L1Cluster
    /\ blocks' = [i \in DOMAIN blocks \cup {RefIndex(Head(todo))} |->
                    IF i \in DOMAIN blocks THEN blocks[i] ELSE last[who] + 1]
    /\ todo' = <<last[who] + 1>> \o todo
    /\ UNCHANGED <<l1, l2, counted, data, size, open, last,
                   call, who, sec, buf, wipe, result>>

\* setRefcount finds no refcount block for its cluster: it places one behind
\* the last cluster, enters it in the refcount table and counts it first.
RefBlockAlloc ==
    /\ call = "write"
    /\ todo # <<>>
    /\ RefIndex(Head(todo)) \notin DOMAIN blocks
    /\ last[who] + 1 >= L1Cluster
    /\ blocks' = [i \in DOMAIN blocks \cup {RefIndex(Head(todo))} |->
                    IF i \in DOMAIN blocks THEN blocks[i] ELSE last[who] + 1]
    /\ last' = [last EXCEPT ![who] = last[who] + 1]
    /\ todo' = <<last[who] + 1>> \o todo
    /\ UNCHANGED <<l1, l2, counted, data, size, open, call, who, sec, buf, wipe, result>>

\* setRefcount has no last cluster to place the block behind: Write fails.
RefBlockRefused ==
    /\ call = "write"
    /\ todo # <<>>
    /\ RefIndex(Head(todo)) \notin DOMAIN blocks
    /\ last[who] + 1 < L1Cluster
    /\ Answer("failed")
    /\ UNCHANGED <<image, open, last, who>>

\* The block is written unless the cluster c is counted already.
Counts(c) ==
    size' = IF c \in counted THEN size ELSE Longer((blocks[RefIndex(c)] + 1) * L2Size)

\* Mutant: setRefcount goes on with the cluster it has counted.
SetRefAgain ==
    /\ call = "write"
    /\ todo # <<>>
    /\ RefIndex(Head(todo)) \in DOMAIN blocks
    /\ counted' = counted \cup {Head(todo)}
    /\ Counts(Head(todo))
    /\ UNCHANGED <<l1, l2, blocks, data, open, last,
                   call, who, sec, buf, todo, wipe, result>>

\* setRefcount counts its cluster, if nothing has counted it yet, and returns.
SetRef ==
    /\ call = "write"
    /\ todo # <<>>
    /\ RefIndex(Head(todo)) \in DOMAIN blocks
    /\ counted' = counted \cup {Head(todo)}
    /\ Counts(Head(todo))
    /\ todo' = Tail(todo)
    /\ UNCHANGED <<l1, l2, blocks, data, open, last,
                   call, who, sec, buf, wipe, result>>

\* The next guest cluster has an L2 table and no cluster yet.
Unallocated ==
    /\ Writing
    /\ buf # <<>>
    /\ l1[TableOf(GuestAt)] # 0
    /\ l2[GuestAt] = 0

\* Mutant: the capacity is not checked.
AllocDataAnywhere ==
    /\ Unallocated
    /\ ~ChunkIsZero
    /\ \E c \in NextData(who) :
          /\ l2' = [l2 EXCEPT ![GuestAt] = c]
          /\ last' = [last EXCEPT ![who] = c]
          /\ todo' = <<c>>
    /\ size' = Longer(EntryAt(GuestAt) + 1)
    /\ UNCHANGED <<l1, blocks, counted, data, open,
                   call, who, sec, buf, wipe, result>>

\* There is something to store: enter the next cluster in the L2 table, and
\* count it.
AllocData ==
    /\ Unallocated
    /\ ~ChunkIsZero
    /\ \E c \in NextData(who) :
          /\ c <= DiskClusters
          /\ l2' = [l2 EXCEPT ![GuestAt] = c]
          /\ last' = [last EXCEPT ![who] = c]
          /\ todo' = <<c>>
    /\ size' = Longer(EntryAt(GuestAt) + 1)
    /\ UNCHANGED <<l1, blocks, counted, data, open,
                   call, who, sec, buf, wipe, result>>

\* The next cluster is beyond the virtual size: Write gives up.
NoSpace ==
    /\ Unallocated
    /\ ~ChunkIsZero
    /\ \E c \in NextData(who) : c > DiskClusters
    /\ Answer("invalid")
    /\ UNCHANGED <<image, open, last, who>>

Advance ==
    /\ sec' = sec + ChunkLen
    /\ buf' = SubSeq(buf, ChunkLen + 1, Len(buf))

\* Zeros are not stored where nothing is allocated.
SkipZero ==
    /\ Unallocated
    /\ ChunkIsZero
    /\ Advance
    /\ UNCHANGED <<image, open, last, call, who, todo, wipe, result>>

\* The guest cluster has a cluster, and the next chunk goes there.
Placed ==
    /\ Writing
    /\ buf # <<>>
    /\ l1[TableOf(GuestAt)] # 0
    /\ l2[GuestAt] # 0

WriteData ==
    /\ Placed
    /\ data' = [data EXCEPT ![l2[GuestAt]] = Patched(l2[GuestAt], ChunkLen)]
    /\ size' = Longer((l2[GuestAt] + 1) * L2Size)
    /\ Advance
    /\ UNCHANGED <<l1, l2, blocks, counted, open, last,
                   call, who, todo, wipe, result>>

WriteDone ==
    /\ Writing
    /\ buf = <<>>
    /\ Answer("ok")
    /\ UNCHANGED <<image, open, last, who>>

\* pwrite stores only part of a chunk, and Write answers an error.
Torn ==
    /\ "fault" \in Allowed
    /\ Placed
    /\ \E n \in 1..(ChunkLen - 1) :
          data' = [data EXCEPT ![l2[GuestAt]] = Patched(l2[GuestAt], n)]
    /\ size' = Longer((l2[GuestAt] + 1) * L2Size)
    /\ Answer("failed")
    /\ UNCHANGED <<l1, l2, blocks, counted, open, last, who>>

-----------------------------------------------------------------------------
(* Qcow2Lib_Clean: the file is opened once more, whoever else has it open. *)

CleanBegin ==
    /\ "clean" \in Allowed
    /\ call = "idle"
    /\ call' = "clean"
    /\ wipe' = RefBlock0
    /\ result' = "none"
    /\ UNCHANGED <<image, open, last, who, sec, buf, todo>>

Wiped == wipe..(wipe + CleanChunk - 1)
\* Mutant: the whole of the first block is zeroed.
LostAll(c) ==
    /\ RefIndex(c) \in DOMAIN blocks
    /\ blocks[RefIndex(c)] \in Wiped

\* The first block keeps the counts of the clusters up to the L1 table.
Lost(c) ==
    /\ RefIndex(c) \in DOMAIN blocks
    /\ blocks[RefIndex(c)] \in Wiped
    /\ RefIndex(c) = 0 => c > L1Cluster

\* Mutant: the L2 tables are left as they are.
CleanStepKeepsTables ==
    /\ call = "clean"
    /\ wipe * L2Size < size
    /\ l1' = [i \in L1Index |-> IF L1Cluster + (i \div L2Size) \in Wiped
                                  THEN 0 ELSE l1[i]]
    /\ counted' = {c \in counted : ~Lost(c)}
    /\ data' = [c \in 0..DiskClusters |->
                   IF c \in Wiped THEN [i \in InCluster |-> Zero] ELSE data[c]]
    /\ wipe' = wipe + CleanChunk
    /\ UNCHANGED <<l2, blocks, size, open, last, call, who, sec, buf, todo, result>>

\* One pwrite of zeros.  The refcount table lies before the first block and
\* is left as it is.
CleanStep ==
    /\ call = "clean"
    /\ wipe * L2Size < size
    /\ l1' = [i \in L1Index |-> IF L1Cluster + (i \div L2Size) \in Wiped
                                  THEN 0 ELSE l1[i]]
    /\ l2' = [g \in Guest |-> IF TableAt(TableOf(g)) \in Wiped
                                THEN 0 ELSE l2[g]]
    /\ counted' = {c \in counted : ~Lost(c)}
    /\ data' = [c \in 0..DiskClusters |->
                   IF c \in Wiped THEN [i \in InCluster |-> Zero] ELSE data[c]]
    /\ wipe' = wipe + CleanChunk
    /\ UNCHANGED <<blocks, size, open, last, call, who, sec, buf, todo, result>>

\* Mutant: one pwrite, or none, is taken for all of them.
CleanDoneEarly ==
    /\ call = "clean"
    /\ Answer("ok")
    /\ UNCHANGED <<image, open, last, who>>

\* The end of the file is reached.
CleanDone ==
    /\ call = "clean"
    /\ wipe * L2Size >= size
    /\ Answer("ok")
    /\ UNCHANGED <<image, open, last, who>>

-----------------------------------------------------------------------------
\* A pread or pwrite fails, and the call answers an error.
Fail ==
    /\ "fault" \in Allowed
    /\ call # "idle"
    /\ Answer("failed")
    /\ UNCHANGED <<image, open, last, who>>

\* The process stops; the image stays as it is.
Crash ==
    /\ "crash" \in Allowed
    /\ open' = {}
    /\ last' = [h \in Handles |-> 0]
    /\ Answer("none")
    /\ UNCHANGED <<image, who>>

Lengths == 1..MaxLen
Step ==
    \/ AllocL2 \/ RefBlockAlloc \/ RefBlockRefused \/ SetRef
    \/ AllocData \/ NoSpace \/ SkipZero \/ WriteData \/ WriteDone
    \/ CleanStep \/ CleanDone
Environment ==
    \/ \E h \in Handles : Open(h) \/ Close(h)
    \/ \E h \in Handles, s \in Starts, n \in Lengths :
          \E values \in [1..n -> Value] : Begin(h, s, values)
    \/ CleanBegin \/ Torn \/ Fail \/ Crash
Next == Step \/ Environment

Spec == Init /\ [][Next]_vars
\* A call runs in one thread and goes on while it can.
FairSpec == Spec /\ WF_vars(Step)
-----------------------------------------------------------------------------
(* Properties.                                                             *)

TypeOK ==
    /\ l1 \in [L1Index -> Nat]
    /\ l2 \in [Guest -> 0..DiskClusters]
    /\ DOMAIN blocks \subseteq Nat /\ \A i \in DOMAIN blocks : blocks[i] \in Nat
    /\ counted \subseteq Nat
    /\ data \in [0..DiskClusters -> [InCluster -> Value]]
    /\ size \in Nat
    /\ open \subseteq Handles
    /\ last \in [Handles -> Nat]
    /\ call \in {"idle", "write", "clean"}
    /\ who \in Handles
    /\ sec \in Nat
    /\ buf \in Seq(Value)
    /\ buf # <<>> => sec + Len(buf) <= DiskClusters * Sectors
    /\ todo \in Seq(Nat)
    /\ wipe \in Nat
    /\ result \in {"none", "ok", "invalid", "failed"}

\* No two clusters of the disk share a cluster of the image, so that a write
\* to one never changes the other.
DataDisjoint ==
    \A g, h \in Mapped : g # h => HostOf(g) # HostOf(h)

\* The clusters of the image that hold its tables.
HeaderAndL1 == 0..(L1Cluster + L1Clusters - 1)
L2Tables == {l1[i] : i \in L1Index} \ {0}
RefBlocks == {blocks[i] : i \in DOMAIN blocks}

\* No data is placed in a cluster that holds the header, the L1 table, an L2
\* table or a refcount block, and no refcount block in one of an L2 table.
MetaDisjoint ==
    /\ \A g \in Mapped : HostOf(g) \notin HeaderAndL1 \cup L2Tables \cup RefBlocks
    /\ RefBlocks \cap L2Tables = {}
    /\ \A i, j \in DOMAIN blocks : i # j => blocks[i] # blocks[j]

\* Between calls every cluster the tables lead to has a reference count: no
\* tool would take it for free.
Reachable == {HostOf(g) : g \in Mapped} \cup L2Tables \cup RefBlocks
AllCounted == call = "idle" => Reachable \subseteq counted

\* A call that has begun returns, however its steps interleave with errors.
CallsReturn == []<>(call = "idle")

-----------------------------------------------------------------------------
(* The image seen through its tables is a virtual disk.                    *)

\* The cluster a reader takes for the guest cluster g, or 0: what is entered
\* and begins behind the end of the file is not there yet.
ReadFrom(g) == IF HostOf(g) * L2Size >= size THEN 0 ELSE HostOf(g)

\* What a reader finds in a sector: the data of its cluster, or of the backing
\* chain where there is none.  Of an entry or a sector behind the end of the file
\* it is what a file that went on with zeros would have.
Disk == [s \in Sector |->
            IF ReadFrom(s \div Sectors) = 0
              THEN Base[s]
              ELSE data[ReadFrom(s \div Sectors)][s % Sectors]]

V == INSTANCE VirtualDisk WITH disk <- Disk
VirtualDiskSpec == V!Spec
=============================================================================
