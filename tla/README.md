# TLA+ project for qcow2test

qcow2test compares two ways of reading a qcow2 disk image: through a virtual
machine that has the image attached, and through a library, `qcow2Lib`, that
parses the image and its backing chain itself.  The library can also write an
image, clean it, and list the areas of the disk that changed between two
snapshots.  A comparison is worth something only if the library is right, and
that is what most of this project is about.

Paths below are relative to `src/qcow2test/`; a bare line number is one of
`physics/localread/qcow2Lib.cpp`.

## 1. Inventory

| Component | State | Operations | Interacts with | What makes it correct |
|---|---|---|---|---|
| Changed-area query (512-738, 910-1028) | one `std::map` from start sector to length and file, swept with iterators | scan a file or compare two snapshots of it, merge neighbours, trim overlaps; once for each file of the chain | the session calls it and keeps its result; the read path lives off it; a caller copies the areas it is told | every sector is attributed to the newest file that has it; areas do not overlap; the sweeps end; what is reported is what changed |
| Read path (833-906, 1268-1387) | the clipped pieces of one request | clip a range to the areas, serve each piece from one file | areas and descriptors of the session | what is read is what the chain holds; pieces stay in the caller's buffer |
| Write path (770-831, 1390-1584) | the image: L1 and L2 tables, refcount table and blocks, data; for each handle the last cluster allocated | Open, Write, setRefcount (which calls itself), Close | the file system, by `pwrite`s that may fail or be the last | clusters never collide; every cluster is counted; a reader finds the old or the new data, never anything else |
| Clean (1216-1265) | the same image | zero the file from the first refcount block on | handles that are open meanwhile | afterwards the disk is zeros and can be written again |
| Session (941-1213, 1293-1317) | globals: snapshot type, path, set of open files, a map of such sets, areas | Init, Exit, Open, Close, two queries, the head of Read | every other part of the library | descriptors are closed exactly once; a handle reads its own image |
| Chain walk and headers (219-472) | the set of files being built | walk from an image to its base, find internal snapshots | the session | the walk ends; it finds every file asked for, once and in order, each with the right table; what it opens is kept or closed |
| Host client (`physics/main.cpp`, `physics/localread/read.cpp`) | the buffers of one comparison | attach, 1000 times read both ways and compare, detach | guest server, library, libvirt | the verdict compares data of the same range |
| Connections (`physics/connection`, `virtual/connection`) | a socket, one buffer at each end | send an order, receive it, send the answer, receive it | each other | an answer belongs to its order, whole |
| Guest server (`virtual/main.cpp`, `virtual/getsectordata`) | the same buffer | accept, read the device, answer | host client | it answers with what the device holds, or with an error |
| Attachment (`physics/attach`) | an XML file | attach, detach | libvirt | the image that is attached is the one compared |
| Hex dumps, `writedata2disk`, `test.cpp.ok` | none | printing; filling a device; not compiled | none | none |

The comparison is two processes that share a connection and a disk that comes and
goes.  Nothing in the library takes a lock or starts a thread.  Its difficulties are of
other kinds: maps changed while they are swept; images changed in many small
writes, of which any may fail or be the last before a crash; caches in globals
that every call may redirect; and a remembered "last cluster" that other code
moves or does not know of.  `PROJECT.json` lists each of them under `hazards`
with its line.

## 2. Modules

| Module | Models | State and actions against the code |
|---|---|---|
| `ChangedAreas` | the query of a whole chain | `areas` is `changeInfoMap`, `at` the iterator, `phase` the loop of `QueryChangedAreas` that runs; one action is one turn of that loop. `held` says how many sectors of each cluster a file physically has |
| `Qcow2Read` | `Qcow2Lib_Read` after a default open, and of an area a query has reported, with `readSectors` | extends `ChangedAreas`; `mark`, `left`, `before` are `markStartSector`, `markNumSectors`, `markNumSectorsMark`; the `Clip` actions are the branches of the inner loop, `CopyPiece` one call of `readSectors`; `ReadArea` is the other branch of Read, which clips nothing |
| `VirtualDisk` | nothing of the code: what the write path promises | a disk of sectors; a write stores its buffer in order, an error or a crash leaves a prefix, cleaning leaves zeros |
| `Qcow2Write` | `Qcow2Lib_Write`, `setRefcount`, `Qcow2Lib_Clean`, read-write `Open` and `Close` | one action for each `pwrite`; `todo` is the stack of calls of `setRefcount`, `last` the handles' `cluster_offset`, `size` the length of the file; `Disk` is the image as a reader finds it through the tables and refines `VirtualDisk` |
| `Qcow2Session` | Init, Exit, read-only Open, Close, the two queries and the head and tail of Read | the globals by name; `fds` is what each descriptor is open on, handed out lowest first as `open` does; a read is several steps because it calls itself |
| `ChainWalk` | `InitForQueryChangedDiskAreas` and `GetQCOW2Header` | `at` is `filePath`, `set` is `g_backingFileInfoSet`, `index` the loop over snapshots; one action is one turn of the loop or one way out of it. `lost` counts the descriptors that nobody closes any more. The files, their tables and the arguments are one record, `world`, chosen at the start |
| `SnapshotQuery` | the two snapshot queries, `QueryChangedAreas` file by file, and the reads of what was reported | extends `ChainWalk`; `reported` is what `changeInfoMap` covers, in clusters; `pointed` is whether the global path is that of the image, so that Read may call itself; `copy` is what a caller's reads have returned |
| `Comparison` | the host client, the connection, the guest server and the disk attached between them | `client` and `server` are the places the two `main`s are at; `buffer` is the one `data_` of the server, `remote` that of the client; orders and answers are kept for each round's connection. `ReadSector` and `SkipSector` are the two outcomes of `getSectorData`; `DeviceAppears` is the guest's kernel, `Crash` any failed call or kill of the server; giving up and detaching are two steps, and detaching may fail |
| `*Proofs` | nothing: theorems about the modules they are named for | see section 5 |
| `MC*` | instances for TLC | constants only |

Offsets are abstracted to cluster numbers and sectors to small values: the code
only adds, compares and divides them, and the divisions are kept.  The 64-bit
widths are not modelled, since an offset that overflows them would need an image
of 2^64 bytes.  Headers are constants, because nothing changes them.

**Where the file ends.** A fresh image ends with its L1 table, and L2 tables lie behind
it: nothing is in the file of a table until an entry is written, and a crash after that
entry (1540) and before its data (1562) leaves the file ending inside the table.  `size`
is that length, in entries of a table.  It matters in three places.  The search for the
last cluster (1496-1521) reads all entries of a table; behind the end of the file `pread`
returns 0, which is not tested, and the entry read before, which is still in
`cluster_off`, has its bytes swapped once more and is compared with the others (`Stale`).
Where that leads depends on the offset, so `Swapped` is a constant, of which
`SwapAssumption` says only that 0 stays 0; in the instances it leads behind the disk, which
Write then refuses (1534), or to a far cluster the disk still has, where it goes on.  A
reader takes an entry that leads behind the end of the file for none (504, `ReadFrom`).
And Clean goes on to the end of the file (1241).

The modules meet where one takes the result of another as a step.  `ChangedAreas`
takes a chain for granted, which `ChainWalk` finds; `SnapshotQuery` takes the sweeps
for granted, which `ChangedAreas` shows to be exact; `Qcow2Session` makes a walk one
step, with the outcomes `ChainWalk` has (`FoundExactly` when it succeeds, a part of
the chain and maybe a lost descriptor when it fails).

## 3. Runs

| Run | Instance | What it shows |
|---|---|---|
| `read` | every allocation of a chain of 3 files, clusters of 2, 4 and 2 sectors, disks of 6, 8 and 6 sectors, the base and the newest file possibly ending in a cut cluster; every range and every reported area | the query is exact (`AreasExact`), its areas are disjoint, no step of a sweep uncovers a sector (`NothingUncovered`), it ends; reads are exact sector by sector (`ReadExact`), stay in their buffer (`PiecesInRange`) and end |
| `read_middle` | clusters of one size, the middle file may end in a cut cluster | `ReadExact` fails: see section 6 |
| `write_faults` | one handle, reopened; failures, torn data and crashes after any step, also where the file then ends inside a table; 8 guest clusters in 2 tables, two start sectors | `DataDisjoint`, `MetaDisjoint`, and the image implements `VirtualDisk` |
| `write_refs` | refcount blocks of 5 entries, failures | new refcount blocks are placed among tables and data without a collision; every call returns |
| `write_clean` | reopening and Clean, four start sectors | cleaning zeroes the whole disk as its caller sees it; between calls everything reachable is counted |
| `write_reopen` | refcount blocks of 8 entries, reopening | `MetaDisjoint` fails: see section 6 |
| `write_overlay` | a base with data below the image; clusters of one sector, so that every write is of whole clusters; no failures, no reopening | `VirtualDiskSpec` fails, by `SkipZero`: see section 6. With the zeros stored instead the same instance has no error |
| `session` | an overlay and its base, 2 handles, 4 descriptors, all calls and failures | `FdSafe`, `NoLeak`, `ReadRight` |
| `session_close` | opens, closes and reads only | `HandleReadRight` fails: see section 6 |
| `snapshots` | nine chains of up to three files, six of them cyclic, every allocation of two clusters, every start; up to three snapshots with every combination of two names and of tables; failures; 5 descriptors | `FoundExactly`: the walk finds what was asked for; `ReportExact`: the report is what changed, no more and no less; `CopyIsDisk`: a backup made of it is the disk; `QueryEnds` |
| `snapshots_read` | the same internal queries, nothing fails | `ReportedReads` fails: see section 6 |
| `compare` | two rounds of up to two sectors; a device that appears late or cannot be read in places, a server that stops, local calls that fail | `SameIsTrue` and `NotSameIsTrue`: a verdict on a whole answer that was read of the device is true, and a server without a device never makes data pass for the same; `DeviceStays`: the disk is not detached while the server reads it; `RunEnds` |

**Bounds.** Three files are the fewest with a middle: an area of the base under one of a
middle overlay under one of the newest. Unequal clusters, larger ones in the middle,
make areas start inside others and be cut from either side; the base is short enough
that the loss of section 6 does not happen to whole clusters. Seven or eight guest
clusters in two L2 tables are the fewest where a write crosses from one table into the
next, allocates both and then runs into the limit of the disk; two sectors to a cluster
let a write begin and end inside one, and let a write of a whole cluster be torn.
In `write_faults` data begins at cluster 6 and the limit is 8, so that the swapped offset
of the first one is a cluster of the disk (7, and the next data is at 8) and that of the
others is not: both outcomes of a search at the end of the file occur.
`Starts` names the sectors writes begin at and `MaxLen` their longest length: with them
a write is inside a cluster, fills one, and crosses the border of a cluster and of a
table, and writes at the end of the disk are refused. `CleanChunk` is smaller than the
image, so that Clean takes several writes. `RefEntries` of 5 makes the second block
necessary after two clusters of data. Two images, one on the other, make the globals
differ in type, path, set and areas; 4 descriptors hold two sets at once and are then
exhausted, so that calls fail for that reason too. Three files are also the fewest in
which a start lies between the image and the base and a cycle may leave the image out;
three snapshots the fewest with one between start and end, one newer than the end, or a
name that comes twice; two clusters let a table be empty in one of them or have no L2
table at all, which the code tells apart. The places in an image are numbered as they
come up, which leaves out only renamings. Five descriptors are more than the longest
walk needs (one for each file and two more), so that walks succeed, and a cyclic walk
exhausts them. Two rounds are the fewest in which the server's buffer holds an earlier
answer, and two sectors the fewest in which an answer has a sector the order did not
overwrite. A disk's content that begins with the text of an order is left out (`Text
\notin Value`): by chance nobody meets it.

**Deadlock** is checked in every run but those of `Comparison`, which stop when the
client has ended, and of `SnapshotQuery`, which stop when all that was reported is
read; there `RunEnds` and `QueryEnds` say that nothing stops before.  In
`ChangedAreas` a finished query is followed by reads in the instances that are run.

**Fairness.** The library is called from one thread and has no waiting in it: a
call that has begun runs on while it can.  That is weak fairness of the steps of
the query (`Opening`), of a read (`Reading`), of a write or Clean (`Step`), and of the
walk, the scan and the reads of `SnapshotQuery` (`Walk`, `Scan`, `Read`),
and of nothing else: that a caller makes a call is never assumed.  In `Comparison`
client and server are two processes, each of which goes on while it is not blocked
in `accept` or `recv` (`WF(Client)`, `WF(Server)`); that a device ever appears is not
assumed.

## 4. Properties worth a word

* `AreasExact` is stated between two files, when no sweep is under way;
  `NothingUncovered` says of every turn of a sweep's loop, with all it erases and
  inserts, that no sector is given up.  Between the erase and the insert of one turn,
  which nobody sees, it says nothing.
* `ReadExact` compares each sector of the answer with the newest file that has
  *allocated* it; the code looks up only the first sector of a piece.  A read past
  the end of a file fails in the code (line 880) and is not an answer.
* `MetaDisjoint` relates four kinds of cluster: header and L1 table, L2 tables,
  refcount blocks, data.  With one refcount block, in `write_faults`, it follows from the
  layout whatever the search finds; `write_refs`, with small blocks, is the run in which
  `setRefcount` moves `last` under Write, and `write_reopen` the one in which the search
  misses a block.  It is also what allows `Qcow2Write` to leave out that a write to a
  cluster that is data and a table at once changes both: where that would matter
  `MetaDisjoint` is violated already.
* `VirtualDiskSpec` is a refinement: each step of `Qcow2Write` is a step of the
  abstract disk or leaves it as it is.  It catches stale data in a reused cluster,
  wrong offsets inside one and zeros dropped, without naming them.
* `NoLeak` counts every descriptor, after any order of opens, closes, reads, queries,
  exits and inits that succeed; its history variable, `leaky`, is set by failing calls,
  by an Init over a library in use, and by one turn of the globals (section 6).
* `ReadRight` has a history variable, `stale`, that is set by the calls that
  redirect the globals.  It says that opens and reads of other handles are
  harmless; `HandleReadRight` is the same without the excuse, and fails.
* `SameIsTrue` holds although the server may have read nothing at all and sends the
  answer of an earlier round: the order that arrives in the same buffer spoils its
  first sector.  A server that received orders elsewhere would break it.  It excludes
  one case, which the code gets wrong: the first sector of an order is read and a
  later one is not.
* `NotSameIsTrue` says the reverse of every answer the server could read whole.
  Of the others it cannot: `getDiskSector` answers 0 whatever happens, and the client
  prints "NOT same data" of the order's text.
* `FoundExactly` is stated over the whole result of a walk, not of its steps: a path
  down the chain, from the right file to the right file, each once.
* `ReportExact` compares what the query reports with the disk as it is read by the
  format at the start and at the end, through snapshots and backing files.  That covers
  clusters written, moved and given up in between, and for external snapshots that a
  cluster found in a file of the increment was not there before.  A chain that is
  cyclic has no such content.
* `CopyIsDisk` follows a caller who keeps a copy of the start and reads every area
  reported since.  The reads see only the files of the increment, the property the
  whole chain.  It and `ReportExact` exclude `EndIsEmpty`: line 552 passes over an end
  snapshot without L2 tables before it is compared, and what the start had is missed.
* `QueryEnds` holds of cyclic chains only because every turn opens a file.
* `RunEnds` needs that the client's `recv` returns when the server is gone, at
  whichever step it went.
* `DeviceStays` relates the two processes: each of the ways in which the client gives up,
  in any round, finds the server through with the order or gone.  A `recv` that did not
  wait for the whole answer would break it.  It rests on what the module leaves out: a
  `recv` that fails while the server goes on, and a connection closed before its order.
  That the disk *is* detached in the end is no property: the code does not see to it
  (section 6).

## 5. Proofs

TLAPS checks the following for every value of the constants: for chains of any length,
disks, tables and clusters of any size, any number of handles, descriptors, rounds.  The
`ASSUME`s of each module are all that is assumed unless the table says more.

| Module, theorem | Assumes besides | Says |
|---|---|---|
| `ChangedAreasProofs`: `TypeCorrect`, `AreasNeverOverlap` | | `[]TypeOK`, `[]AreasDisjoint` |
| `AreasAreExact`, `NothingIsUncovered` | `Nested`, `EndsCut` | `[]AreasExact`, `[]NothingUncovered` |
| `Qcow2ReadProofs`: `ReadTypeCorrect`, `PiecesStayInRange` | | `[]ReadTypeOK`, `[]PiecesInRange` |
| `ReadAsExactAsAreas` | | `[](AreasExact => ReadExact)`: a read is wrong only where the areas are |
| `ReadIsExact` | `Nested`, `EndsCut` | `[]ReadExact` |
| `Qcow2WriteProofs`: `TypeCorrect` | | `[]TypeOK` |
| `OneHandleDataDisjoint` | `OneWriter`, `TablesApart` | `[]DataDisjoint` |
| `OneSessionMetaDisjoint` | `OneSession` | `[]MetaDisjoint`, with refcount blocks of any size |
| `OneBlockMetaDisjoint` | `OneL1Cluster`, `OneBlock` | `[]MetaDisjoint`, for any number of handles and every failure |
| `EverythingCounted` | `CountsKept`, `TablesApart` | `[]AllCounted`, for one handle and any number of blocks, or one block and any number of handles |
| `OneWriterIsDisk` | `OneWriter`, `TablesApart`, `NoBase` | `VirtualDiskSpec`: the image implements the abstract disk |
| `Qcow2SessionProofs`: `TypeCorrect`, `FdsAreSafe`, `NothingLeaks` | | `[]TypeOK`, `[]FdSafe`, `[]NoLeak` |
| `ReadsAreRight` | | `ReadRight`, an action property |
| `SnapshotQueryProofs`: `TypeCorrect`, `WalkIsExact` | | `[]TypeOK`, `[]FoundExactly`, cyclic chains included |
| `ReportIsExact`, `CopyIsRight` | | `[]ReportExact`, `[]CopyIsDisk` |
| `ComparisonProofs`: `TypeCorrect`, `DeviceIsHeld` | | `[]TypeOK`, `[]DeviceStays` |
| `SameIsSound`, `NotSameIsSound` | | `[]SameIsTrue`, `[]NotSameIsTrue` |

`ChainWalkProofs` and `SnapshotContentProofs` hold lemmas that `SnapshotQueryProofs`
needs: of the walk, and of the content of a disk as its definition unfolds.

### The hypotheses, and where they come from

* `Nested`: the size of a file's clusters is a multiple of the next file's.  `EndsCut`:
  only the base and the newest file may end in a cluster cut short.  Chains whose files
  have clusters of one size, which is what snapshots of one image are, meet the first.
  Without either the theorems are false, by the loss in `map::insert` that section 6
  describes; `read_middle` shows it for `EndsCut`.  The instance of `read` does not meet
  `Nested` (its middle file has the larger clusters) and is exact because its base is
  too short for that loss, so the run and the theorem each reach where the other does
  not: of a trim, `CutSecond` is the branch no chain under the hypotheses takes, and the
  run takes it.
* `OneWriter`: one handle writes at a time, and Clean, where it is called, is not cut
  short.  Two handles each keep a last cluster and place data in the same one (1528); a
  Clean that stops half way leaves L2 tables that no L1 entry leads to, and the next write
  links them in again (1241).  `write_faults`, `write_refs` and `write_clean` are three of
  its instances.
* `OneSession`: also no reopening and no crash, and `OneL1Cluster`, an L1 table of one
  cluster: `FirstData` counts it as one (1523).  `write_reopen` is why: reopened, a
  handle does not know of the refcount blocks behind its data.  `OneBlock` is the other
  way out, a disk whose tables and data the first refcount block counts, so that no
  other is ever placed; then nothing else has to be assumed.
* `TablesApart` is `OneSession`, or `OneL1Cluster` and `OneBlock`: the two cases in which
  `MetaDisjoint` is proved.  Elsewhere data may be placed in a table or a refcount block,
  as `write_reopen` shows, and each write to the one then destroys the other; the module
  does not follow that, so the theorems about data and counts claim nothing there,
  although their proofs make no use of the hypothesis.
* `CountsKept`: no call is cut short, the first refcount block counts the L2 tables, and
  with Clean the whole disk.  A crash between an entry and its `setRefcount` leaves the
  cluster uncounted for good (1551); a table beyond the first block, entered by a handle
  that knows no last cluster, is refused its block (`RefBlockRefused`); and Clean zeroes
  the other refcount blocks but leaves them in the refcount table.
* `NoBase`: see `write_overlay` in section 6.  Besides, a cluster over a base is not copied
  when a part of it is written.

### The arguments

*The query.* `AreasDisjoint` holds between files and is not inductive: within a file new
areas overlap old ones. `Inv` of `ChangedAreasProofs` says how far: old areas do not
overlap each other and new ones do not (`Ordered`), the clusters recorded are behind the
scan (`Front`), and nothing overlaps an area the trimming sweep has passed (`Swept`).
Each of `Record`, `Merged`, `CutSecond` and `CutFirst` has lemmas that say what it does
to the order and to what is covered. `ExactInv` adds who owns what: the new areas are
the clusters of this file that were scanned (`NewCover`), the old ones are right and
lose nothing the finished files have (`OldCover`), areas begin where the clusters of the
current file do (`Alignment`, from `Nested`), and so no old area begins inside a new one
(`NoneInside`, `Untouched`), which keeps every `insert` on a free key.

*A read.* The clipping loop may run over the areas twice, and on the second pass it
meets the area that gave the last piece and inserts that piece again, which `insert`
makes a no-op; `Clipping` therefore says of every piece that it is behind `mark` or is
such a last one (`Final`), and of every sector behind `mark` that it is taken. That a
piece is served by the file of its first sector is right because of who owns an area:
had a newer file allocated a cluster for a later sector of the piece, either the start
of that cluster would lie in the piece and be owned by the newer file, or the piece's
first sector would be in that cluster beyond the end of the file, and the copy would
fail (`Copying`).

*The write path.* `Basics` is what every image has: data at or behind `FirstData`,
tables where the layout puts them, nothing left of a call that is over (`Quiet`),
zeros behind a Clean on its way (`Cleaning`), and a file that reaches to every entry in
use and has no data behind its end (`InFile`), by which a Clean that comes to the end of
the file has come to everything. What the search adds at the end of the file (`Stale`)
can only make it find a larger cluster, never hide one (`LargestIs`). `DataDisjoint` needs in addition that a
handle's `last`, when it is known, is not below any allocated cluster and that the L1
table leads to every entry, so that the search for the largest sees them all
(`DataInv`): that makes the next cluster a new one. `MetaDisjoint` needs that refcount
blocks but the first are at or below `last` too (`MetaInv`), or that there are none
(`OneBlockInv`). `AllCounted` is not inductive within a call; `CountsInv` says that what
is reachable is counted or on the stack `todo`, and that a handle without a last cluster
asks for nothing beyond the first block, by which `RefBlockRefused`, which would drop
the stack, cannot happen.

*The refinement.* `StepRefines` maps each step: entries in L1 and L2 tables, refcounts,
opens and closes are stutters; a chunk stored or passed over is `Store`; an error, a
torn chunk and a crash are `Stop`; Clean clears. `DiskInv` has what makes an entry in an
L2 table a stutter: a cluster that no entry leads to still holds zeros, even in an image
that was cleaned, since Clean goes on to the end of the file. Where the file ends makes no
difference to a reader without a base (`DiskIsEntered`): a cluster that is entered and
lies behind the end holds nothing, and nothing is what he finds.

*The session.* `FdSafe` needs that the library's own set shares no descriptor with one
the map keeps, and that two in the map share none (`Apart`); `NoLeak` that a set which
is not the library's own is one of those in the map (`Shared`); `ReadRight` what the
globals are pointed at until a call changes them (`Pointed`).

*The walk and the queries.* `FoundExactly` follows from an invariant of the walk's loop:
the set is a path that leads on from the start and does not come back (`LeadsOn`,
`OnPath`). A walk down a chain that leads back to itself is the hard part of what a disk
contains: `SnapshotContentProofs` shows by the pigeonhole principle that a file a walk
has come to twice is met again for ever, so that what is found within as many steps as
there are files is all there is. With that, `ReportExact` is a statement about one
cluster and the first file of the set that has it.

*The comparison.* The server's buffer may hold answers of any earlier round. What the
invariant keeps of it for the round at hand is the guest's data in the slots that were
read for it, and the order in front unless the first sector replaced it (`AnswersHold`);
the client compares what was sent (`Received`); and no round is ahead of its order
(`NotYet`, `AtWork`). `DeviceStays` needs to know at which of its places each process may
be while the other is at one of its own (`InStep`): a server that reads has accepted the
round the client is in, and the client waits for its answer.

Where an argument is an induction on a number or on the length of a walk, it is written
as a least counterexample over a set of naturals, since the provers cannot instantiate
the library's induction theorems.

### Only model-checked

* Liveness (`QueryReturns`, `ReadReturns`, `CallsReturn`, `QueryEnds`, `RunEnds`): it rests on fairness and
  `ENABLED`, which the prover cannot reason about.
* Chains outside `Nested` and `EndsCut`, in `read`.

Two handles that write by turns, a Clean cut short before a reopening, and refcount
blocks behind the data of a reopened handle are outside the hypotheses because the code
breaks `DataDisjoint` or `MetaDisjoint` there.  An L1 table of several clusters is in reach
of `TypeCorrect` only, and of no run.

## 6. Where code and documentation disagree

1. `read_middle` (712): the rest of an overlaid area is put back with
   `map::insert`, which does nothing if an area starts there already.  With a
   truncated overlay in the middle of a chain, which is how `Qcow2Lib_Write` leaves
   a file whose last cluster is partly written, a read answers OK with wrong data.
   Whole clusters are lost in the same way where a file has larger ones than the file
   below and an older area reaches beyond two of them: with clusters of 2 and 4 sectors
   and disks of 10 and 12, a base that has sectors 2 to 9 under an overlay that has the
   first two of its clusters, `NothingUncovered` fails, sectors 8 and 9 are given up and
   read as zeros.  A newest file cut short whose clusters are larger than those of the file
   below does it too.  `read` stays clear of these, and the theorems exclude them (section 5).
2. `write_reopen` (1528): a reopened handle places data in a refcount block.
3. `write_overlay` (1557): zeros over data of the backing chain are not written, also
   where a whole cluster of them is.
4. `session_close` (1209): closing a handle empties what another is read from.
5. `snapshots_read` (1381): the query reports a cluster that the end snapshot has given
   up (609-612), but the set it leaves has only the tables of the end.  A read of that
   area finds no file, calls itself, and never returns; in the program it ends when the
   stack does.

These were met too and have no run.  No line of the repository promises otherwise, but
for the comment on detaching:

* The room for a new cluster is tested by its offset in the file against the *virtual* size
  (1534), so that metadata takes the place of the last guest clusters (`DiskClusters` in
  `Qcow2Write` is that limit, and writes at the end of the disk are refused by `NoSpace`).
* After a crash that leaves the file ending inside an L2 table, the next handle takes an
  offset with swapped bytes for the last cluster (1510-1515).  As a rule that is larger than
  the disk, and the handle can allocate nothing any more ("The qcow2 disk is too small",
  1534) until something else has made the file longer; on a huge disk it may allocate far
  behind what there is.  Neither collides with other data, which is what `write_faults` and
  the theorems say.
* `Qcow2Lib_Write` does not copy from the backing chain when it writes a part of a new
  cluster: the rest of the cluster reads as zeros (1495-1562).  `write_overlay` writes whole
  clusters so as not to show this.
* `GetQCOW2ClusterOffset` uses an uninitialised offset for an entry behind the end of the
  file (496-502), where `pread` returns 0 as well.
* The disk stays attached when `virDetachVolume` answers an error
  (`physics/attach/attach.cpp:52-67`), which `main` does not look at, and when the library
  runs out of memory in a read: the second handler of `physics/main.cpp` (66) takes text
  only.  Line 70 says that the disk is detached when an exception happens
  ("异常发生时，卸载虚拟盘").  `DetachFails` and `Uncaught` are these steps.
* A read or an open that turns from the library's own set to one a query has left forgets
  the own set without closing it (1155, 1298), which is why `NoLeak` names that turn.
* A server that cannot open its disk answers nevertheless
  (`virtual/getsectordata/getsectordata.cpp:40`, `virtual/main.cpp:60`), which is why
  `NotSameIsTrue` needs its condition.

## 7. Not modelled, and why

* In `SnapshotQuery`, errors of the reads in `GetQCOW2ClusterOffset`, which takes the
  cluster for unallocated then (488, 503), and an external query of an image that is its
  own backing file, which the code walks for ever without keeping anything open.
* In `Qcow2Session`, the second descriptor that is lost when the name of a snapshot
  cannot be read (309-312); `ChainWalk` has it.
* A file that ends inside a sector; areas of length zero would follow.  An 8 or
  2 byte write to a table that is torn: both cross no sector border.
* In `Qcow2Write`, what a write does to a cluster that is data and a table at once: where
  there can be one, `MetaDisjoint` fails.  A write of data or of a refcount is taken to
  make the file as long as its cluster, behind which there is no table; a reader who asks
  for a sector between the two gets an error (880), where `Disk` has zeros.
* In the read modules, an L2 table the file has only the beginning of.
* Compressed and zero clusters of images populated by QEMU.  The library clears the two
  top bits of an entry when it reads it and sets COPIED when it writes one (72-78,
  87-98), so that COPIED is no concern; but a compressed cluster would be read as it
  lies in the file, and the zero flag (bit 0) is taken for a part of the offset.
* Read-write handles in `Qcow2Session`: their Close has the effect on the globals
  that is modelled there.
* In the comparison: an order that arrives in pieces; an answer sent in part; a disk
  under another name than the one the server opens first; an XML file of an earlier
  run, by which another image is attached than the library reads; a `recv` that fails
  although the server goes on; a client killed by a signal, or that runs out of memory
  between connecting and its order (`physics/main.cpp:35`), on which the server goes on
  with what its buffer holds of an earlier order.
* Memory and log output; `IsFileExists`; argument checks that return before
  anything changes.
* Components with the status `not_modelled` in `PROJECT.json`.

## 8. Plan

Done in this order: the query and the read path; the write path, Clean and the
abstract disk; the proofs of the write path; the session; the comparison; the walk
of a chain and the snapshot queries; devices that cannot be read; the proofs of every
safety property the runs check, and of the refinement; the length of the file in the
write path, and detaching that fails.  Next:

1. Theorems: which chains beyond `Nested` are exact, by a bound on how far an older
   area reaches; `MetaDisjoint` for a reopened handle with several blocks as long as data
   is behind all of them; the answer of a read that follows a query which gave a cluster up.
2. Clusters that are data and a table at once, by which the write path could be followed
   where `TablesApart` fails: an L1 table of more than one cluster, a reopened handle with
   several refcount blocks, and Clean with several blocks.
