------------------------------ MODULE Qcow2Read ------------------------------
(***************************************************************************)
(* Qcow2Lib_Read of an image opened without a query before, with           *)
(* readSectors: physics/localread/qcow2Lib.cpp.                            *)
(*                                                                         *)
(* Opening the image has run the query of ChangedAreas and kept the starts *)
(* and lengths of its areas, without their files.  A read clips its range  *)
(* to the areas, in a loop over the map inside a loop until nothing moves, *)
(* and reads each piece from the newest file that has its FIRST sector.    *)
(* Sectors between the pieces stay zero.  A caller who has made a query of *)
(* its own reads the areas it was told, as they are: the files are then    *)
(* those of the query.                                                     *)
(***************************************************************************)
EXTENDS ChangedAreas

VARIABLES
    step,       \* what Read is at: "idle", "clip" or "copy"
    start,      \* the range asked for: startSector
    num,        \*   and numSectors
    mark,       \* markStartSector
    left,       \* markNumSectors
    before,     \* markNumSectorsMark
    it,         \* the iterator of the loop that runs
    pieces,     \* the clipped areas, from start sector to length
    buffer,     \* the file each sector of readBuffer comes from, 0 for zeros
    answer      \* what the last read answered

readVars == <<step, start, num, mark, left, before, it, pieces, buffer, answer>>
allVars == <<vars, readVars>>

\* The virtual disk is the newest file.
DiskSectors == SizeSectors[NFiles]

-----------------------------------------------------------------------------
ReadInit ==
    /\ Init
    /\ step = "idle"
    /\ start = 0 /\ num = 0
    /\ mark = 0 /\ left = 0 /\ before = 0
    /\ it = End
    /\ pieces = <<>>
    /\ buffer = <<>>
    /\ answer = "none"

\* Open runs the query to its end first.
Opening == Query /\ UNCHANGED readVars

ReadBegin(s, n) ==
    /\ phase = "done"
    /\ step = "idle"
    /\ step' = "clip"
    /\ start' = s /\ num' = n
    /\ mark' = s /\ left' = n /\ before' = n
    /\ it' = Begin(areas)
    /\ pieces' = <<>>
    /\ buffer' = [x \in s..(s + n - 1) |-> 0]
    /\ answer' = "none"
    /\ UNCHANGED vars

\* A caller who has made a query reads an area as it was reported, of a handle
\* that is then read through the set of the query: nothing is clipped.
ReadArea(p) ==
    /\ phase = "done"
    /\ step = "idle"
    /\ p \in DOMAIN areas
    /\ step' = "copy"
    /\ start' = p /\ num' = areas[p].len
    /\ mark' = p /\ left' = 0 /\ before' = 0
    /\ it' = p
    /\ pieces' = [q \in {p} |-> areas[p].len]
    /\ buffer' = [x \in p..(EndOf(areas, p) - 1) |-> 0]
    /\ answer' = "none"
    /\ UNCHANGED vars

\* Mutants: a piece is not cut to what is left of the range; the loop goes on
\* for ever.
ClipLastWhole ==
    /\ step = "clip" /\ it # End
    /\ it < mark + left
    /\ EndOf(areas, it) > mark
    /\ EndOf(areas, it) >= mark + left
    /\ pieces' = Insert(pieces, Max({it, mark}), areas[it].len)
    /\ it' = End
    /\ UNCHANGED <<vars, step, start, num, mark, left, before, buffer, answer>>
ClipInsideWhole ==
    /\ step = "clip" /\ it # End
    /\ EndOf(areas, it) > mark
    /\ EndOf(areas, it) < mark + left
    /\ pieces' = Insert(pieces, it, areas[it].len)
    /\ left' = mark + left - EndOf(areas, it)
    /\ mark' = EndOf(areas, it)
    /\ it' = NextKey(areas, it)
    /\ UNCHANGED <<vars, step, start, num, before, buffer, answer>>
ClipTurnWhileLeft ==
    /\ step = "clip" /\ it = End
    /\ IF left = 0
         THEN /\ step' = "copy"
              /\ it' = Begin(pieces)
              /\ UNCHANGED before
         ELSE /\ before' = left
              /\ it' = Begin(areas)
              /\ UNCHANGED step
    /\ UNCHANGED <<vars, start, num, mark, left, pieces, buffer, answer>>

\* One turn of the inner loop.  The area lies behind what is left, ...
ClipBehind ==
    /\ step = "clip" /\ it # End
    /\ it >= mark + left
    /\ left' = 0
    /\ it' = End
    /\ UNCHANGED <<vars, step, start, num, mark, before, pieces, buffer, answer>>

\* ... or before it, ...
ClipBefore ==
    /\ step = "clip" /\ it # End
    /\ it < mark + left
    /\ EndOf(areas, it) <= mark
    /\ it' = NextKey(areas, it)
    /\ UNCHANGED <<vars, step, start, num, mark, left, before, pieces,
                   buffer, answer>>

\* ... or it reaches to the end of what is left or beyond, ...
ClipLast ==
    /\ step = "clip" /\ it # End
    /\ it < mark + left
    /\ EndOf(areas, it) > mark
    /\ EndOf(areas, it) >= mark + left
    /\ LET from == Max({it, mark})
       IN  pieces' = Insert(pieces, from, mark + left - from)
    /\ it' = End
    /\ UNCHANGED <<vars, step, start, num, mark, left, before, buffer, answer>>

\* ... or it ends inside, and the loop goes on behind it.
ClipInside ==
    /\ step = "clip" /\ it # End
    /\ EndOf(areas, it) > mark
    /\ EndOf(areas, it) < mark + left
    /\ LET from == Max({it, mark})
       IN  pieces' = Insert(pieces, from, EndOf(areas, it) - from)
    /\ left' = mark + left - EndOf(areas, it)
    /\ mark' = EndOf(areas, it)
    /\ it' = NextKey(areas, it)
    /\ UNCHANGED <<vars, step, start, num, before, buffer, answer>>

\* One turn of the outer loop: again, unless nothing is left or has moved.
ClipTurn ==
    /\ step = "clip" /\ it = End
    /\ IF left = 0 \/ left = before
         THEN /\ step' = "copy"
              /\ it' = Begin(pieces)
              /\ UNCHANGED before
         ELSE /\ before' = left
              /\ it' = Begin(areas)
              /\ UNCHANGED step
    /\ UNCHANGED <<vars, start, num, mark, left, pieces, buffer, answer>>

\* The file has a cluster for the sector, whole or cut short.
Allocated(f, s) ==
    LET c == s \div ClusterSectors[f]
    IN  c \in Clusters(f) /\ held[f][c] # 0

\* Mutant: the chain is searched from the base.
ServerFromBase(s) == {f \in Files : /\ Allocated(f, s)
                                    /\ \A g \in Files : Allocated(g, s) => f <= g}

\* readSectors: the newest file with the first sector of a piece serves all
\* of it, or none does.
Server(s) == {f \in Files : /\ Allocated(f, s)
                            /\ \A g \in Files : Allocated(g, s) => g <= f}

CopyPiece ==
    /\ step = "copy" /\ it # End
    /\ LET piece == it..(it + pieces[it] - 1)
       IN  /\ \A f \in Server(it) : \A s \in piece : Holds(f, s)
           /\ buffer' = [s \in DOMAIN buffer |->
                            IF s \in piece /\ Server(it) # {}
                              THEN CHOOSE f \in Server(it) : TRUE
                              ELSE buffer[s]]
    /\ it' = NextKey(pieces, it)
    /\ UNCHANGED <<vars, step, start, num, mark, left, before, pieces, answer>>

\* A cluster the file does not have, or a pread beyond its end.  What of the
\* piece was copied before is left out: the answer says not to look at it.
CopyFails ==
    /\ step = "copy" /\ it # End
    /\ \E f \in Server(it) : \E s \in it..(it + pieces[it] - 1) : ~Holds(f, s)
    /\ step' = "idle"
    /\ answer' = "failed"
    /\ UNCHANGED <<vars, start, num, mark, left, before, it, pieces, buffer>>

CopyDone ==
    /\ step = "copy" /\ it = End
    /\ step' = "idle"
    /\ answer' = "ok"
    /\ UNCHANGED <<vars, start, num, mark, left, before, it, pieces, buffer>>

Reading == ClipBehind \/ ClipBefore \/ ClipLast \/ ClipInside \/ ClipTurn
              \/ CopyPiece \/ CopyFails \/ CopyDone

ReadNext ==
    \/ Opening
    \/ \E s \in 0..(DiskSectors - 1) : \E n \in 1..(DiskSectors - s) : ReadBegin(s, n)
    \/ \E p \in DOMAIN areas : ReadArea(p)
    \/ Reading

ReadSpec == ReadInit /\ [][ReadNext]_allVars
\* A read is one call of one thread and runs on while it can.
FairReadSpec == ReadSpec /\ WF_allVars(Opening) /\ WF_allVars(Reading)

-----------------------------------------------------------------------------
ReadTypeOK ==
    /\ step \in {"idle", "clip", "copy"}
    /\ start \in 0..Reach /\ num \in 0..Reach
    /\ mark \in start..(start + num) /\ left \in 0..num /\ before \in 0..num
    /\ it \in DOMAIN areas \cup DOMAIN pieces \cup {End}
    /\ \A p \in DOMAIN pieces : pieces[p] \in 1..num
    /\ \A s \in DOMAIN buffer : buffer[s] \in 0..NFiles
    /\ answer \in {"none", "ok", "failed"}

\* What a sector of the virtual disk comes from: the newest file that has
\* allocated it; past the end of that file it is zeros.
Source(s) ==
    LET fs == {f \in Files : Allocated(f, s)}
    IN  IF fs # {} /\ Holds(Max(fs), s) THEN Max(fs) ELSE 0

\* A read that answers OK has filled its buffer with what the chain holds,
\* sector by sector, though it looked up only the first sector of each piece.
ReadExact == answer = "ok" => \A s \in start..(start + num - 1) : buffer[s] = Source(s)

\* The clipped pieces never overlap and never leave the range asked for: no
\* copy runs out of readBuffer, and none is done over another.
PiecesInRange ==
    \A p \in DOMAIN pieces :
        /\ start <= p /\ p + pieces[p] <= start + num
        /\ \A q \in DOMAIN pieces : p < q => p + pieces[p] <= q

\* The loop around the clipping loop ends, and the read answers.
ReadReturns == (step # "idle") ~> (step = "idle")
=============================================================================
