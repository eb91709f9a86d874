----------------------------- MODULE VirtualDisk -----------------------------
(***************************************************************************)
(* What Qcow2Lib_Write and Qcow2Lib_Clean promise their caller, whatever   *)
(* the format of the image file: a disk of sectors.  A write stores its    *)
(* buffer from the first sector on, in order, touches no other sector, and *)
(* answers OK only when all of it is stored.  A write that answers with an *)
(* error, or that a crash cuts off, has stored a prefix.  Cleaning leaves  *)
(* every sector zero.                                                      *)
(***************************************************************************)
EXTENDS Integers, Sequences

CONSTANTS
    Sector,     \* the sectors of the disk, a set of naturals
    Value,      \* what a sector may hold
    Zero        \* the value, one of them, of a sector never written

VARIABLES
    disk,       \* the contents of every sector
    call,       \* the call in progress
    sec,        \* the sector its remaining buffer goes to
    buf,        \* what of its buffer is not stored yet
    result      \* the answer of the last call

vars == <<disk, call, sec, buf, result>>

\* The disk with the first n values of the buffer stored.
Stored(n) == [s \in Sector |->
                 IF sec <= s /\ s < sec + n THEN buf[s - sec + 1] ELSE disk[s]]

Init ==
    /\ disk \in [Sector -> Value]
    /\ call = "idle"
    /\ sec = 0
    /\ buf = <<>>
    /\ result = "none"

\* A write of a range inside the disk begins.
BeginWrite ==
    /\ call = "idle"
    /\ call' = "write"
    /\ sec' \in Sector
    /\ buf' \in Seq(Value) \ {<<>>}
    /\ \A i \in 1..Len(buf') : sec' + i - 1 \in Sector
    /\ result' = "none"
    /\ UNCHANGED disk

\* A call answers an error before it starts.
Refuse ==
    /\ call = "idle"
    /\ result' = "invalid"
    /\ UNCHANGED <<disk, call, sec, buf>>

\* The next part of the buffer is stored.
Store ==
    /\ call = "write"
    /\ \E n \in 1..Len(buf) :
          /\ disk' = Stored(n)
          /\ sec' = sec + n
          /\ buf' = SubSeq(buf, n + 1, Len(buf))
    /\ UNCHANGED <<call, result>>

\* All is stored and the write answers OK.
Finish ==
    /\ call = "write"
    /\ buf = <<>>
    /\ call' = "idle"
    /\ result' = "ok"
    /\ sec' = 0
    /\ UNCHANGED <<disk, buf>>

\* The write stops with an error, or the process does, and one last part of
\* the buffer may have been stored.
Stop ==
    /\ call = "write"
    /\ \E n \in 0..Len(buf) : disk' = Stored(n)
    /\ call' = "idle"
    /\ result' \in {"invalid", "failed", "none"}
    /\ sec' = 0
    /\ buf' = <<>>

BeginClean ==
    /\ call = "idle"
    /\ call' = "clean"
    /\ result' = "none"
    /\ UNCHANGED <<disk, sec, buf>>

\* Cleaning clears sectors in an order of its own.
Clear ==
    /\ call = "clean"
    /\ disk' \in [Sector -> Value]
    /\ \A s \in Sector : disk'[s] \in {disk[s], Zero}
    /\ UNCHANGED <<call, sec, buf, result>>

\* Cleaning answers OK when every sector is zero.
FinishClean ==
    /\ call = "clean"
    /\ \A s \in Sector : disk[s] = Zero
    /\ call' = "idle"
    /\ result' = "ok"
    /\ UNCHANGED <<disk, sec, buf>>

\* Cleaning is cut short.
StopClean ==
    /\ call = "clean"
    /\ call' = "idle"
    /\ result' \in {"failed", "none"}
    /\ UNCHANGED <<disk, sec, buf>>

\* The process has gone, and the answer of its last call with it.
Forget ==
    /\ call = "idle"
    /\ result' = "none"
    /\ UNCHANGED <<disk, call, sec, buf>>

Next ==
    \/ BeginWrite \/ Refuse \/ Store \/ Finish \/ Stop
    \/ BeginClean \/ Clear \/ FinishClean \/ StopClean
    \/ Forget

Spec == Init /\ [][Next]_vars
=============================================================================
