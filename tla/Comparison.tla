----------------------------- MODULE Comparison -----------------------------
(***************************************************************************)
(* A run of comparisons: the client on the host (physics/main.cpp and      *)
(* physics/connection), the server in the guest (virtual/main.cpp,         *)
(* virtual/connection, virtual/getsectordata), the TCP connection between  *)
(* them, and the disk the client attaches to the guest.                    *)
(*                                                                         *)
(* In every round the client connects anew, sends a range, receives the    *)
(* sectors the guest reads of its disk, reads the same range through the   *)
(* library and compares.  The server has one buffer: orders arrive in the  *)
(* beginning of it, answers are read into it and sent from it, and nobody  *)
(* clears it or looks whether a sector could be read.                      *)
(*                                                                         *)
(* Every connection brings an order, whose 20 bytes arrive at once, and an *)
(* answer is sent as a whole or not at all.                                *)
(***************************************************************************)
EXTENDS Integers

CONSTANTS
    Sector,         \* the sectors ranges are taken of, 0 to SECTOR_NUM
    MaxNum,         \* MAX_RANDOM_SECTOR_RANGE
    Value, Zero,    \* contents of a sector; Zero is all zeros
    Text,           \* contents of a sector that begins with an order
    Rounds,         \* comparisons of a run; the bound is in main
    Allowed         \* what may happen: the disk appears after the client has
                    \*   slept ("late"), the server stops ("crash"), the
                    \*   client's local calls fail ("fault"), sectors
                    \*   cannot be read ("bad")

Ranges == {r \in Sector \X (1..MaxNum) : \A i \in 0..(r[2] - 1) : r[1] + i \in Sector}
Slot == 0..(MaxNum - 1)
Round == 1..Rounds
NoOrder == <<0, 0>>

ASSUME SectorAssumption == Sector \subseteq Nat /\ MaxNum \in Nat \ {0}
ASSUME ValueAssumption == Zero \in Value /\ Text \notin Value
ASSUME RoundsAssumption == Rounds \in Nat \ {0}
ASSUME AllowedAssumption == Allowed \subseteq {"late", "crash", "fault", "bad"}

VARIABLES
    guest,          \* what the attached image holds
    library,        \* what the library reads of it
    attached,       \* libvirt has attached the image to the guest
    device,         \* and the guest has a device for it
    client,         \* where main of the client is
    round,          \* its loop counter, from 1
    remote,         \* data_ of its connection
    whole,          \* history: the last recv returned what it was asked for
    verdict,        \* what it printed last
    orders,         \* the order sent on each round's connection
    answers,        \* the answer sent on each round's connection, by slot
    server,         \* where main of the server is
    conn,           \* the round whose connection it has accepted last
    fd,             \* it could open the device
    slot,           \* the slot it is to read next
    buffer,         \* data_ of its connection
    got             \* history: the slots of each round's answer that were
                    \*   read of the device for it

disks == <<guest, library>>
clientVars == <<client, round, remote, whole, verdict>>
serverVars == <<server, conn, fd, slot, buffer, got>>
vars == <<disks, attached, device, clientVars, orders, answers, serverVars>>

Empty == [i \in Slot |-> Zero]
\* No answer: it has no slots.
NoAnswer == <<>>

Init ==
    /\ guest \in [Sector -> Value]
    /\ library \in [Sector -> Value]
    /\ attached = FALSE
    /\ device = FALSE
    /\ client = "attach"
    /\ round = 1
    /\ remote = Empty
    /\ whole = FALSE
    /\ verdict = "none"
    /\ orders = [r \in Round |-> NoOrder]
    /\ answers = [r \in Round |-> NoAnswer]
    /\ server = "accept"
    /\ conn = 0
    /\ fd = FALSE
    /\ slot = 0
    /\ buffer = Empty
    /\ got = [r \in Round |-> {}]

-----------------------------------------------------------------------------
(* The client.                                                             *)

Attach ==
    /\ client = "attach"
    /\ attached' = TRUE
    /\ client' = "sleep"
    /\ UNCHANGED <<disks, device, round, remote, whole, verdict, orders, answers,
                   serverVars>>

AttachFails ==
    /\ "fault" \in Allowed
    /\ client = "attach"
    /\ client' = "ended"
    /\ UNCHANGED <<disks, attached, device, round, remote, whole, verdict,
                   orders, answers, serverVars>>

\* sleep(1), in which the guest is to find the disk.
Sleep ==
    /\ client = "sleep"
    /\ client' = "connect"
    /\ IF "late" \in Allowed THEN UNCHANGED device ELSE device' = TRUE
    /\ UNCHANGED <<disks, attached, round, remote, whole, verdict, orders,
                   answers, serverVars>>

\* The client has done or caught an error, and is to detach the disk.
GiveUp ==
    /\ client' = "detach"
    /\ UNCHANGED <<attached, device>>

\* virDetachVolume, after which main returns.
Detach ==
    /\ client = "detach"
    /\ attached' = FALSE
    /\ device' = FALSE
    /\ client' = "ended"
    /\ UNCHANGED <<disks, round, remote, whole, verdict, orders, answers,
                   serverVars>>

\* It answers an error, and main returns all the same.
DetachFails ==
    /\ "fault" \in Allowed
    /\ client = "detach"
    /\ client' = "ended"
    /\ UNCHANGED <<disks, attached, device, round, remote, whole, verdict,
                   orders, answers, serverVars>>

\* A new Connection: its buffer is zeroed.
Connect ==
    /\ client = "connect"
    /\ server # "dead"
    /\ client' = "send"
    /\ remote' = Empty
    /\ UNCHANGED <<disks, attached, device, round, whole, verdict, orders,
                   answers, serverVars>>

\* The server cannot be reached, or memory runs out before the connection is
\* made.
ConnectFails ==
    /\ client = "connect"
    /\ server = "dead" \/ "fault" \in Allowed
    /\ GiveUp
    /\ UNCHANGED <<disks, round, remote, whole, verdict, orders, answers,
                   serverVars>>

\* A random range is ordered.
Send ==
    /\ client = "send"
    /\ \E r \in Ranges : orders' = [orders EXCEPT ![round] = r]
    /\ client' = "receive"
    /\ UNCHANGED <<disks, attached, device, round, remote, whole, verdict,
                   answers, serverVars>>

Start(r) == orders[r][1]
Num(r) == orders[r][2]

\* Mutant of Receive: the last sector is not waited for.
ReceiveOneLess ==
    /\ client = "receive"
    /\ answers[round] # NoAnswer
    /\ remote' = [i \in Slot |-> IF i < Num(round) - 1 THEN answers[round][i] ELSE Zero]
    /\ whole' = TRUE
    /\ client' = "local"
    /\ UNCHANGED <<disks, attached, device, round, verdict, orders, answers,
                   serverVars>>

\* Mutant of Receive: recv returns what there is.
ReceiveAtOnce ==
    /\ client = "receive"
    /\ remote' = [i \in Slot |-> IF i < Num(round) /\ answers[round] # NoAnswer
                                  THEN answers[round][i] ELSE Zero]
    /\ whole' = (answers[round] # NoAnswer)
    /\ client' = "local"
    /\ UNCHANGED <<disks, attached, device, round, verdict, orders, answers,
                   serverVars>>

\* recv waits for as many bytes as were asked for; the server sends more.
Receive ==
    /\ client = "receive"
    /\ answers[round] # NoAnswer
    /\ remote' = [i \in Slot |-> IF i < Num(round) THEN answers[round][i] ELSE Zero]
    /\ whole' = TRUE
    /\ client' = "local"
    /\ UNCHANGED <<disks, attached, device, round, verdict, orders, answers,
                   serverVars>>

\* Mutant of ServerGone: the client goes on to wait for what is missing.
NobodyGone == FALSE

\* The server has gone without an answer.
ServerGone == server = "dead" /\ answers[round] = NoAnswer

\* A closed connection makes recv return less than it was asked for, which the
\* client does not notice; ...
ReceiveShort ==
    /\ client = "receive"
    /\ ServerGone
    /\ whole' = FALSE
    /\ client' = "local"
    /\ UNCHANGED <<disks, attached, device, round, remote, verdict, orders,
                   answers, serverVars>>

\* ... a connection that was reset is an error, also of send.
ReceiveFails ==
    /\ client = "receive"
    /\ ServerGone
    /\ GiveUp
    /\ UNCHANGED <<disks, round, remote, whole, verdict, orders, answers,
                   serverVars>>

\* LocalRead: the library reads the range.
LocalFails ==
    /\ "fault" \in Allowed
    /\ client = "local"
    /\ GiveUp
    /\ UNCHANGED <<disks, round, remote, whole, verdict, orders, answers,
                   serverVars>>

\* The library runs out of memory.  No handler of main takes that exception
\* where it reads, and the client stops without detaching.
Uncaught ==
    /\ "fault" \in Allowed
    /\ client = "local"
    /\ client' = "ended"
    /\ UNCHANGED <<disks, attached, device, round, remote, whole, verdict,
                   orders, answers, serverVars>>

SameData == \A i \in Slot : i < Num(round) => remote[i] = library[Start(round) + i]

Compare ==
    /\ client = "local"
    /\ verdict' = IF SameData THEN "same" ELSE "not_same"
    /\ client' = "next"
    /\ UNCHANGED <<disks, attached, device, round, remote, whole, orders,
                   answers, serverVars>>

Again ==
    /\ client = "next"
    /\ round < Rounds
    /\ round' = round + 1
    /\ verdict' = "none"
    /\ client' = "connect"
    /\ UNCHANGED <<disks, attached, device, remote, whole, orders, answers,
                   serverVars>>

Finish ==
    /\ client = "next"
    /\ round = Rounds
    /\ GiveUp
    /\ UNCHANGED <<disks, round, remote, whole, verdict, orders, answers,
                   serverVars>>

Client ==
    \/ Attach \/ AttachFails \/ Sleep \/ Connect \/ ConnectFails \/ Send
    \/ Receive \/ ReceiveShort \/ ReceiveFails \/ LocalFails \/ Uncaught
    \/ Compare \/ Again \/ Finish \/ Detach \/ DetachFails

-----------------------------------------------------------------------------
(* The guest.                                                              *)

DeviceAppears ==
    /\ attached
    /\ ~device
    /\ device' = TRUE
    /\ UNCHANGED <<disks, attached, clientVars, orders, answers, serverVars>>

\* The client has connected for its round, and the server has not accepted.
Waiting == conn < round /\ client \in {"send", "receive"}

\* Mutant of Accept: it does not wait for a connection.
AcceptNobody ==
    /\ server = "accept"
    /\ conn' = conn + 1
    /\ server' = "receive"
    /\ UNCHANGED <<disks, attached, device, clientVars, orders, answers, fd,
                   slot, buffer, got>>

Accept ==
    /\ server = "accept"
    /\ Waiting
    /\ conn' = conn + 1
    /\ server' = "receive"
    /\ UNCHANGED <<disks, attached, device, clientVars, orders, answers, fd,
                   slot, buffer, got>>

\* Mutant of ReceiveOrder: the order does not go to the buffer of the answers.
ReceiveOrderAside ==
    /\ server = "receive"
    /\ orders[conn] # NoOrder
    /\ server' = "open"
    /\ UNCHANGED <<disks, attached, device, clientVars, orders, answers, conn,
                   fd, slot, buffer, got>>

\* The order arrives in the beginning of the buffer.
ReceiveOrder ==
    /\ server = "receive"
    /\ orders[conn] # NoOrder
    /\ buffer' = [buffer EXCEPT ![0] = Text]
    /\ server' = "open"
    /\ UNCHANGED <<disks, attached, device, clientVars, orders, answers, conn,
                   fd, slot, got>>

\* The device is opened if there is one; it goes on in any case.
OpenDevice ==
    /\ server = "open"
    /\ fd' = device
    /\ slot' = 0
    /\ server' = "read"
    /\ UNCHANGED <<disks, attached, device, clientVars, orders, answers, conn,
                   buffer, got>>

\* getDiskSector reads the next sector into its slot, ...
ReadSector ==
    /\ server = "read"
    /\ slot < Num(conn)
    /\ fd
    /\ buffer' = [buffer EXCEPT ![slot] = guest[Start(conn) + slot]]
    /\ got' = [got EXCEPT ![conn] = @ \cup {slot}]
    /\ slot' = slot + 1
    /\ UNCHANGED <<disks, attached, device, clientVars, orders, answers,
                   server, conn, fd>>

\* ... or fails to, leaves the slot as it is and goes on.
SkipSector ==
    /\ server = "read"
    /\ slot < Num(conn)
    /\ ~fd \/ "bad" \in Allowed
    /\ slot' = slot + 1
    /\ UNCHANGED <<disks, attached, device, clientVars, orders, answers,
                   server, conn, fd, buffer, got>>

\* The whole buffer is sent, whatever was asked for.
SendData ==
    /\ server = "read"
    /\ slot = Num(conn)
    /\ answers' = [answers EXCEPT ![conn] = buffer]
    /\ server' = "close"
    /\ UNCHANGED <<disks, attached, device, clientVars, orders, conn, fd, slot,
                   buffer, got>>

CloseConnection ==
    /\ server = "close"
    /\ server' = "accept"
    /\ UNCHANGED <<disks, attached, device, clientVars, orders, answers, conn,
                   fd, slot, buffer, got>>

Server == Accept \/ ReceiveOrder \/ OpenDevice \/ ReadSector \/ SkipSector
             \/ SendData \/ CloseConnection

\* A call of the server fails, on which its main returns, or it is killed.
Crash ==
    /\ "crash" \in Allowed
    /\ server # "dead"
    /\ server' = "dead"
    /\ UNCHANGED <<disks, attached, device, clientVars, orders, answers, conn,
                   fd, slot, buffer, got>>

Next == Client \/ Server \/ DeviceAppears \/ Crash

Spec == Init /\ [][Next]_vars
\* Two processes, each of which goes on while it is not blocked.
FairSpec == Spec /\ WF_vars(Client) /\ WF_vars(Server)

-----------------------------------------------------------------------------
TypeOK ==
    /\ guest \in [Sector -> Value] /\ library \in [Sector -> Value]
    /\ attached \in BOOLEAN /\ device \in BOOLEAN
    /\ client \in {"attach", "sleep", "connect", "send", "receive", "local",
                   "next", "detach", "ended"}
    /\ round \in Round
    /\ remote \in [Slot -> Value \cup {Text}]
    /\ whole \in BOOLEAN
    /\ verdict \in {"none", "same", "not_same"}
    /\ orders \in [Round -> Ranges \cup {NoOrder}]
    /\ answers \in [Round -> {NoAnswer} \cup [Slot -> Value \cup {Text}]]
    /\ server \in {"accept", "receive", "open", "read", "close", "dead"}
    /\ conn \in 0..Rounds
    /\ fd \in BOOLEAN
    /\ slot \in 0..MaxNum
    /\ buffer \in [Slot -> Value \cup {Text}]
    /\ got \in [Round -> SUBSET Slot]

\* The image and the library agree on the range of this round.
Agree == \A i \in 0..(Num(round) - 1) : guest[Start(round) + i] = library[Start(round) + i]

\* All that was ordered in this round was read of the device.
AllRead == got[round] = 0..(Num(round) - 1)

\* If a whole answer was received and the verdict is that the data is the
\* same, then the library is right about the range: no old content of the
\* server's buffer, and no answer to another order, passes for the guest's
\* data, though the server answers when it has no device at all and when it
\* cannot read the device.  Only a device that could be read in the first
\* sector and not behind it lets old content pass.
SameIsTrue == verdict = "same" /\ whole /\ (AllRead \/ 0 \notin got[round]) => Agree

\* If a whole answer was received, to an order the server could read all of,
\* and the verdict is that the data is not the same, then the library is wrong:
\* the order in the buffer, the zeros behind the answer and the disk that
\* came late for earlier rounds never make good data look bad.
NotSameIsTrue == verdict = "not_same" /\ whole /\ AllRead => ~Agree

\* The disk the server is reading is never detached under it: whatever makes
\* the client give up, and in whichever round, it does so only when the server
\* is through with the order or gone.  A recv that fails although the server
\* goes on, and a client that stops between connecting and its order, would
\* break it; the module has neither.
DeviceStays == server = "read" /\ fd => device

\* The run ends, also when the server goes away at the worst moment: the
\* client is never left waiting for an answer.
RunEnds == <>(client = "ended")
=============================================================================
