-------------------------- MODULE ComparisonProofs --------------------------
(***************************************************************************)
(* Proofs about Comparison, for any disk, any order of the two processes,  *)
(* any number of rounds and all that Allowed may let happen.               *)
(***************************************************************************)
EXTENDS Comparison, TLAPS

-----------------------------------------------------------------------------
(* The inductive invariant.                                                *)

Answered(r) == answers[r] # NoAnswer
Ordered(r) == orders[r] # NoOrder

\* A round that the client has not come to has no order, and one that the
\* server has not accepted has no answer and has read nothing.
NotYet ==
    /\ conn <= round
    /\ \A r \in Round :
          r > round \/ (r = round /\ client \in {"attach", "sleep", "connect", "send"})
              => ~Ordered(r)
    /\ \A r \in Round : r > conn => ~Answered(r) /\ got[r] = {}

\* The server works on a round that is ordered and has no answer yet.
AtWork ==
    /\ server \in {"receive", "open", "read"} => conn \in Round /\ ~Answered(conn)
    /\ server \in {"receive", "open"} => got[conn] = {}
    /\ server \in {"open", "read"} => Ordered(conn)
    /\ server = "read" => slot <= Num(conn)

\* What a buffer holds for a round: the guest's data in the slots that were
\* read for it, and the order in front unless the first sector replaced it.
Holds(b, r) ==
    /\ \A i \in got[r] : i < Num(r) /\ b[i] = guest[Start(r) + i]
    /\ 0 \notin got[r] => b[0] = Text

AnswersHold ==
    /\ server \in {"open", "read"} => Holds(buffer, conn)
    /\ \A r \in Round : Answered(r) => Ordered(r) /\ Holds(answers[r], r)

\* A whole answer is compared as it was sent.
Received ==
    whole /\ (client \in {"local", "next"} \/ verdict # "none") =>
        /\ Answered(round)
        /\ \A i \in Slot : i < Num(round) => remote[i] = answers[round][i]

\* The verdict is on what the client still has.
VerdictIs ==
    /\ verdict # "none" => client \in {"next", "detach", "ended"}
    /\ verdict = "same" => SameData
    /\ verdict = "not_same" => ~SameData

\* The server has done the rounds before, and this one once the client has its
\* answer; it works on an order only while the client waits for it.
InStep ==
    /\ server # "dead" =>
          /\ conn + 1 >= round
          /\ client \in {"local", "next"} => conn = round
    /\ server \in {"receive", "open", "read"} =>
          conn = round /\ client \in {"send", "receive"}

IInv ==
    /\ TypeOK /\ NotYet /\ AtWork /\ AnswersHold /\ Received /\ VerdictIs
    /\ InStep /\ DeviceStays

-----------------------------------------------------------------------------
(* Facts about orders and answers.                                         *)

LEMMA SlotTypes == MaxNum \in Nat /\ MaxNum # 0 /\ 0 \in Slot /\ Slot \subseteq Nat
BY SectorAssumption DEF Slot

\* An order is a range of at least one sector, all of them of the disk.
LEMMA RangeTypes ==
    ASSUME NEW o \in Ranges
    PROVE  /\ o # NoOrder
           /\ o[1] \in Nat /\ o[2] \in 1..MaxNum
           /\ \A i \in Slot : i < o[2] => o[1] + i \in Sector
<1>1. o[1] \in Sector /\ o[2] \in 1..MaxNum
  BY DEF Ranges
<1>2. \A i \in 0..(o[2] - 1) : o[1] + i \in Sector
  BY DEF Ranges
<1>3. o[2] # 0
  BY <1>1, SlotTypes
<1>4. o # NoOrder
  BY <1>3 DEF NoOrder
<1>5. ASSUME NEW i \in Slot, i < o[2] PROVE o[1] + i \in Sector
  BY <1>1, <1>2, <1>5, SlotTypes
<1> QED
  BY <1>1, <1>4, <1>5, SectorAssumption

\* What is sent is told from no answer at all.
LEMMA SentIsAnswer ==
    ASSUME NEW S, NEW f \in [Slot -> S]
    PROVE  f # NoAnswer
<1>1. 0 \in DOMAIN f
  BY SlotTypes
<1>2. DOMAIN NoAnswer = {}
  BY DEF NoAnswer
<1> QED
  BY <1>1, <1>2

\* The order of a round, once there is one.
LEMMA OrderTypes ==
    ASSUME TypeOK, NEW r \in Round
    PROVE  /\ Num(r) \in 0..MaxNum
           /\ Start(r) \in Nat
           /\ Ordered(r) => Num(r) > 0
           /\ \A i \in Slot : i < Num(r) => guest[Start(r) + i] \in Value
                                         /\ library[Start(r) + i] \in Value
<1>1. orders[r] \in Ranges \cup {NoOrder}
  BY DEF TypeOK
<1>2. CASE orders[r] \in Ranges
  <2>1. Num(r) \in 1..MaxNum /\ Start(r) \in Nat
    BY <1>2, RangeTypes DEF Num, Start
  <2>2. ASSUME NEW i \in Slot, i < Num(r)
        PROVE  guest[Start(r) + i] \in Value /\ library[Start(r) + i] \in Value
    <3>1. Start(r) + i \in Sector
      BY <1>2, <2>2, RangeTypes DEF Num, Start
    <3> QED
      BY <3>1 DEF TypeOK
  <2> QED
    BY <2>1, <2>2, SlotTypes
<1>3. CASE orders[r] = NoOrder
  <2>1. Num(r) = 0 /\ Start(r) = 0
    BY <1>3 DEF Num, Start, NoOrder
  <2> QED
    BY <1>3, <2>1, SlotTypes DEF Ordered
<1> QED
  BY <1>1, <1>2, <1>3

-----------------------------------------------------------------------------
(* Types.                                                                  *)

LEMMA TypeInit == Init => TypeOK
<1> SUFFICES ASSUME Init PROVE TypeOK
  OBVIOUS
<1>1. Empty \in [Slot -> Value \cup {Text}]
  BY ValueAssumption DEF Empty
<1>2. 1 \in Round /\ 0 \in 0..Rounds /\ 0 \in 0..MaxNum
  BY RoundsAssumption, SlotTypes DEF Round
<1> QED
  BY <1>1, <1>2 DEF Init, TypeOK

LEMMA TypeStep == TypeOK /\ AtWork /\ [Next]_vars => TypeOK'
<1> SUFFICES ASSUME TypeOK, AtWork, [Next]_vars PROVE TypeOK'
  OBVIOUS
<1>1. CASE UNCHANGED vars
  BY <1>1 DEF TypeOK, vars, disks, clientVars, serverVars
<1>2. CASE Attach \/ AttachFails \/ Sleep \/ ReceiveShort
  BY <1>2 DEF TypeOK, Attach, AttachFails, Sleep, ReceiveShort, disks, serverVars
<1>15. CASE Detach \/ DetachFails \/ Uncaught
  BY <1>15 DEF TypeOK, Detach, DetachFails, Uncaught, disks, serverVars
<1>14. CASE ConnectFails \/ ReceiveFails \/ LocalFails \/ Finish
  BY <1>14 DEF TypeOK, ConnectFails, ReceiveFails, LocalFails, Finish, GiveUp, disks, serverVars
<1>3. CASE Connect
  <2>1. Empty \in [Slot -> Value \cup {Text}]
    BY ValueAssumption DEF Empty
  <2> QED
    BY <1>3, <2>1 DEF TypeOK, Connect, disks, serverVars
<1>4. CASE Send
  BY <1>4 DEF TypeOK, Send, disks, serverVars
<1>5. CASE Receive
  <2>1. answers[round] \in [Slot -> Value \cup {Text}]
    BY <1>5 DEF TypeOK, Receive
  <2>2. remote' \in [Slot -> Value \cup {Text}]
    BY <1>5, <2>1, ValueAssumption DEF TypeOK, Receive
  <2> QED
    BY <1>5, <2>2 DEF TypeOK, Receive, disks, serverVars
<1>6. CASE Compare
  BY <1>6 DEF TypeOK, Compare, disks, serverVars
<1>7. CASE Again
  <2>1. round \in Round /\ round < Rounds
    BY <1>7 DEF Again, TypeOK
  <2>2. round + 1 \in Round
    BY <2>1, RoundsAssumption DEF Round
  <2> QED
    BY <1>7, <2>2 DEF TypeOK, Again, disks, serverVars
<1>8. CASE DeviceAppears
  BY <1>8 DEF TypeOK, DeviceAppears, disks, clientVars, serverVars
<1>9. CASE Accept
  <2>1. conn \in 0..Rounds /\ round \in Round /\ conn < round
    BY <1>9 DEF Accept, Waiting, TypeOK
  <2>2. conn + 1 \in 0..Rounds
    BY <2>1, RoundsAssumption DEF Round
  <2> QED
    BY <1>9, <2>2 DEF TypeOK, Accept, disks, clientVars
<1>10. CASE ReceiveOrder
  BY <1>10 DEF TypeOK, ReceiveOrder, disks, clientVars
<1>11. CASE OpenDevice
  <2>1. 0 \in 0..MaxNum
    BY SlotTypes
  <2>2. fd' \in BOOLEAN
    BY <1>11, Zenon DEF OpenDevice, TypeOK
  <2> QED
    BY <1>11, <2>1, <2>2 DEF TypeOK, OpenDevice, disks, clientVars
<1>12. CASE ReadSector \/ SkipSector
  <2>1. conn \in Round /\ slot < Num(conn) /\ slot \in 0..MaxNum
    BY <1>12 DEF ReadSector, SkipSector, AtWork, TypeOK
  <2>2. Num(conn) \in 0..MaxNum
    BY <2>1, OrderTypes
  <2>3. slot \in Slot /\ slot + 1 \in 0..MaxNum
    BY <2>1, <2>2, SlotTypes DEF Slot
  <2>4. guest[Start(conn) + slot] \in Value
    BY <2>1, <2>3, OrderTypes
  <2>5. CASE ReadSector
    <3>1. buffer' \in [Slot -> Value \cup {Text}]
      BY <2>4, <2>5 DEF TypeOK, ReadSector
    <3>2. got[conn] \cup {slot} \in SUBSET Slot
      BY <2>1, <2>3 DEF TypeOK
    <3>3. got' \in [Round -> SUBSET Slot]
      BY <2>5, <3>2 DEF TypeOK, ReadSector
    <3> QED
      BY <2>3, <2>5, <3>1, <3>3 DEF TypeOK, ReadSector, disks, clientVars
  <2>6. CASE SkipSector
    BY <2>3, <2>6 DEF TypeOK, SkipSector, disks, clientVars
  <2> QED
    BY <1>12, <2>5, <2>6
<1>13. CASE SendData \/ CloseConnection \/ Crash
  BY <1>13 DEF TypeOK, SendData, CloseConnection, Crash, disks, clientVars, serverVars
<1> QED
  BY <1>1, <1>2, <1>3, <1>4, <1>5, <1>6, <1>7, <1>8, <1>9, <1>10, <1>11, <1>12, <1>13,
     <1>14, <1>15
     DEF Next, Client, Server

-----------------------------------------------------------------------------
(* The order of the rounds.                                                *)

LEMMA InitIInv == Init => IInv
<1> SUFFICES ASSUME Init PROVE IInv
  OBVIOUS
<1>1. NotYet
  BY RoundsAssumption DEF Init, NotYet, Round, Ordered, Answered
<1>2. AtWork /\ AnswersHold
  BY DEF Init, AtWork, AnswersHold, Answered
<1>3. Received /\ VerdictIs /\ DeviceStays
  BY DEF Init, Received, VerdictIs, DeviceStays
<1>4. InStep
  BY DEF Init, InStep
<1> QED
  BY TypeInit, <1>1, <1>2, <1>3, <1>4 DEF IInv

LEMMA NotYetStep == TypeOK /\ NotYet /\ AtWork /\ [Next]_vars => NotYet'
<1> SUFFICES ASSUME TypeOK, NotYet, AtWork, [Next]_vars PROVE NotYet'
  OBVIOUS
<1>0. round \in Round /\ conn \in 0..Rounds
  BY DEF TypeOK
<1> USE DEF NotYet, Ordered, Answered
<1>1. CASE UNCHANGED <<round, conn, orders, answers, got>> /\
            (client' \in {"attach", "sleep", "connect", "send"}
               => client \in {"attach", "sleep", "connect", "send"})
  BY <1>1
<1>2. CASE Send
  <2>1. \A r \in Round : r # round => orders'[r] = orders[r]
    BY <1>2 DEF Send, TypeOK
  <2>2. UNCHANGED <<round, conn, answers, got>> /\ client' = "receive"
    BY <1>2 DEF Send, serverVars
  <2>3. \A r \in Round : r > round => orders'[r] = NoOrder
    BY <1>0, <2>1 DEF Round
  <2> QED
    BY <2>2, <2>3
<1>3. CASE Again
  BY <1>0, <1>3, RoundsAssumption DEF Again, serverVars, Round
<1>4. CASE Accept
  BY <1>0, <1>4, RoundsAssumption DEF Accept, Waiting, clientVars, Round
<1>5. CASE ReadSector
  <2>1. \A r \in Round : r # conn => got'[r] = got[r]
    BY <1>5 DEF ReadSector, TypeOK
  <2> QED
    BY <1>0, <1>5, <2>1, RoundsAssumption DEF ReadSector, clientVars, Round
<1>6. CASE SendData
  <2>1. \A r \in Round : r # conn => answers'[r] = answers[r]
    BY <1>6 DEF SendData, TypeOK
  <2> QED
    BY <1>0, <1>6, <2>1, RoundsAssumption DEF SendData, clientVars, Round
<1>7. CASE UNCHANGED vars
  BY <1>1, <1>7 DEF vars, clientVars, serverVars
<1>8. CASE Attach \/ AttachFails \/ Sleep \/ Connect \/ ReceiveShort
  BY <1>1, <1>8 DEF Attach, AttachFails, Sleep, Connect, ReceiveShort, serverVars
<1>9. CASE Receive \/ Compare
  BY <1>1, <1>9 DEF Receive, Compare, serverVars
<1>10. CASE ConnectFails \/ ReceiveFails \/ LocalFails \/ Finish
  BY <1>1, <1>10 DEF ConnectFails, ReceiveFails, LocalFails, Finish, GiveUp, serverVars
<1>13. CASE Detach \/ DetachFails \/ Uncaught
  BY <1>1, <1>13 DEF Detach, DetachFails, Uncaught, serverVars
<1>11. CASE DeviceAppears \/ Crash \/ ReceiveOrder
  BY <1>1, <1>11 DEF DeviceAppears, Crash, ReceiveOrder, clientVars, serverVars
<1>12. CASE OpenDevice \/ SkipSector \/ CloseConnection
  BY <1>1, <1>12 DEF OpenDevice, SkipSector, CloseConnection, clientVars, serverVars
<1> QED
  BY <1>2, <1>3, <1>4, <1>5, <1>6, <1>7, <1>8, <1>9, <1>10, <1>11, <1>12, <1>13
     DEF Next, Client, Server

-----------------------------------------------------------------------------
(* What a step leaves alone.                                               *)

LEMMA ClientKeeps ==
    Client => UNCHANGED <<guest, library, answers, server, conn, fd, slot, buffer, got>>
<1>1. CASE Attach \/ AttachFails \/ Sleep \/ Connect \/ Send \/ Receive
  BY <1>1 DEF Attach, AttachFails, Sleep, Connect, Send, Receive, disks, serverVars
<1>2. CASE ReceiveShort \/ Compare \/ Again
  BY <1>2 DEF ReceiveShort, Compare, Again, disks, serverVars
<1>3. CASE ConnectFails \/ ReceiveFails \/ LocalFails \/ Finish
  BY <1>3 DEF ConnectFails, ReceiveFails, LocalFails, Finish, disks, serverVars
<1>4. CASE Detach \/ DetachFails \/ Uncaught
  BY <1>4 DEF Detach, DetachFails, Uncaught, disks, serverVars
<1> QED
  BY <1>1, <1>2, <1>3, <1>4 DEF Client

LEMMA GuestKeeps ==
    Server \/ DeviceAppears \/ Crash =>
        UNCHANGED <<guest, library, attached, client, round, remote, whole, verdict, orders>>
<1>1. CASE Accept \/ ReceiveOrder \/ OpenDevice \/ DeviceAppears
  BY <1>1 DEF Accept, ReceiveOrder, OpenDevice, DeviceAppears, disks, clientVars
<1>2. CASE ReadSector \/ SkipSector \/ SendData
  BY <1>2 DEF ReadSector, SkipSector, SendData, disks, clientVars
<1>3. CASE CloseConnection \/ Crash
  BY <1>3 DEF CloseConnection, Crash, disks, clientVars
<1> QED
  BY <1>1, <1>2, <1>3 DEF Server

\* The disks do not change.
LEMMA DisksStay == [Next]_vars => guest' = guest /\ library' = library
<1>1. CASE UNCHANGED vars
  BY <1>1 DEF vars, disks
<1> QED
  BY <1>1, ClientKeeps, GuestKeeps DEF Next

\* Nor does an order that was sent.
LEMMA OrderStays ==
    ASSUME TypeOK, NotYet, [Next]_vars, NEW r \in Round, Ordered(r)
    PROVE  orders'[r] = orders[r]
<1>1. CASE UNCHANGED orders
  BY <1>1
<1>2. CASE Send
  <2>1. r # round
    BY <1>2 DEF Send, NotYet
  <2> QED
    BY <1>2, <2>1 DEF Send, TypeOK
<1>3. CASE Client /\ ~Send
  <2>1. CASE Attach \/ AttachFails \/ Sleep \/ Connect \/ Receive
    BY <1>1, <2>1 DEF Attach, AttachFails, Sleep, Connect, Receive
  <2>2. CASE ReceiveShort \/ Compare \/ Again
    BY <1>1, <2>2 DEF ReceiveShort, Compare, Again
  <2>3. CASE ConnectFails \/ ReceiveFails \/ LocalFails \/ Finish
    BY <1>1, <2>3 DEF ConnectFails, ReceiveFails, LocalFails, Finish
  <2>4. CASE Detach \/ DetachFails \/ Uncaught
    BY <1>1, <2>4 DEF Detach, DetachFails, Uncaught
  <2> QED
    BY <1>3, <2>1, <2>2, <2>3, <2>4 DEF Client
<1>4. CASE UNCHANGED vars
  BY <1>1, <1>4 DEF vars
<1> QED
  BY <1>1, <1>2, <1>3, <1>4, GuestKeeps DEF Next

\* Nor an answer, nor what is known of it.
LEMMA AnswerStays ==
    ASSUME TypeOK, AtWork, [Next]_vars, NEW r \in Round, Answered(r)
    PROVE  answers'[r] = answers[r] /\ got'[r] = got[r]
<1>1. CASE UNCHANGED <<answers, got>>
  BY <1>1
<1>2. CASE ReadSector
  <2>1. r # conn
    BY <1>2 DEF ReadSector, AtWork
  <2> QED
    BY <1>2, <2>1 DEF ReadSector, TypeOK
<1>3. CASE SendData
  <2>1. r # conn
    BY <1>3 DEF SendData, AtWork
  <2> QED
    BY <1>3, <2>1 DEF SendData, TypeOK
<1>4. CASE Accept \/ ReceiveOrder \/ OpenDevice \/ SkipSector
  BY <1>1, <1>4 DEF Accept, ReceiveOrder, OpenDevice, SkipSector
<1>5. CASE CloseConnection \/ Crash \/ DeviceAppears
  BY <1>1, <1>5 DEF CloseConnection, Crash, DeviceAppears, serverVars
<1>6. CASE UNCHANGED vars
  BY <1>1, <1>6 DEF vars, serverVars
<1> QED
  BY <1>1, <1>2, <1>3, <1>4, <1>5, <1>6, ClientKeeps DEF Next, Server

-----------------------------------------------------------------------------
(* The server.                                                             *)

LEMMA AtWorkStep == TypeOK /\ NotYet /\ AtWork /\ [Next]_vars => AtWork'
<1> SUFFICES ASSUME TypeOK, NotYet, AtWork, [Next]_vars PROVE AtWork'
  OBVIOUS
<1>1. CASE Client \/ UNCHANGED vars
  <2>1. UNCHANGED <<answers, server, conn, slot, got>>
    BY <1>1, ClientKeeps DEF vars, serverVars
  <2>2. conn \in Round /\ Ordered(conn) => orders'[conn] = orders[conn]
    BY OrderStays
  <2> QED
    BY <2>1, <2>2 DEF AtWork, Ordered, Answered, Num
<1>2. CASE Accept
  <2>0. conn \in 0..Rounds /\ round \in Round /\ conn < round
    BY <1>2 DEF Accept, Waiting, TypeOK
  <2>1. conn + 1 \in Round /\ conn + 1 > conn
    BY <2>0, RoundsAssumption DEF Round
  <2>2. ~Answered(conn + 1) /\ got[conn + 1] = {}
    BY <2>1 DEF NotYet
  <2> QED
    BY <1>2, <2>1, <2>2 DEF Accept, AtWork, Answered
<1>3. CASE ReceiveOrder
  BY <1>3 DEF ReceiveOrder, AtWork, Ordered, Answered
<1>4. CASE OpenDevice
  <2>1. Num(conn) \in Nat
    BY <1>4, OrderTypes, SlotTypes DEF OpenDevice, AtWork
  <2> QED
    BY <1>4, <2>1 DEF OpenDevice, AtWork, Ordered, Answered, Num
<1>5. CASE ReadSector \/ SkipSector
  <2>1. conn \in Round /\ slot < Num(conn) /\ slot \in 0..MaxNum
    BY <1>5 DEF ReadSector, SkipSector, AtWork, TypeOK
  <2>2. slot + 1 <= Num(conn)
    BY <2>1, OrderTypes, SlotTypes
  <2> QED
    BY <1>5, <2>2 DEF ReadSector, SkipSector, AtWork, Ordered, Answered, Num
<1>6. CASE SendData \/ CloseConnection \/ Crash
  BY <1>6 DEF SendData, CloseConnection, Crash, AtWork
<1>7. CASE DeviceAppears
  BY <1>7 DEF DeviceAppears, serverVars, AtWork, Ordered, Answered, Num
<1> QED
  BY <1>1, <1>2, <1>3, <1>4, <1>5, <1>6, <1>7 DEF Next, Server


\* What a buffer holds for an order is not disturbed from outside.
LEMMA HoldsStays ==
    ASSUME TypeOK, NotYet, [Next]_vars, NEW r \in Round, Ordered(r),
           UNCHANGED <<buffer, got[r]>>, Holds(buffer, r)
    PROVE  Holds(buffer, r)'
BY OrderStays, DisksStay DEF Holds, Num, Start

LEMMA BufferHolds ==
    ASSUME TypeOK, NotYet, AtWork, AnswersHold, [Next]_vars, server' \in {"open", "read"}
    PROVE  Holds(buffer, conn)'
<1>1. CASE UNCHANGED <<server, conn, buffer, got>>
  BY <1>1, HoldsStays DEF AtWork, AnswersHold
<1>2. CASE ReceiveOrder
  <2>1. got'[conn'] = {} /\ conn' = conn
    BY <1>2 DEF ReceiveOrder, AtWork
  <2>2. buffer'[0] = Text
    BY <1>2, SlotTypes DEF ReceiveOrder, TypeOK
  <2> QED
    BY <2>1, <2>2 DEF Holds
<1>3. CASE OpenDevice \/ SkipSector
  <2>1. server \in {"open", "read"} /\ UNCHANGED <<conn, buffer, got>>
    BY <1>3 DEF OpenDevice, SkipSector
  <2> QED
    BY <2>1, HoldsStays DEF AtWork, AnswersHold
<1>4. CASE ReadSector
  <2>1. /\ conn \in Round /\ Ordered(conn) /\ Holds(buffer, conn)
        /\ slot < Num(conn) /\ slot \in 0..MaxNum
    BY <1>4 DEF ReadSector, AtWork, AnswersHold, TypeOK
  <2>2. slot \in Slot
    BY <2>1, OrderTypes, SlotTypes DEF Slot
  <2>3. UNCHANGED <<conn, orders, guest>>
    BY <1>4 DEF ReadSector, disks
  <2>4. got'[conn] = got[conn] \cup {slot}
    BY <1>4, <2>1 DEF ReadSector, TypeOK
  <2>5. \A i \in Slot : buffer'[i] = IF i = slot THEN guest[Start(conn) + slot] ELSE buffer[i]
    BY <1>4 DEF ReadSector, TypeOK
  <2>6. got[conn] \subseteq Slot
    BY <2>1 DEF TypeOK
  <2>7. ASSUME NEW i \in got'[conn]
        PROVE  i < Num(conn) /\ buffer'[i] = guest[Start(conn) + i]
    BY <2>1, <2>2, <2>4, <2>5, <2>6 DEF Holds
  <2>8. 0 \notin got'[conn] => buffer'[0] = Text
    BY <2>1, <2>4, <2>5, SlotTypes DEF Holds
  <2> QED
    BY <2>3, <2>7, <2>8 DEF Holds, Num, Start
<1>5. CASE Client \/ DeviceAppears \/ UNCHANGED vars
  BY <1>1, <1>5, ClientKeeps DEF DeviceAppears, vars, serverVars
<1>6. CASE Accept \/ SendData \/ CloseConnection \/ Crash
  BY <1>6 DEF Accept, SendData, CloseConnection, Crash
<1> QED
  BY <1>2, <1>3, <1>4, <1>5, <1>6 DEF Next, Server

LEMMA AnswersHoldStep ==
    TypeOK /\ NotYet /\ AtWork /\ AnswersHold /\ [Next]_vars => AnswersHold'
<1> SUFFICES ASSUME TypeOK, NotYet, AtWork, AnswersHold, [Next]_vars PROVE AnswersHold'
  OBVIOUS
<1>1. ASSUME NEW r \in Round, Answered(r)
      PROVE  (Ordered(r) /\ Holds(answers[r], r))'
  <2>1. Ordered(r) /\ Holds(answers[r], r)
    BY <1>1 DEF AnswersHold
  <2>2. orders'[r] = orders[r] /\ answers'[r] = answers[r] /\ got'[r] = got[r]
    BY <1>1, <2>1, OrderStays, AnswerStays
  <2> QED
    BY <2>1, <2>2, DisksStay DEF Holds, Num, Start, Ordered
<1>2. ASSUME NEW r \in Round, ~Answered(r), Answered(r)'
      PROVE  (Ordered(r) /\ Holds(answers[r], r))'
  <2>1. SendData
    <3>1. UNCHANGED answers => FALSE
      BY <1>2 DEF Answered
    <3>2. CASE Accept \/ ReceiveOrder \/ OpenDevice \/ ReadSector \/ SkipSector
      BY <3>1, <3>2 DEF Accept, ReceiveOrder, OpenDevice, ReadSector, SkipSector
    <3>3. CASE CloseConnection \/ Crash \/ DeviceAppears \/ UNCHANGED vars
      BY <3>1, <3>3 DEF CloseConnection, Crash, DeviceAppears, vars
    <3> QED
      BY <3>1, <3>2, <3>3, ClientKeeps DEF Next, Server
  <2>2. conn \in Round /\ Ordered(conn) /\ Holds(buffer, conn)
    BY <2>1 DEF SendData, AtWork, AnswersHold
  <2>3. r = conn
    BY <1>2, <2>1 DEF SendData, TypeOK, Answered
  <2>4. answers'[r] = buffer /\ UNCHANGED <<guest, orders, got>>
    BY <2>1, <2>2, <2>3 DEF SendData, TypeOK, disks
  <2> QED
    BY <2>2, <2>3, <2>4 DEF Holds, Num, Start, Ordered
<1> QED
  BY <1>1, <1>2, BufferHolds DEF AnswersHold

-----------------------------------------------------------------------------
(* The client.                                                             *)

LEMMA ReceivedStep ==
    TypeOK /\ NotYet /\ AtWork /\ AnswersHold /\ Received /\ VerdictIs /\ [Next]_vars
        => Received'
<1> SUFFICES ASSUME TypeOK, NotYet, AtWork, AnswersHold, Received, VerdictIs, [Next]_vars
             PROVE  Received'
  OBVIOUS
<1>0. round \in Round
  BY DEF TypeOK
<1>1. CASE UNCHANGED <<round, remote, whole>> /\ (whole' /\ (client' \in {"local", "next"} \/ verdict' # "none")
                 => client \in {"local", "next"} \/ verdict # "none")
  <2> SUFFICES ASSUME whole, client \in {"local", "next"} \/ verdict # "none"
               PROVE  (/\ Answered(round)
                       /\ \A i \in Slot : i < Num(round) => remote[i] = answers[round][i])'
    BY <1>1 DEF Received
  <2>1. Answered(round) /\ \A i \in Slot : i < Num(round) => remote[i] = answers[round][i]
    BY DEF Received
  <2>2. Ordered(round)
    BY <1>0, <2>1 DEF AnswersHold
  <2>3. orders'[round] = orders[round] /\ answers'[round] = answers[round]
    BY <1>0, <2>1, <2>2, OrderStays, AnswerStays
  <2> QED
    BY <1>1, <2>1, <2>3 DEF Answered, Num
<1>2. CASE Receive
  BY <1>2, SlotTypes DEF Receive, Received, Answered, Num
<1>3. CASE Compare \/ Finish
  BY <1>1, <1>3 DEF Compare, Finish, GiveUp
<1>10. CASE Detach \/ DetachFails \/ Uncaught
  BY <1>1, <1>10 DEF Detach, DetachFails, Uncaught
<1>4. CASE ~(client' \in {"local", "next"} \/ verdict' # "none")
  BY <1>4 DEF Received
<1>5. CASE Attach \/ AttachFails \/ Sleep \/ Connect \/ Send
  BY <1>4, <1>5 DEF Attach, AttachFails, Sleep, Connect, Send, VerdictIs
<1>6. CASE ConnectFails \/ ReceiveFails \/ LocalFails \/ Again
  BY <1>4, <1>6 DEF ConnectFails, ReceiveFails, LocalFails, Again, GiveUp, VerdictIs
<1>7. CASE ReceiveShort
  BY <1>7 DEF ReceiveShort, Received
<1>8. CASE Server \/ DeviceAppears \/ Crash
  BY <1>1, <1>8, GuestKeeps
<1>9. CASE UNCHANGED vars
  BY <1>1, <1>9 DEF vars, clientVars
<1> QED
  BY <1>2, <1>3, <1>5, <1>6, <1>7, <1>8, <1>9, <1>10 DEF Next, Client

LEMMA VerdictIsStep ==
    TypeOK /\ NotYet /\ AtWork /\ AnswersHold /\ Received /\ VerdictIs /\ [Next]_vars
        => VerdictIs'
<1> SUFFICES ASSUME TypeOK, NotYet, VerdictIs, [Next]_vars
             PROVE  VerdictIs'
  OBVIOUS
<1>0. round \in Round
  BY DEF TypeOK
<1>1. CASE UNCHANGED <<round, remote, verdict, orders, library>>
                /\ (client' \in {client, "detach", "ended"} \/ verdict = "none")
  BY <1>1 DEF VerdictIs, SameData, Num, Start
<1>2. CASE verdict' = "none"
  BY <1>2 DEF VerdictIs
<1>3. CASE Compare
  BY <1>3 DEF Compare, VerdictIs, SameData, Num, Start, disks
<1>4. CASE Again
  BY <1>2, <1>4 DEF Again
<1>5. CASE Attach \/ AttachFails \/ Sleep \/ Connect \/ Send \/ Receive
  BY <1>2, <1>5 DEF Attach, AttachFails, Sleep, Connect, Send, Receive, VerdictIs, TypeOK
<1>6. CASE ConnectFails \/ ReceiveFails \/ LocalFails \/ ReceiveShort
  BY <1>2, <1>6 DEF ConnectFails, ReceiveFails, LocalFails, ReceiveShort, VerdictIs, TypeOK
<1>7. CASE Finish
  BY <1>1, <1>7 DEF Finish, GiveUp, disks
<1>10. CASE Detach \/ DetachFails \/ Uncaught
  BY <1>1, <1>10 DEF Detach, DetachFails, Uncaught, disks
<1>8. CASE Server \/ DeviceAppears \/ Crash
  BY <1>1, <1>8, GuestKeeps
<1>9. CASE UNCHANGED vars
  BY <1>1, <1>9 DEF vars, clientVars, disks
<1> QED
  BY <1>3, <1>4, <1>5, <1>6, <1>7, <1>8, <1>9, <1>10 DEF Next, Client

(* The two in step.                                                        *)

LEMMA InStepStep == TypeOK /\ NotYet /\ AtWork /\ InStep /\ [Next]_vars => InStep'
<1> SUFFICES ASSUME TypeOK, NotYet, AtWork, InStep, [Next]_vars PROVE InStep'
  OBVIOUS
<1>0. round \in Round /\ round \in Nat /\ conn \in 0..Rounds /\ conn \in Nat /\ conn <= round
  BY RoundsAssumption DEF TypeOK, Round, NotYet
<1> USE DEF InStep
<1>1. CASE UNCHANGED <<server, conn, round>> /\ client \notin {"send", "receive"}
                /\ (client' \in {"local", "next"} => client \in {"local", "next"})
  BY <1>0, <1>1
<1>2. CASE Attach \/ AttachFails \/ Sleep \/ Connect \/ ConnectFails
  BY <1>1, <1>2 DEF Attach, AttachFails, Sleep, Connect, ConnectFails, GiveUp, serverVars
<1>3. CASE LocalFails \/ Uncaught \/ Compare \/ Finish \/ Detach \/ DetachFails
  BY <1>1, <1>3
     DEF LocalFails, Uncaught, Compare, Finish, Detach, DetachFails, GiveUp, serverVars
<1>4. CASE Send
  BY <1>4 DEF Send, serverVars
<1>5. CASE Receive
  <2>1. Answered(round)
    BY <1>5 DEF Receive, Answered
  <2>2. conn = round
    BY <1>0, <2>1 DEF NotYet
  <2>3. server \notin {"receive", "open", "read"}
    BY <2>1, <2>2 DEF AtWork
  <2> QED
    BY <1>0, <1>5, <2>2, <2>3 DEF Receive, serverVars
<1>6. CASE ReceiveShort \/ ReceiveFails
  BY <1>6 DEF ReceiveShort, ReceiveFails, ServerGone, serverVars
<1>7. CASE Again
  BY <1>0, <1>7 DEF Again, serverVars
<1>8. CASE Accept
  <2>1. conn < round /\ client \in {"send", "receive"} /\ conn + 1 >= round
    BY <1>8 DEF Accept, Waiting
  <2>2. conn + 1 = round
    BY <1>0, <2>1
  <2> QED
    BY <1>0, <1>8, <2>1, <2>2 DEF Accept, clientVars
<1>9. CASE ReceiveOrder \/ OpenDevice \/ ReadSector \/ SkipSector
  BY <1>9 DEF ReceiveOrder, OpenDevice, ReadSector, SkipSector, clientVars
<1>10. CASE SendData \/ CloseConnection \/ Crash \/ DeviceAppears
  BY <1>10 DEF SendData, CloseConnection, Crash, DeviceAppears, clientVars, serverVars
<1>11. CASE UNCHANGED vars
  BY <1>11 DEF vars, clientVars, serverVars
<1> QED
  BY <1>2, <1>3, <1>4, <1>5, <1>6, <1>7, <1>8, <1>9, <1>10, <1>11 DEF Next, Client, Server

LEMMA DeviceStaysStep == InStep /\ DeviceStays /\ [Next]_vars => DeviceStays'
<1> SUFFICES ASSUME InStep, DeviceStays, [Next]_vars PROVE DeviceStays'
  OBVIOUS
<1> USE DEF DeviceStays
<1>1. CASE UNCHANGED <<device, fd>> /\ (server' = "read" => server = "read")
  BY <1>1
<1>2. CASE Detach
  BY <1>2 DEF Detach, InStep, serverVars
<1>3. CASE Attach \/ AttachFails \/ Connect \/ ConnectFails \/ Send \/ Receive \/ ReceiveShort
  BY <1>1, <1>3
     DEF Attach, AttachFails, Connect, ConnectFails, Send, Receive, ReceiveShort, GiveUp,
         serverVars
<1>4. CASE ReceiveFails \/ LocalFails \/ Uncaught \/ Compare \/ Again \/ Finish \/ DetachFails
  BY <1>1, <1>4
     DEF ReceiveFails, LocalFails, Uncaught, Compare, Again, Finish, DetachFails, GiveUp,
         serverVars
<1>5. CASE Sleep \/ DeviceAppears
  BY <1>5 DEF Sleep, DeviceAppears, serverVars
<1>6. CASE OpenDevice
  BY <1>6 DEF OpenDevice
<1>7. CASE Accept \/ ReceiveOrder \/ ReadSector \/ SkipSector
  BY <1>1, <1>7 DEF Accept, ReceiveOrder, ReadSector, SkipSector
<1>8. CASE SendData \/ CloseConnection \/ Crash \/ UNCHANGED vars
  BY <1>1, <1>8 DEF SendData, CloseConnection, Crash, vars, serverVars
<1> QED
  BY <1>2, <1>3, <1>4, <1>5, <1>6, <1>7, <1>8 DEF Next, Client, Server

-----------------------------------------------------------------------------
(* The theorems.                                                           *)

\* Everything above holds in every reachable state.
THEOREM Invariance == Spec => []IInv
<1>1. IInv /\ [Next]_vars => IInv'
  BY TypeStep, NotYetStep, AtWorkStep, AnswersHoldStep, ReceivedStep, VerdictIsStep,
     InStepStep, DeviceStaysStep DEF IInv
<1> QED
  BY InitIInv, <1>1, PTL DEF Spec

\* Every state is type correct: no order leaves the disk, and the server never
\* writes outside its buffer.
THEOREM TypeCorrect == Spec => []TypeOK
<1>1. IInv => TypeOK
  BY DEF IInv
<1> QED
  BY <1>1, Invariance, PTL

\* A verdict "same" on a whole answer means that library and guest agree, in
\* every round of any number, however late the device comes and wherever the
\* server stops; but for an answer whose first sector was read and one behind
\* it was not.
THEOREM SameIsSound == Spec => []SameIsTrue
<1>1. IInv => SameIsTrue
  <2> SUFFICES ASSUME IInv, verdict = "same", whole, AllRead \/ 0 \notin got[round]
               PROVE  Agree
    BY DEF SameIsTrue
  <2>1. round \in Round /\ Answered(round) /\ Ordered(round) /\ Holds(answers[round], round)
    BY DEF IInv, Received, AnswersHold, TypeOK
  <2>2. Num(round) \in 1..MaxNum
    BY <2>1, OrderTypes, SlotTypes DEF IInv
  <2>3. \A i \in 0..(Num(round) - 1) : i \in Slot /\ i < Num(round)
    BY <2>2, SlotTypes DEF Slot
  <2>4. \A i \in 0..(Num(round) - 1) : answers[round][i] = library[Start(round) + i]
    BY <2>3 DEF IInv, Received, VerdictIs, SameData
  <2>5. CASE AllRead
    BY <2>1, <2>4, <2>5 DEF AllRead, Holds, Agree
  <2>6. CASE 0 \notin got[round]
    <3>1. 0 \in 0..(Num(round) - 1)
      BY <2>2
    <3>2. answers[round][0] \in Value
      BY <2>1, <2>3, <2>4, <3>1, OrderTypes DEF IInv
    <3> QED
      BY <2>1, <2>6, <3>2, ValueAssumption DEF Holds
  <2> QED
    BY <2>5, <2>6
<1> QED
  BY <1>1, Invariance, PTL

\* A verdict "not_same" on a whole answer that was read as a whole means that
\* library and guest differ: nothing else in the buffer is ever compared.
THEOREM NotSameIsSound == Spec => []NotSameIsTrue
<1>1. IInv => NotSameIsTrue
  <2> SUFFICES ASSUME IInv, verdict = "not_same", whole, AllRead PROVE ~Agree
    BY DEF NotSameIsTrue
  <2>1. round \in Round /\ Answered(round) /\ Holds(answers[round], round)
    BY DEF IInv, Received, AnswersHold, TypeOK
  <2>2. PICK i \in Slot : i < Num(round) /\ remote[i] # library[Start(round) + i]
    BY DEF IInv, VerdictIs, SameData
  <2>3. i \in 0..(Num(round) - 1)
    <3>1. Num(round) \in 0..MaxNum
      BY <2>1, OrderTypes DEF IInv
    <3> QED
      BY <2>2, <3>1, SlotTypes
  <2>4. remote[i] = answers[round][i]
    BY <2>2 DEF IInv, Received
  <2>5. answers[round][i] = guest[Start(round) + i]
    BY <2>1, <2>3 DEF AllRead, Holds
  <2> QED
    BY <2>2, <2>3, <2>4, <2>5 DEF Agree
<1> QED
  BY <1>1, Invariance, PTL

\* The server never reads a disk that has been detached under it, in however
\* many rounds, whichever step fails and wherever it is itself when it stops.
THEOREM DeviceIsHeld == Spec => []DeviceStays
<1>1. IInv => DeviceStays
  BY DEF IInv
<1> QED
  BY <1>1, Invariance, PTL
=============================================================================
