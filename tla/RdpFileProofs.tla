--------------------------- MODULE RdpFileProofs ----------------------------
(***************************************************************************)
(* Proofs about the file that the receiver writes, for every file, payload *)
(* size, window and bound on the lists.  They are about module RdpSession, *)
(* where the receiver has its list, and use the invariants of RdpTransfer, *)
(* where it has a set: Session is RdpSession over the same sender and      *)
(* path, and Seen says what the variables of RdpTransfer are then.         *)
(***************************************************************************)
EXTENDS RdpWindowProofs, RdpFile

CONSTANT MAX_PACKETS   \* a bound of RdpReceiver, whatever it is

Session == INSTANCE RdpSession

(***************************************************************************)
(* stored and receiver, which RdpSession has not, are functions of what it *)
(* has.  Seen is not a restriction of the session: it gives them values.   *)
(***************************************************************************)
Taken == stage \in {"writing", "written", "failed"}

Seen ==
  /\ stored = SeqnosIn(data_packets)
  /\ receiver = IF Taken THEN "written" ELSE stage

-----------------------------------------------------------------------------
(***************************************************************************)
(* The sender's definitions come twice, from RdpTransfer and through the   *)
(* instance of RdpSession; they are the same.                              *)
(***************************************************************************)
LEMMA SamePackets ==
  /\ DataIdx = Session!DataIdx /\ NumPackets = Session!NumPackets /\ FullPackets = Session!FullPackets
  /\ SynPacket = Session!SynPacket /\ FinPacket = Session!FinPacket
  /\ \A k : /\ Seqno(k) = Session!Seqno(k)
            /\ PayloadLength(k) = Session!PayloadLength(k)
            /\ DataPacket(k) = Session!DataPacket(k)
            /\ Ackno(k) = Session!Ackno(k)
  /\ \A p : AckFor(p) = Session!AckFor(p)
BY Zenon DEF DataIdx, Session!DataIdx, NumPackets, Session!NumPackets, FullPackets,
  Session!FullPackets, SynPacket, Session!SynPacket, FinPacket, Session!FinPacket, Seqno, Session!Seqno,
  PayloadLength, Session!PayloadLength, DataPacket, Session!DataPacket, Ackno, Session!Ackno,
  AckFor, Session!AckFor, create_packet, Session!create_packet, LastLength, Session!LastLength,
  first_seqno, Session!first_seqno, last_ackno, Session!last_ackno

LEMMA SameTimers ==
  /\ NULL = Session!NULL
  /\ \A a, s : create_timer(a, s) = Session!create_timer(a, s)
  /\ \A l, a : /\ add_timer(l, a) = Session!add_timer(l, a)
               /\ find_timer(l, a) = Session!find_timer(l, a)
               /\ stop_timer(l, a) = Session!stop_timer(l, a)
               /\ start_timer(l, a) = Session!start_timer(l, a)
               /\ timed_out(l, a) = Session!timed_out(l, a)
BY Zenon DEF NULL, Session!NULL, create_timer, Session!create_timer, add_timer, Session!add_timer,
  find_timer, Session!find_timer, stop_timer, Session!stop_timer, stopped, Session!stopped,
  start_timer, Session!start_timer, restarted, Session!restarted, timed_out, Session!timed_out

LEMMA SamePath ==
  \A c, x : /\ AfterSend(c, x) = Session!AfterSend(c, x)
            /\ AfterReceive(c, x) = Session!AfterReceive(c, x)
BY Zenon DEF AfterSend, Session!AfterSend, AfterReceive, Session!AfterReceive

LEMMA SameWindow ==
  /\ Filling <=> Session!Filling
  /\ HasRoom <=> Session!HasRoom
  /\ \A k : /\ packetACKd(k) <=> Session!packetACKd(k)
            /\ ToSend(k) <=> Session!ToSend(k)
  /\ allPacketsAcknowledged <=> Session!allPacketsAcknowledged
  /\ BaseAcked <=> Session!BaseAcked
  /\ Resends = Session!Resends
  /\ CanBeLate = Session!CanBeLate
BY SamePackets, SameTimers, Zenon
DEF Filling, Session!Filling, HasRoom, Session!HasRoom, packetACKd, Session!packetACKd,
    ToSend, Session!ToSend, InWindow, Session!InWindow, allPacketsAcknowledged,
    Session!allPacketsAcknowledged, BaseAcked, Session!BaseAcked, Resends, Session!Resends,
    Expired, Session!Expired, CanBeLate, Session!CanBeLate

\* Every step of the session's sender is one of this transfer's.
LEMMA SameSender ==
  ASSUME Session!SenderReceives \/ Session!SenderMoves \/ Session!Poll,
         UNCHANGED <<stored, receiver>>
  PROVE  Sender
<1> USE SamePackets, SameTimers, SamePath, SameWindow
<1>1. \A pckt, next : Session!handle_packet(pckt, next) <=> handle_packet(pckt, next)
  BY Zenon DEF Session!handle_packet, handle_packet
<1>2. \A pckt : /\ Session!SynAcked(pckt) => SynAcked(pckt)
                /\ Session!ReceiveAck(pckt) => ReceiveAck(pckt)
                /\ Session!FinWaitAck(pckt) => FinWaitAck(pckt)
  BY <1>1, Zenon DEF Session!SynAcked, SynAcked, Session!ReceiveAck, ReceiveAck,
                     Session!FinWaitAck, FinWaitAck, Session!FinAcked, FinAcked
<1>3. /\ Session!SendSyn => SendSyn
      /\ Session!SynRetry => SynRetry
      /\ Session!FillSend => FillSend
      /\ Session!FillSkip => FillSkip
      /\ Session!FillDone => FillDone
      /\ Session!ReceiveNothing => ReceiveNothing
  BY Zenon DEF Session!SendSyn, SendSyn, Session!SynRetry, SynRetry, Session!FillSend,
               FillSend, Session!FillSkip, FillSkip, Session!FillDone, FillDone,
               Session!ReceiveNothing, ReceiveNothing
<1>4. /\ Session!UpdateAdvance => UpdateAdvance
      /\ Session!UpdateSkip => UpdateSkip
      /\ Session!UpdateDone => UpdateDone
  BY Zenon DEF Session!UpdateAdvance, UpdateAdvance, Session!UpdateSkip, UpdateSkip,
               Session!UpdateDone, UpdateDone
<1>5. Session!resend_timedoutPackets => resend_timedoutPackets
  BY Zenon DEF Session!resend_timedoutPackets, resend_timedoutPackets,
               Session!restarted, restarted
<1>6. /\ Session!SendFin => SendFin
      /\ Session!NotAllAcked => NotAllAcked
      /\ Session!FinWaitNothing => FinWaitNothing
      /\ Session!CheckClock => CheckClock
  BY Zenon DEF Session!SendFin, SendFin, Session!NotAllAcked, NotAllAcked,
               Session!FinWaitNothing, FinWaitNothing, Session!CheckClock, CheckClock
<1>7. Session!Poll => Poll
  BY Zenon DEF Session!Poll, Poll, Session!poll_timers, poll_timers, Session!Ended, Ended,
               Session!expired, expired
<1> QED BY <1>2, <1>3, <1>4, <1>5, <1>6, <1>7, Zenon
        DEF Session!SenderReceives, Session!SenderMoves, Sender

-----------------------------------------------------------------------------
\* The list holds data packets of the file, wherever the programs are.
Listed == data_packets \in Seq(DataPackets)

LEMMA SameList ==
  /\ \A p, l : Session!add_packet(p, l) = add_packet(p, l)
  /\ \A p, l : Session!store_dataPacket(p, l) = store_dataPacket(p, l)
  /\ \A l : Session!payloads(l) = payloads(l)
BY Zenon DEF Session!add_packet, add_packet, Session!store_dataPacket, store_dataPacket,
             Session!payloads, payloads, Session!SelectInSeq, SelectInSeq, Session!Min, Min

\* A DAT that arrives is put at the end of the list.
LEMMA DatTaken ==
  ASSUME Listed, NEW k \in DataIdx, Session!ReceiveDat(k)
  PROVE  data_packets' = Append(data_packets, DataPacket(k)) /\ Listed'
BY SameList, SamePackets, DatAppended DEF Session!ReceiveDat, Listed

\* Every step of the session's receiver is one of this transfer's, but for
\* write_file, which comes when the transfer has its receiver ended.
LEMMA SameReceiver ==
  ASSUME Listed, Seen, Seen', Session!Receiver
  PROVE  Receiver \/ UNCHANGED vars
<1> USE SamePackets, SamePath
<1>1. UNCHANGED senderVars
  BY DEF Session!Receiver, Session!senderVars, senderVars
<1>2. \A pckt : Session!Answer(pckt) => Answer(pckt) /\ stage = "open" /\ receiver = "open"
  BY <1>1 DEF Session!Answer, Answer, Seen, Taken
<1>3. ASSUME NEW k \in DataIdx, Session!ReceiveDat(k)
      PROVE  ReceiveDat(k)
  <2>1. stored' = stored \cup {Seqno(k)}
    BY <1>3, DatTaken, SeqnosAppended DEF Seen, Listed
  <2>2. receiver' \in {"open", "timeout"}
    BY <1>3 DEF Session!ReceiveDat, Seen, Taken
  <2> QED BY <1>2, <1>3, <2>1, <2>2 DEF Session!ReceiveDat, ReceiveDat
<1>4. Session!ReceiveSyn => ReceiveSyn
  BY <1>2 DEF Session!ReceiveSyn, ReceiveSyn, Seen, Taken
<1>5. Session!ReceiveFin => ReceiveFin
  BY <1>2 DEF Session!ReceiveFin, ReceiveFin, Seen, Taken
<1>6. Session!write_file => UNCHANGED vars
  BY <1>1 DEF Session!write_file, vars, Seen, Taken
<1> QED BY <1>3, <1>4, <1>5, <1>6 DEF Session!Receiver, Session!ReceiverMoves, Receiver

\* The steps of the session are steps of the transfer.
LEMMA SessionSteps ==
  Listed /\ Seen /\ Seen' /\ [Session!Next]_Session!vars => [Next]_vars
<1> SUFFICES ASSUME Listed, Seen, Seen', [Session!Next]_Session!vars
             PROVE  [Next]_vars
  OBVIOUS
<1>1. UNCHANGED Session!receiverVars => UNCHANGED <<stored, receiver>>
  BY DEF Session!receiverVars, Seen, Taken
<1>2. CASE UNCHANGED Session!vars
  BY <1>1, <1>2 DEF Session!vars, Session!senderVars, vars, senderVars, Session!receiverVars
<1>3. CASE Session!Sender
  BY <1>1, <1>3, SameSender DEF Session!Sender, Next
<1>4. CASE Session!Receiver
  BY <1>4, SameReceiver DEF Next
<1> QED BY <1>2, <1>3, <1>4 DEF Session!Next

\* Every step of the session keeps the list one of data packets.
LEMMA ListGrows ==
  Listed /\ [Session!Next]_Session!vars => Listed'
<1> SUFFICES ASSUME Listed, [Session!Next]_Session!vars PROVE Listed'
  OBVIOUS
<1>1. CASE Session!Sender \/ UNCHANGED Session!vars
  BY <1>1 DEF Session!Sender, Session!vars, Session!receiverVars, Listed
<1>2. CASE Session!Receiver
  <2>1. CASE \E k \in DataIdx : Session!ReceiveDat(k)
    BY <2>1, DatTaken
  <2>2. CASE Session!ReceiveSyn \/ Session!ReceiveFin \/ Session!write_file
    BY <2>2 DEF Session!ReceiveSyn, Session!ReceiveFin, Session!write_file, Listed
  <2> QED BY <1>2, <2>1, <2>2, SamePackets DEF Session!Receiver, Session!ReceiverMoves
<1> QED BY <1>1, <1>2 DEF Session!Next

LEMMA SessionListed == Session!Spec => []Listed
<1>1. Session!Init => Listed
  BY SMT DEF Session!Init, Session!ReceiverInit, Listed
<1> QED BY <1>1, ListGrows, PTL DEF Session!Spec

\* A behaviour of the session is one of the transfer, so that all theorems
\* about RdpTransfer hold of it.
THEOREM SessionIsTransfer == Session!Spec /\ []Seen => Spec
<1>1. Session!Init /\ Seen => Init
  <2>1. data_packets = <<>> => SeqnosIn(data_packets) = {}
    BY SMT DEF SeqnosIn
  <2>2. Session!SenderInit => SenderInit
    BY SamePackets, SameTimers, Zenon
    DEF SenderInit, Session!SenderInit, DataTimers, Session!DataTimers
  <2> QED BY <2>1, <2>2 DEF Session!Init, Session!ReceiverInit, Init, Seen, Taken
<1> QED BY <1>1, SessionSteps, SessionListed, PTL DEF Session!Spec, Spec
-----------------------------------------------------------------------------
(***************************************************************************)
(* Order.  A packet that arrives was sent, so that all packets more than a *)
(* window before it are acknowledged, and therefore in the list already.   *)
(***************************************************************************)
LEMMA ArrivesInWindow ==
  ASSUME IInv, WindowIsSlid, SentFirst, Seen,
         NEW j \in DataIdx, DataPacket(j) \in toReceiver,
         NEW k \in DataIdx, Seqno(k) + WINDOW_SIZE < Seqno(j)
  PROVE  \E m \in DOMAIN data_packets : data_packets[m].seqno = Seqno(k)
<1>1. Sent(j)
  BY DEF SentFirst
<1>2. Seqno(j) <= base_seqno + WINDOW_SIZE \/ Seqno(j) < base_seqno
  BY <1>1 DEF WindowIsSlid, InWindow
<1>3. /\ Seqno(j) \in Int /\ Seqno(k) \in Int /\ base_seqno \in Int
      /\ WINDOW_SIZE \in Nat
  BY SeqnoOrder, SizesAssumption, SMT DEF SizesAssumption, IInv, Facts, TypeOK
<1>4. Seqno(k) < base_seqno
  BY <1>2, <1>3, SMT
<1>5. packetACKd(k)
  BY <1>4 DEF WindowIsSlid
<1>6. Seqno(k) \in stored
  BY <1>5 DEF IInv, Facts, AckedIsStored
<1> QED BY <1>6 DEF Seen, SeqnosIn

\* No step puts a packet before one that the window had to slide past.
LEMMA NextOvertakes ==
  Listed /\ Seen /\ IInv /\ WindowIsSlid /\ SentFirst /\ OvertakesWithinWindow
    /\ [Session!Next]_Session!vars => OvertakesWithinWindow'
<1> SUFFICES ASSUME Listed, Seen, IInv, WindowIsSlid, SentFirst, OvertakesWithinWindow,
                    [Session!Next]_Session!vars
             PROVE  OvertakesWithinWindow'
  OBVIOUS
<1>1. CASE UNCHANGED data_packets
  BY <1>1 DEF OvertakesWithinWindow
<1>2. CASE \E j \in DataIdx : Session!ReceiveDat(j)
  <2>1. PICK j \in DataIdx : Session!ReceiveDat(j)
    BY <1>2
  <2>2. DataPacket(j) \in toReceiver
    BY <2>1, SamePackets DEF Session!ReceiveDat, Session!Answer
  <2>3. data_packets' = Append(data_packets, DataPacket(j))
    BY <2>1, DatTaken
  <2>4. /\ Len(data_packets) \in Nat
        /\ DOMAIN data_packets = 1 .. Len(data_packets)
        /\ DOMAIN data_packets' = 1 .. Len(data_packets) + 1
        /\ \A n \in 1 .. Len(data_packets) : data_packets'[n] = data_packets[n]
        /\ data_packets'[Len(data_packets) + 1] = DataPacket(j)
    BY <2>3, SMT DEF Listed
  <2>5. SUFFICES ASSUME NEW n \in 1 .. Len(data_packets) + 1, NEW k \in DataIdx,
                        Seqno(k) + WINDOW_SIZE < data_packets'[n].seqno
                 PROVE  \E m \in 1 .. n - 1 : data_packets'[m].seqno = Seqno(k)
    BY <2>4, SamePackets DEF OvertakesWithinWindow
  <2>6. CASE n = Len(data_packets) + 1
    <3>1. Seqno(k) + WINDOW_SIZE < Seqno(j)
      BY <2>4, <2>5, <2>6, PacketFields
    <3>2. PICK m \in 1 .. Len(data_packets) : data_packets[m].seqno = Seqno(k)
      BY <2>2, <2>4, <3>1, ArrivesInWindow
    <3>3. m \in 1 .. n - 1
      BY <2>4, <2>6, SMT
    <3> QED BY <2>4, <3>2, <3>3
  <2>7. CASE n \in 1 .. Len(data_packets)
    <3>1. PICK m \in 1 .. n - 1 : data_packets[m].seqno = Seqno(k)
      BY <2>4, <2>5, <2>7, SamePackets DEF OvertakesWithinWindow
    <3>2. m \in 1 .. Len(data_packets)
      BY <2>4, <2>7, <3>1, SMT
    <3> QED BY <2>4, <3>1, <3>2
  <2>8. n = Len(data_packets) + 1 \/ n \in 1 .. Len(data_packets)
    BY <2>4, <2>5, SMT
  <2> QED BY <2>6, <2>7, <2>8
<1> QED BY <1>1, <1>2, SamePackets
        DEF Session!Next, Session!Sender, Session!Receiver, Session!ReceiverMoves,
            Session!ReceiveSyn, Session!ReceiveFin, Session!write_file, Session!vars,
            Session!receiverVars

\* The window bounds how far the order of the packets in the file is from
\* that of the sender's file, whatever the path does.
THEOREM OrderWithinWindow == Session!Spec /\ []Seen => []OvertakesWithinWindow
<1>1. Session!Init => OvertakesWithinWindow
  BY SMT DEF Session!Init, Session!ReceiverInit, OvertakesWithinWindow
<1>2. Spec => []IInv /\ []WindowIsSlid /\ []SentFirst
  BY Invariance, WindowSlides, DataWasSent, PTL
<1> QED BY <1>1, <1>2, SessionIsTransfer, SessionListed, NextOvertakes, PTL DEF Session!Spec

-----------------------------------------------------------------------------
(***************************************************************************)
(* The file.  It is written after a FIN was taken, from a list that has    *)
(* every data packet by then and does not change any more.                 *)
(***************************************************************************)
FileIsTheList == stage = "written" => file = payloads(data_packets)

LEMMA NextFile ==
  FileIsTheList /\ [Session!Next]_Session!vars => FileIsTheList'
<1> SUFFICES ASSUME FileIsTheList, [Session!Next]_Session!vars PROVE FileIsTheList'
  OBVIOUS
<1>1. CASE UNCHANGED Session!receiverVars
  BY <1>1 DEF Session!receiverVars, FileIsTheList
<1>2. CASE Session!write_file
  BY <1>2, SameList DEF Session!write_file, FileIsTheList
<1>3. CASE stage' \in {"open", "timeout", "writing"}
  BY <1>3 DEF FileIsTheList
<1> QED BY <1>1, <1>2, <1>3
        DEF Session!Next, Session!Sender, Session!Receiver, Session!ReceiverMoves,
            Session!ReceiveDat, Session!ReceiveSyn, Session!ReceiveFin, Session!vars,
            Session!receiverVars

\* When the receiver has written its file, every packet's payload is in it.
THEOREM FileComplete == Session!Spec /\ []Seen => []FileHasEveryPayload
<1>1. Session!Init => FileIsTheList
  BY DEF Session!Init, Session!ReceiverInit, FileIsTheList
<1>2. Session!Spec => []FileIsTheList
  BY <1>1, NextFile, PTL DEF Session!Spec
<1>3. Listed /\ Seen /\ WrittenIsComplete /\ FileIsTheList => FileHasEveryPayload
  <2> SUFFICES ASSUME Listed, Seen, WrittenIsComplete, FileIsTheList, stage = "written",
                      NEW k \in DataIdx
               PROVE  Contains(file, Seqno(k))
    BY SamePackets DEF FileHasEveryPayload
  <2>1. Seqno(k) \in stored
    BY DEF Seen, Taken, WrittenIsComplete, AllStored
  <2>2. PICK n \in DOMAIN data_packets : data_packets[n].seqno = Seqno(k)
    BY <2>1 DEF Seen, SeqnosIn
  <2>3. Len(data_packets) \in Nat /\ DOMAIN data_packets = 1 .. Len(data_packets)
    BY SMT DEF Listed
  <2>4. file = [m \in 1 .. Len(data_packets) |-> data_packets[m].seqno]
    BY <2>3 DEF FileIsTheList, payloads
  <2>5. Len(file) = Len(data_packets)
    BY <2>3, <2>4, SMT
  <2>6. file[n] = Seqno(k) /\ n \in 1 .. Len(file)
    BY <2>2, <2>3, <2>4, <2>5
  <2> QED BY <2>6 DEF Contains
<1> QED BY <1>2, <1>3, SessionIsTransfer, SessionListed, WrittenComplete, PTL

-----------------------------------------------------------------------------
(***************************************************************************)
(* The two programs together, unless full payloads make up the file.       *)
(***************************************************************************)
\* What a sender that reports success leaves: a receiver out of its loop with
\* every packet in its list.
SuccessMeansListed ==
  pc = "success" => Taken /\ \A k \in DataIdx : Seqno(k) \in SeqnosIn(data_packets)

\* The success that a sender reports is that of the receiver with its list.
THEOREM SessionSuccess ==
  ASSUME LastLength # MAX_PAYLOAD_SIZE
  PROVE  Session!Spec /\ []Seen => []SuccessMeansListed
<1>1. ASSUME Seen, SuccessMeansWritten, WrittenIsComplete
      PROVE  SuccessMeansListed
  BY <1>1 DEF Seen, Taken, SuccessMeansWritten, WrittenIsComplete, AllStored,
              SuccessMeansListed
<1>2. Spec => []SuccessMeansWritten /\ []WrittenIsComplete
  BY SuccessSound, WrittenComplete, PTL
<1> QED BY <1>1, <1>2, SessionIsTransfer, PTL

\* The programs with the receiver's list keep the promise of RdpDelivery.
THEOREM SessionDelivers ==
  ASSUME LastLength # MAX_PAYLOAD_SIZE
  PROVE  Session!Spec /\ []Seen => ImplementsDelivery
BY SessionIsTransfer, Implementation
=============================================================================
