-------------------------- MODULE RdpSessionProofs --------------------------
(***************************************************************************)
(* The proof that the session implements module RdpTransfer, for every     *)
(* file, payload size, window and bound on the lists: what the receiver's  *)
(* list of packets comes to is the set of sequence numbers that it has.    *)
(***************************************************************************)
EXTENDS RdpSession, RdpPacketsProofs

-----------------------------------------------------------------------------
\* Type correctness of the receiver's program, list and file.
THEOREM SessionTyped == Spec => []TypeOK
<1>1. Init => TypeOK
  BY SMT DEF Init, ReceiverInit, TypeOK
<1>2. TypeOK /\ [Next]_vars => TypeOK'
  <2>1. SUFFICES ASSUME TypeOK, [Next]_vars PROVE TypeOK'
    OBVIOUS
  <2>2. CASE Sender \/ UNCHANGED vars
    BY <2>1, <2>2 DEF Sender, vars, receiverVars, TypeOK
  <2>3. CASE \E k \in DataIdx : ReceiveDat(k)
    <3>1. PICK k \in DataIdx : ReceiveDat(k)
      BY <2>3
    <3>2. data_packets' \in Seq(DataPackets)
      BY <2>1, <3>1, DatAppended DEF TypeOK, DataPackets, ReceiveDat
    <3> QED BY <2>1, <3>1, <3>2 DEF TypeOK, DataPackets, ReceiveDat
  <2>4. CASE ReceiveSyn \/ ReceiveFin
    BY <2>1, <2>4 DEF TypeOK, ReceiveSyn, ReceiveFin
  <2>5. CASE write_file
    <3>1. payloads(data_packets) \in Seq({Seqno(k) : k \in DataIdx})
      <4>1. \A n \in 1 .. Len(data_packets) :
              data_packets[n].seqno \in {Seqno(k) : k \in DataIdx}
        <5>1. SUFFICES ASSUME NEW n \in 1 .. Len(data_packets)
                       PROVE  data_packets[n].seqno \in {Seqno(k) : k \in DataIdx}
          OBVIOUS
        <5>2. data_packets[n] \in DataPackets
          BY <2>1, SMT DEF TypeOK, DataPackets
        <5> QED BY <5>2, PacketFields DEF DataPackets
      <4>2. DOMAIN data_packets = 1 .. Len(data_packets) /\ Len(data_packets) \in Nat
        BY <2>1, SMT DEF TypeOK
      <4> HIDE DEF TypeOK
      <4> QED BY <4>1, <4>2, SMT DEF payloads
    <3> QED BY <2>1, <2>5, <3>1 DEF TypeOK, write_file
  <2> QED BY <2>1, <2>2, <2>3, <2>4, <2>5 DEF Next, Receiver, ReceiverMoves
<1> QED BY <1>1, <1>2, PTL DEF Spec

-----------------------------------------------------------------------------
(***************************************************************************)
(* The definitions that RdpTransfer brings along are those of this module: *)
(* RdpSender is the same program in both.                                  *)
(***************************************************************************)
LEMMA SamePackets ==
  /\ Transfer!DataIdx = DataIdx /\ Transfer!NumPackets = NumPackets /\ Transfer!FullPackets = FullPackets
  /\ Transfer!SynPacket = SynPacket /\ Transfer!FinPacket = FinPacket
  /\ \A k : /\ Transfer!Seqno(k) = Seqno(k)
            /\ Transfer!PayloadLength(k) = PayloadLength(k)
            /\ Transfer!DataPacket(k) = DataPacket(k)
            /\ Transfer!Ackno(k) = Ackno(k)
  /\ \A p : Transfer!AckFor(p) = AckFor(p)
BY Zenon DEF Transfer!DataIdx, DataIdx, Transfer!NumPackets, NumPackets, Transfer!FullPackets,
  FullPackets, Transfer!SynPacket, SynPacket, Transfer!FinPacket, FinPacket, Transfer!Seqno, Seqno,
  Transfer!PayloadLength, PayloadLength, Transfer!DataPacket, DataPacket, Transfer!Ackno, Ackno,
  Transfer!AckFor, AckFor, Transfer!create_packet, create_packet, Transfer!LastLength, LastLength,
  Transfer!first_seqno, first_seqno, Transfer!last_ackno, last_ackno

LEMMA SameTimers ==
  /\ Transfer!NULL = NULL
  /\ \A a, s : Transfer!create_timer(a, s) = create_timer(a, s)
  /\ \A l, a : /\ Transfer!add_timer(l, a) = add_timer(l, a)
               /\ Transfer!find_timer(l, a) = find_timer(l, a)
               /\ Transfer!stop_timer(l, a) = stop_timer(l, a)
               /\ Transfer!start_timer(l, a) = start_timer(l, a)
               /\ Transfer!timed_out(l, a) = timed_out(l, a)
BY Zenon DEF Transfer!NULL, NULL, Transfer!create_timer, create_timer, Transfer!add_timer, add_timer,
  Transfer!find_timer, find_timer, Transfer!stop_timer, stop_timer, Transfer!stopped, stopped,
  Transfer!start_timer, start_timer, Transfer!restarted, restarted, Transfer!timed_out, timed_out

LEMMA SamePath ==
  \A c, x : /\ Transfer!AfterSend(c, x) = AfterSend(c, x)
            /\ Transfer!AfterReceive(c, x) = AfterReceive(c, x)
BY Zenon DEF Transfer!AfterSend, AfterSend, Transfer!AfterReceive, AfterReceive

LEMMA SameWindow ==
  /\ Transfer!Filling <=> Filling
  /\ Transfer!HasRoom <=> HasRoom
  /\ \A k : /\ Transfer!packetACKd(k) <=> packetACKd(k)
            /\ Transfer!ToSend(k) <=> ToSend(k)
  /\ Transfer!allPacketsAcknowledged <=> allPacketsAcknowledged
  /\ Transfer!BaseAcked <=> BaseAcked
  /\ Transfer!Resends = Resends
  /\ Transfer!CanBeLate = CanBeLate
BY SamePackets, SameTimers, Zenon
DEF Transfer!Filling, Filling, Transfer!HasRoom, HasRoom, Transfer!packetACKd, packetACKd,
    Transfer!ToSend, ToSend, Transfer!InWindow, InWindow, Transfer!allPacketsAcknowledged,
    allPacketsAcknowledged, Transfer!BaseAcked, BaseAcked, Transfer!Resends, Resends,
    Transfer!Expired, Expired, Transfer!CanBeLate, CanBeLate

\* Every step of the sender is one of RdpTransfer's.
LEMMA SameSender ==
  (SenderReceives \/ SenderMoves \/ Poll) /\ UNCHANGED receiverVars => Transfer!Sender
<1> USE SamePackets, SameTimers, SamePath, SameWindow
<1>1. \A pckt, next : handle_packet(pckt, next) <=> Transfer!handle_packet(pckt, next)
  BY Zenon DEF handle_packet, Transfer!handle_packet
<1>2. \A pckt : /\ SynAcked(pckt) => Transfer!SynAcked(pckt)
                /\ ReceiveAck(pckt) => Transfer!ReceiveAck(pckt)
                /\ FinWaitAck(pckt) => Transfer!FinWaitAck(pckt)
  BY <1>1, Zenon DEF SynAcked, Transfer!SynAcked, ReceiveAck, Transfer!ReceiveAck,
                     FinWaitAck, Transfer!FinWaitAck, FinAcked, Transfer!FinAcked
<1>3. /\ SendSyn => Transfer!SendSyn
      /\ SynRetry => Transfer!SynRetry
      /\ FillSend => Transfer!FillSend
      /\ FillSkip => Transfer!FillSkip
      /\ FillDone => Transfer!FillDone
      /\ ReceiveNothing => Transfer!ReceiveNothing
  BY Zenon DEF SendSyn, Transfer!SendSyn, SynRetry, Transfer!SynRetry, FillSend,
               Transfer!FillSend, FillSkip, Transfer!FillSkip, FillDone, Transfer!FillDone,
               ReceiveNothing, Transfer!ReceiveNothing
<1>4. /\ UpdateAdvance => Transfer!UpdateAdvance
      /\ UpdateSkip => Transfer!UpdateSkip
      /\ UpdateDone => Transfer!UpdateDone
  BY Zenon DEF UpdateAdvance, Transfer!UpdateAdvance, UpdateSkip, Transfer!UpdateSkip,
               UpdateDone, Transfer!UpdateDone
<1>5. resend_timedoutPackets => Transfer!resend_timedoutPackets
  BY Zenon DEF resend_timedoutPackets, Transfer!resend_timedoutPackets,
               restarted, Transfer!restarted
<1>6. /\ SendFin => Transfer!SendFin
      /\ NotAllAcked => Transfer!NotAllAcked
      /\ FinWaitNothing => Transfer!FinWaitNothing
      /\ CheckClock => Transfer!CheckClock
  BY Zenon DEF SendFin, Transfer!SendFin, NotAllAcked, Transfer!NotAllAcked,
               FinWaitNothing, Transfer!FinWaitNothing, CheckClock, Transfer!CheckClock
<1>7. Poll => Transfer!Poll
  BY Zenon DEF Poll, Transfer!Poll, poll_timers, Transfer!poll_timers, Ended, Transfer!Ended,
               expired, Transfer!expired
<1>8. UNCHANGED receiverVars =>
        UNCHANGED <<{data_packets[n].seqno : n \in DOMAIN data_packets},
                    IF stage \in {"writing", "written", "failed"} THEN "written" ELSE stage>>
  BY DEF receiverVars
<1> QED BY <1>2, <1>3, <1>4, <1>5, <1>6, <1>7, <1>8, Zenon
        DEF SenderReceives, SenderMoves, Transfer!Sender

-----------------------------------------------------------------------------
\* Every step of the receiver is one of RdpTransfer's, but write_file, which
\* comes when RdpTransfer has its receiver ended.
LEMMA ReceiverSteps ==
  ASSUME TypeOK, Receiver
  PROVE  Transfer!Receiver \/ UNCHANGED Transfer!vars
<1> USE SamePackets, SamePath
<1>1. UNCHANGED senderVars
  BY DEF Receiver
<1>2. \A pckt : Answer(pckt) => Transfer!Answer(pckt) /\ stage = "open"
  BY <1>1 DEF Answer, Transfer!Answer, senderVars, Transfer!senderVars
<1>3. ASSUME NEW k \in DataIdx, ReceiveDat(k)
      PROVE  Transfer!ReceiveDat(k)
  <2>1. SeqnosIn(data_packets') = SeqnosIn(data_packets) \cup {Seqno(k)}
    BY <1>3, DatAppended, SeqnosAppended DEF ReceiveDat, TypeOK, DataPackets
  <2>2. stage' \in {"open", "timeout"}
    BY <1>3 DEF ReceiveDat
  <2> QED BY <1>2, <1>3, <2>1, <2>2 DEF ReceiveDat, Transfer!ReceiveDat, SeqnosIn
<1>4. ReceiveSyn => Transfer!ReceiveSyn
  BY <1>2 DEF ReceiveSyn, Transfer!ReceiveSyn
<1>5. ReceiveFin => Transfer!ReceiveFin
  BY <1>2 DEF ReceiveFin, Transfer!ReceiveFin
<1>6. write_file => UNCHANGED Transfer!vars
  BY <1>1 DEF write_file, Transfer!vars, Transfer!senderVars, senderVars
<1> QED BY <1>3, <1>4, <1>5, <1>6 DEF Receiver, ReceiverMoves, Transfer!Receiver

\* The receiver's list implements the set that RdpTransfer has for it.
THEOREM SessionImplementsTransfer == Spec => ImplementsTransfer
<1>1. Init => Transfer!Init
  <2>1. data_packets = <<>> => {data_packets[n].seqno : n \in DOMAIN data_packets} = {}
    BY SMT
  <2>2. SenderInit => Transfer!SenderInit
    BY SamePackets, SameTimers, Zenon
    DEF SenderInit, Transfer!SenderInit, DataTimers, Transfer!DataTimers
  <2> QED BY <2>1, <2>2 DEF Init, ReceiverInit, Transfer!Init
<1>2. TypeOK /\ [Next]_vars => [Transfer!Next]_Transfer!vars
  <2>1. CASE UNCHANGED vars
    BY <2>1 DEF vars, receiverVars, senderVars, Transfer!vars, Transfer!senderVars
  <2> QED BY <2>1, SameSender, ReceiverSteps DEF Next, Sender, Transfer!Next
<1> QED BY <1>1, <1>2, SessionTyped, PTL DEF Spec, ImplementsTransfer, Transfer!Spec
=============================================================================
