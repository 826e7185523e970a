-------------------------- MODULE RdpWindowProofs ---------------------------
(***************************************************************************)
(* Proofs about the sender's window, for every file length, payload size   *)
(* and window size: where the base may be, what was sent, and how occupied *)
(* relates to it, although occupied is no count of what is in flight; and, *)
(* with what they say of acknowledgement, that the transfer implements     *)
(* module RdpDelivery.                                                     *)
(***************************************************************************)
EXTENDS RdpTransferProofs

\* Sequence numbers are ordered as the packets are.
LEMMA SeqnoOrder ==
  ASSUME NEW j \in DataIdx, NEW k \in DataIdx
  PROVE  /\ j \in Int /\ k \in Int /\ Seqno(j) \in Int /\ Seqno(k) \in Int
         /\ Seqno(j) < Seqno(k) <=> j < k
         /\ Seqno(j) = Seqno(k) <=> j = k
<1>1. j \in Int /\ k \in Int /\ Seqno(j) \in Int /\ Seqno(k) \in Int
  BY PacketFields, DataNumbers
<1>2. CASE j < k
  BY <1>1, <1>2, NumbersGrow, SMT
<1>3. CASE k < j
  BY <1>1, <1>3, NumbersGrow, SMT
<1>4. CASE j = k
  BY <1>1, <1>4, SMT
<1> QED BY <1>1, <1>2, <1>3, <1>4, SMT

\* The payload bytes of a run of full packets, from packet b to packet k.
Span(b, k) == MAX_PAYLOAD_SIZE * (k - b + 1)

\* How a run grows and shrinks at its ends.
LEMMA SpanSteps ==
  ASSUME NEW b \in Int, NEW k \in Int
  PROVE  /\ Span(b, k) \in Int
         /\ Span(b, k + 1) = Span(b, k) + MAX_PAYLOAD_SIZE
         /\ Span(b + 1, k) = Span(b, k) - MAX_PAYLOAD_SIZE
         /\ Span(b, b) = MAX_PAYLOAD_SIZE
         /\ \A j \in Int : b <= j => Span(j, k) <= Span(b, k)
<1> DEFINE p == MAX_PAYLOAD_SIZE
<1>1. p \in Nat
  BY SizesAssumption DEF SizesAssumption
<1>2. /\ p * (k - b + 1) \in Int
      /\ p * (k + 1 - b + 1) = p * (k - b + 1) + p
      /\ p * (k - (b + 1) + 1) = p * (k - b + 1) - p
      /\ p * (b - b + 1) = p
  BY <1>1, SMT
<1>3. ASSUME NEW j \in Int, b <= j
      PROVE  p * (k - j + 1) <= p * (k - b + 1)
  <2>1. CASE b = j
    BY <1>2, <2>1, SMT
  <2>2. CASE b < j
    <3>1. k - j + 1 \in Int /\ k - b + 1 \in Int /\ k - j + 1 < k - b + 1
      BY <2>2, SMT
    <3>2. p * (k - j + 1) + p <= p * (k - b + 1)
      BY <1>1, <3>1, MultipleGap
    <3>3. p * (k - j + 1) \in Int
      BY <1>1, SMT
    <3> QED BY <1>1, <1>2, <3>2, <3>3, SMT
  <2> QED BY <1>3, <2>1, <2>2, SMT
<1> QED BY <1>2, <1>3 DEF Span

\* A number of bytes that full packets make up.
Whole(n) == \E q \in Int : n = MAX_PAYLOAD_SIZE * q

\* What is whole and leaves room in the window leaves room for a full packet.
LEMMA WholeFits ==
  ASSUME NEW n \in Int, Whole(n), n < WINDOW_SIZE
  PROVE  n + MAX_PAYLOAD_SIZE <= WINDOW_SIZE
<1> DEFINE p == MAX_PAYLOAD_SIZE
<1>1. p \in Nat
  BY SizesAssumption DEF SizesAssumption
<1>2. PICK q \in Int : n = p * q
  BY DEF Whole
<1>3. PICK w \in Int : WINDOW_SIZE = p * w
  BY SizesAssumption, SMT DEF SizesAssumption
<1>4. q < w
  <2>1. SUFFICES ASSUME w <= q PROVE FALSE
    BY SMT
  <2>2. CASE w = q
    BY <1>2, <1>3, <2>2, SMT
  <2>3. CASE w < q
    <3>1. p * w + p <= p * q
      BY <1>1, <2>3, MultipleGap
    <3>2. p * w \in Int
      BY <1>1, SMT
    <3> QED BY <1>1, <1>2, <1>3, <3>1, <3>2, SMT
  <2> QED BY <2>1, <2>2, <2>3, SMT
<1>5. p * q + p <= p * w
  BY <1>1, <1>4, MultipleGap
<1> QED BY <1>2, <1>3, <1>5

\* One full packet more or less leaves a whole number, and a run is one.
LEMMA WholeSteps ==
  ASSUME NEW n \in Int
  PROVE  /\ Whole(0)
         /\ Whole(n) => Whole(n + MAX_PAYLOAD_SIZE) /\ Whole(n - MAX_PAYLOAD_SIZE)
         /\ \A b, k \in Int : Whole(Span(b, k))
<1> DEFINE p == MAX_PAYLOAD_SIZE
<1>1. p \in Nat
  BY SizesAssumption DEF SizesAssumption
<1>2. 0 = p * 0 /\ 0 \in Int
  BY <1>1, SMT
<1>3. ASSUME Whole(n) PROVE Whole(n + p) /\ Whole(n - p)
  <2>1. PICK q \in Int : n = p * q
    BY <1>3 DEF Whole
  <2>2. n + p = p * (q + 1) /\ n - p = p * (q - 1) /\ q + 1 \in Int /\ q - 1 \in Int
    BY <1>1, <2>1, SMT
  <2> QED BY <2>2 DEF Whole
<1>4. \A b, k \in Int : k - b + 1 \in Int
  BY SMT
<1> QED BY <1>2, <1>3, <1>4 DEF Whole, Span

\* Of the packets only the last is not full.
LEMMA Lengths ==
  ASSUME NEW k \in DataIdx
  PROVE  /\ PayloadLength(k) \in Int
         /\ PayloadLength(k) > 0
         /\ PayloadLength(k) <= MAX_PAYLOAD_SIZE
         /\ k # NumPackets => k <= FullPackets
         /\ k <= FullPackets <=> k < NumPackets
         /\ k <= FullPackets => PayloadLength(k) = MAX_PAYLOAD_SIZE
<1>1. PayloadLength(k) \in 1 .. MAX_PAYLOAD_SIZE /\ MAX_PAYLOAD_SIZE \in Nat
  BY DataNumbers, SizesAssumption DEF SizesAssumption
<1>2. /\ PayloadLength(k) \in Int
      /\ PayloadLength(k) > 0
      /\ PayloadLength(k) <= MAX_PAYLOAD_SIZE
  BY <1>1, SMT
<1>3. k \in Nat /\ FullPackets \in Nat /\ k <= FullPackets + 1
  BY FullPacketsFact, PacketFields, SMT DEF DataIdx, NumPackets
<1>4. /\ k # NumPackets => k <= FullPackets
      /\ k <= FullPackets <=> k < NumPackets
  BY <1>3, SMT DEF NumPackets
<1> QED BY <1>2, <1>4 DEF PayloadLength

-----------------------------------------------------------------------------
(***************************************************************************)
(* What a step does to the timers of the data packets.  Only fill_window   *)
(* sends a packet for the first time, what was sent stays so, and an       *)
(* acknowledged packet's timer is started again by a FIN that has its      *)
(* ackno, or not at all.  Only a poll finds a timer late.  It rests on a   *)
(* running timer being one that was started.                               *)
(***************************************************************************)
Late(timer) == timer.timedout /\ timer.running

Started == \A k \in DataIdx : timers[k].running => Sent(k)

DataTimersStep ==
  \A k \in DataIdx :
    /\ Sent(k) => timers'[k].sent
    /\ timers'[k].sent => Sent(k) \/ (FillSend /\ k = i)
    /\ timers'[k].running => timers'[k].sent
    /\ AckedIn(timers, k) => AckedIn(timers', k) \/ Ackno(k) = FinPacket.ackno
    /\ Late(timers'[k]) => Late(timers[k]) \/ Poll

\* A step that starts no timer.
LEMMA DataTimersLeft ==
  ASSUME Started,
         \A k \in DataIdx : /\ timers'[k].sent <=> timers[k].sent
                            /\ timers'[k].running => timers[k].running
                            /\ Late(timers'[k]) => Late(timers[k]) \/ Poll
  PROVE  DataTimersStep
BY DEF Started, DataTimersStep, Sent, AckedIn

\* Stopping a timer starts none.
LEMMA DataTimersStopped ==
  ASSUME IInv, Started, NEW a, timers' = stop_timer(timers, a),
         find_timer(timers, a) \in DOMAIN timers
  PROVE  DataTimersStep
<1> DEFINE f == find_timer(timers, a)
<1>1. timers \in Seq(Timers) /\ InPlace(timers)
  BY DEF IInv, Facts, TypeOK
<1>2. \A t \in DOMAIN timers : timers'[t] = IF t = f THEN stopped(timers[t]) ELSE timers[t]
  BY <1>1, StopTimer
<1>3. \A t \in DOMAIN timers : timers[t] \in Timers
  BY <1>1, SMT
<1> HIDE DEF f
<1>4. ASSUME NEW k \in DataIdx
      PROVE  /\ timers'[k].sent <=> timers[k].sent
             /\ timers'[k].running => timers[k].running
             /\ Late(timers'[k]) => Late(timers[k]) \/ Poll
  <2>1. k \in DOMAIN timers
    BY <1>1, FindInPlace
  <2>2. CASE k = f
    <3>1. timers'[k] = stopped(timers[k]) /\ timers[k] \in Timers
      BY <1>2, <1>3, <2>1, <2>2
    <3> QED BY <3>1, TimerFields DEF Late
  <2>3. CASE k # f
    <3>1. timers'[k] = timers[k]
      BY <1>2, <2>1, <2>3
    <3> QED BY <3>1
  <2> QED BY <2>2, <2>3
<1> QED BY <1>4, DataTimersLeft

\* Starting the timer at f of a list that begins with the sender's timers.
LEMMA DataTimersStarted ==
  ASSUME IInv, Started, NEW list \in Seq(Timers), InPlace(list),
         \A t \in DOMAIN timers : list[t] = timers[t],
         NEW a, timers' = start_timer(list, a),
         find_timer(list, a) \in DOMAIN list,
         list[find_timer(list, a)].pckt_ackno = a,
         \A k \in DataIdx : k = find_timer(list, a) =>
           \/ FillSend /\ k = i /\ ~AckedIn(timers, k)
           \/ Sent(k) /\ Ackno(k) = FinPacket.ackno
  PROVE  DataTimersStep
<1> DEFINE f == find_timer(list, a)
<1>1. timers \in Seq(Timers) /\ InPlace(timers)
  BY DEF IInv, Facts, TypeOK
<1>2. \A t \in DOMAIN list : timers'[t] = IF t = f THEN restarted(list[t]) ELSE list[t]
  BY StartTimer
<1>3. \A k \in DataIdx : k = f => \/ FillSend /\ k = i /\ ~AckedIn(timers, k)
                                  \/ Sent(k) /\ Ackno(k) = FinPacket.ackno
  OBVIOUS
<1> HIDE DEF f
<1>4. ASSUME NEW k \in DataIdx
      PROVE  /\ Sent(k) => timers'[k].sent
             /\ timers'[k].sent => Sent(k) \/ (FillSend /\ k = i)
             /\ timers'[k].running => timers'[k].sent
             /\ AckedIn(timers, k) => AckedIn(timers', k) \/ Ackno(k) = FinPacket.ackno
             /\ Late(timers'[k]) => Late(timers[k])
  <2>1. k \in DOMAIN timers /\ k \in DOMAIN list
    BY <1>1, FindInPlace
  <2>2. CASE k = f
    <3>1. timers'[k] = restarted(list[k]) /\ list[k] \in Timers
      <4>1. list[k] \in Timers
        BY <2>1, SMT
      <4> QED BY <1>2, <2>1, <2>2, <4>1
    <3>2. timers'[k].sent /\ ~Late(timers'[k])
      BY <3>1, TimerFields DEF Late
    <3> QED BY <1>3, <2>2, <3>2
  <2>3. CASE k # f
    <3>1. timers'[k] = timers[k]
      BY <1>2, <2>1, <2>3
    <3> QED BY <3>1 DEF Started, Sent, AckedIn
  <2> QED BY <2>2, <2>3
<1> QED BY <1>4 DEF DataTimersStep

\* A poll starts no timer.
LEMMA DataTimersPolled ==
  ASSUME IInv, Started, Poll
  PROVE  DataTimersStep
<1>0. PICK late : poll_timers(late)
  BY DEF Poll
<1>1. timers \in Seq(Timers) /\ InPlace(timers)
  BY DEF IInv, Facts, TypeOK
<1>2. \A t \in DOMAIN timers : timers[t] \in Timers
  BY <1>1, SMT
<1>3. ASSUME NEW timer \in Timers
      PROVE  /\ expired(timer).running = timer.running
             /\ expired(timer).sent = timer.sent
  BY DEF expired, Timers
<1>4. ASSUME NEW k \in DataIdx
      PROVE  /\ timers'[k].sent <=> timers[k].sent
             /\ timers'[k].running => timers[k].running
  <2>1. k \in DOMAIN timers
    BY <1>1, FindInPlace
  <2>2. timers'[k] = IF k \in late THEN expired(timers[k]) ELSE timers[k]
    BY <1>0, <2>1 DEF poll_timers
  <2> QED BY <1>2, <1>3, <2>1, <2>2
<1> QED BY <1>4, DataTimersLeft

\* Sending expired packets again starts timers that run.
LEMMA DataTimersResent ==
  ASSUME IInv, Started, resend_timedoutPackets
  PROVE  DataTimersStep
<1> DEFINE sent     == Resends \cap DataIdx
           restarts == {find_timer(timers, Ackno(k)) : k \in sent}
<1>1. timers \in Seq(Timers) /\ InPlace(timers)
  BY DEF IInv, Facts, TypeOK
<1>2. \A t \in DOMAIN timers : timers[t] \in Timers
  BY <1>1, SMT
<1>3. \A t \in DOMAIN timers :
        timers'[t] = IF t \in restarts THEN restarted(timers[t]) ELSE timers[t]
  BY DEF resend_timedoutPackets
<1>4. \A k \in DataIdx : k \in restarts => timers[k].running
  <2>1. \A k \in DataIdx : find_timer(timers, Ackno(k)) = k
    BY <1>1, FindInPlace
  <2> QED BY <2>1 DEF Resends, Expired
<1> HIDE DEF restarts
<1>5. ASSUME NEW k \in DataIdx
      PROVE  /\ Sent(k) => timers'[k].sent
             /\ timers'[k].sent => Sent(k)
             /\ timers'[k].running => timers'[k].sent
             /\ AckedIn(timers, k) => AckedIn(timers', k)
             /\ Late(timers'[k]) => Late(timers[k])
  <2>1. k \in DOMAIN timers
    BY <1>1, FindInPlace
  <2>2. CASE k \in restarts
    <3>1. timers'[k] = restarted(timers[k]) /\ timers[k] \in Timers
      BY <1>2, <1>3, <2>1, <2>2
    <3>2. timers'[k].sent /\ ~Late(timers'[k])
      BY <3>1, TimerFields DEF Late
    <3> QED BY <1>4, <2>2, <3>2 DEF Started, AckedIn
  <2>3. CASE k \notin restarts
    <3>1. timers'[k] = timers[k]
      BY <1>3, <2>1, <2>3
    <3> QED BY <3>1 DEF Started, Sent, AckedIn
  <2> QED BY <2>2, <2>3
<1> QED BY <1>5 DEF DataTimersStep

\* fill_window starts the timer of a packet that is not acknowledged.
LEMMA DataTimersOfFill ==
  ASSUME IInv, Started, FillSend
  PROVE  DataTimersStep
<1>1. timers \in Seq(Timers) /\ InPlace(timers) /\ i \in DataIdx
  BY DEF IInv, Facts, TypeOK, FillSend
<1>2. find_timer(timers, Ackno(i)) = i /\ i \in DOMAIN timers
  BY <1>1, FindInPlace
<1>3. timers[i].pckt_ackno = Ackno(i)
  BY <1>1, <1>2 DEF InPlace
<1>4. ~AckedIn(timers, i)
  <2>1. ~packetACKd(i)
    BY DEF FillSend, ToSend
  <2> QED BY <1>1, <2>1, AckedAt
<1>5. timers' = start_timer(timers, Ackno(i))
  BY DEF FillSend
<1> QED BY <1>1, <1>2, <1>3, <1>4, <1>5, DataTimersStarted

\* The SYN's timer is no data packet's.
LEMMA DataTimersOfSyn ==
  ASSUME IInv, Started, SendSyn
  PROVE  DataTimersStep
<1> DEFINE list == add_timer(timers, create_timer(SynPacket.ackno, TRUE))
<1>1. timers \in Seq(Timers) /\ InPlace(timers) /\ Len(timers) = NumPackets
  BY DEF IInv, Facts, TypeOK, SendSyn
<1>2. SynPacket.ackno \in Nat /\ NumPackets \in Nat
  BY PacketFields
<1>3. /\ list \in Seq(Timers) /\ InPlace(list)
      /\ Len(list) = Len(timers) + 1
      /\ \A t \in DOMAIN timers : list[t] = timers[t]
  BY <1>1, <1>2, AppendTimer
<1> HIDE DEF list
<1>4. Len(list) = NumPackets + 1
  BY <1>1, <1>3
<1>5. Len(list) > NumPackets /\ NumPackets + 1 \notin DataIdx
  BY <1>2, <1>4, SMT DEF DataIdx
<1>6. /\ find_timer(list, SynPacket.ackno) = NumPackets + 1
      /\ NumPackets + 1 \in DOMAIN list
  BY <1>3, <1>5, FindInPlace
<1>7. list[NumPackets + 1].pckt_ackno = SynPacket.ackno
  BY <1>3, <1>6 DEF InPlace
<1>8. timers' = start_timer(list, SynPacket.ackno)
  BY DEF SendSyn, list
<1> QED BY <1>3, <1>5, <1>6, <1>7, <1>8, DataTimersStarted

\* A FIN starts the timer that its ackno finds, when every packet was sent.
LEMMA DataTimersOfFin ==
  ASSUME IInv, Started, SendFin
  PROVE  DataTimersStep
<1> DEFINE longer == add_timer(timers, create_timer(FinPacket.ackno, TRUE))
           list   == IF Len(timers) < MAX_TIMERS THEN longer ELSE timers
<1>1. timers \in Seq(Timers) /\ InPlace(timers) /\ Len(timers) # NumPackets
  BY DEF IInv, Facts, TypeOK, SendFin
<1>2. FinPacket.ackno \in Nat /\ NumPackets \in Nat
  BY PacketFields, SizesAssumption, SMT DEF SizesAssumption
<1>3. Len(timers) \in Nat /\ Len(timers) > NumPackets
  <2>1. Len(timers) \in Nat
    BY <1>1, SMT
  <2>2. Len(timers) >= NumPackets
    BY <1>1 DEF InPlace
  <2>3. Len(timers) # NumPackets
    BY <1>1
  <2> QED BY <1>2, <2>1, <2>2, <2>3, SMT
<1>4. /\ longer \in Seq(Timers) /\ InPlace(longer)
      /\ Len(longer) = Len(timers) + 1
      /\ \A t \in DOMAIN timers : longer[t] = timers[t]
  BY <1>1, <1>2, <1>3, AppendTimer
<1> HIDE DEF longer
<1>5. /\ list \in Seq(Timers) /\ InPlace(list)
      /\ \A t \in DOMAIN timers : list[t] = timers[t]
  BY <1>1, <1>4
<1>6. Len(list) > NumPackets + 1
  <2>1. Len(list) = IF Len(timers) < MAX_TIMERS THEN Len(timers) + 1 ELSE Len(timers)
    BY <1>4
  <2> HIDE DEF list
  <2> QED BY <1>2, <1>3, <2>1, TimersAssumption, SMT DEF TimersAssumption
<1>7. timers' = start_timer(list, FinPacket.ackno)
  BY DEF SendFin, longer
<1> HIDE DEF list
<1>8. /\ find_timer(list, FinPacket.ackno) \in DOMAIN list
      /\ list[find_timer(list, FinPacket.ackno)].pckt_ackno = FinPacket.ackno
  BY <1>5, <1>6, FindInPlace
<1>9. ASSUME NEW k \in DataIdx, k = find_timer(list, FinPacket.ackno)
      PROVE  Sent(k) /\ Ackno(k) = FinPacket.ackno
  <2>1. packetACKd(k)
    BY DEF SendFin, allPacketsAcknowledged
  <2>2. Sent(k)
    BY <1>1, <2>1, AckedAt DEF AckedIn, Sent
  <2>3. k \in DOMAIN list
    BY <1>5, FindInPlace
  <2>4. list[k].pckt_ackno = Ackno(k)
    BY <1>5, <2>3 DEF InPlace
  <2> QED BY <1>8, <1>9, <2>2, <2>4
<1> QED BY <1>5, <1>7, <1>8, <1>9, DataTimersStarted

\* An ACK stops a timer, whatever it acknowledges.
LEMMA DataTimersOfAck ==
  ASSUME IInv, Started, NEW pckt \in toSender,
         SynAcked(pckt) \/ ReceiveAck(pckt) \/ FinWaitAck(pckt)
  PROVE  DataTimersStep
<1>1. CASE SynAcked(pckt)
  <2>1. timers \in Seq(Timers) /\ InPlace(timers) /\ Len(timers) # NumPackets
    BY <1>1 DEF IInv, Facts, TypeOK, SynAcked
  <2>2. Len(timers) > NumPackets
    <3>1. Len(timers) \in Nat /\ NumPackets \in Nat
      BY <2>1, PacketFields, SMT
    <3>2. Len(timers) >= NumPackets
      BY <2>1 DEF InPlace
    <3>3. Len(timers) # NumPackets
      BY <2>1
    <3> QED BY <3>1, <3>2, <3>3, SMT
  <2>3. find_timer(timers, SynPacket.ackno) \in DOMAIN timers
    BY <2>1, <2>2, FindInPlace
  <2>4. timers' = stop_timer(timers, SynPacket.ackno)
    BY <1>1 DEF SynAcked
  <2> QED BY <2>3, <2>4, DataTimersStopped
<1>2. CASE ReceiveAck(pckt) \/ FinWaitAck(pckt)
  <2>1. /\ find_timer(timers, pckt.seqno) \in DOMAIN timers
        /\ find_timer(timers, pckt.seqno) # NULL
    BY AckInFlight
  <2>2. timers' = stop_timer(timers, pckt.seqno)
    BY <1>2, <2>1 DEF ReceiveAck, FinWaitAck, handle_packet
  <2> QED BY <2>1, <2>2, DataTimersStopped
<1> QED BY <1>1, <1>2

\* Every step is such a step, and keeps Started.
LEMMA NextDataTimers ==
  ASSUME IInv, Started, [Next]_vars
  PROVE  DataTimersStep
<1>1. CASE UNCHANGED timers
  BY <1>1, DataTimersLeft
<1>2. CASE InSender(SenderReceives)
  BY <1>2, DataTimersOfAck DEF InSender, SenderReceives
<1>3. CASE InSender(SenderMoves)
  <2>1. CASE SendSyn
    BY <2>1, DataTimersOfSyn
  <2>2. CASE FillSend
    BY <2>2, DataTimersOfFill
  <2>3. CASE resend_timedoutPackets
    BY <2>3, DataTimersResent
  <2>4. CASE SendFin
    BY <2>4, DataTimersOfFin
  <2>5. CASE \/ SynRetry \/ FillSkip \/ FillDone \/ ReceiveNothing
             \/ UpdateAdvance \/ UpdateSkip \/ UpdateDone
             \/ NotAllAcked \/ FinWaitNothing \/ CheckClock
    BY <1>1, <2>5 DEF SynRetry, FillSkip, FillDone, ReceiveNothing, UpdateAdvance,
                      UpdateSkip, UpdateDone, NotAllAcked, FinWaitNothing, CheckClock
  <2> QED BY <1>3, <2>1, <2>2, <2>3, <2>4, <2>5 DEF InSender, SenderMoves
<1>4. CASE InSender(Poll)
  BY <1>4, DataTimersPolled DEF InSender
<1>5. CASE Receiver
  BY <1>1, <1>5 DEF Receiver, ReceiveDat, ReceiveSyn, ReceiveFin, Answer, senderVars
<1>6. CASE UNCHANGED vars
  BY <1>1, <1>6 DEF vars, senderVars
<1> QED BY <1>2, <1>3, <1>4, <1>5, <1>6, SenderSteps DEF Next

\* Only fill_window sends a packet for the first time.
LEMMA SentSame ==
  ASSUME IInv, Started, [Next]_vars, ~FillSend, NEW k \in DataIdx
  PROVE  Sent(k)' <=> Sent(k)
BY NextDataTimers DEF DataTimersStep, Sent

\* The FIN's ackno is at most that of one data packet, the last.
LEMMA AckedKept ==
  ASSUME IInv, Started, [Next]_vars, NEW k \in DataIdx, AckedIn(timers, k),
         FinAcknoIsItsOwn \/ k < NumPackets
  PROVE  AckedIn(timers', k)
<1>1. CASE FinAcknoIsItsOwn
  BY <1>1, NextDataTimers DEF DataTimersStep, FinAcknoIsItsOwn
<1>2. CASE k < NumPackets
  <2>1. NumPackets \in DataIdx
    BY PacketFields, SMT DEF DataIdx
  <2>2. Ackno(k) < Ackno(NumPackets)
    BY <1>2, <2>1, NumbersGrow
  <2>3. Ackno(NumPackets) = Seqno(NumPackets) + PayloadLength(NumPackets)
    BY <2>1, PacketFields
  <2>4. Seqno(NumPackets) = file_length /\ PayloadLength(NumPackets) <= MAX_PAYLOAD_SIZE
    <3>1. ~ (NumPackets <= FullPackets)
      BY FullPacketsFact, SMT DEF NumPackets
    <3> QED BY <2>1, <3>1, Lengths DEF Seqno
  <2>5. FinPacket.ackno = file_length + MAX_PAYLOAD_SIZE
    BY PacketFields
  <2>6. /\ Ackno(k) \in Int /\ Ackno(NumPackets) \in Int
        /\ PayloadLength(NumPackets) \in Int
        /\ file_length \in Int /\ MAX_PAYLOAD_SIZE \in Int
    BY <2>1, DataNumbers, Lengths, SizesAssumption DEF SizesAssumption
  <2>7. Ackno(k) # FinPacket.ackno
    BY <2>2, <2>3, <2>4, <2>5, <2>6, SMT
  <2> QED BY <2>7, NextDataTimers DEF DataTimersStep
<1> QED BY <1>1, <1>2

-----------------------------------------------------------------------------
(***************************************************************************)
(* The invariant of the window.  Packets are sent in order, each only when *)
(* the one before it was.  occupied is a whole number of full payloads and *)
(* at most the window as long as the last packet, the only one that may be *)
(* shorter, was not sent; it covers the run of full packets from the base  *)
(* to the last one sent, whatever else it counts.  Hence a base that was   *)
(* not sent finds room, and a run that was sent fits the window.           *)
(***************************************************************************)
NotBegun ==
  base_seqno = 0 \/ pc \in {"syn", "synwait"} =>
    /\ pc \in {"syn", "synwait", "timeout"}
    /\ base_seqno = 0
    /\ i = 1
    /\ \A k \in DataIdx : ~Sent(k)

SentInOrder == \A j, k \in DataIdx : Sent(k) /\ j < k => Sent(j)

FilledSoFar ==
  Filling => \A j \in DataIdx : j < i => Sent(j) \/ Seqno(j) > base_seqno + WINDOW_SIZE

BehindBase == \A k \in DataIdx : Seqno(k) < base_seqno => AckedIn(timers, k)

RoomForBase ==
  \A b \in DataIdx : Seqno(b) = base_seqno /\ ~Sent(b) => occupied < WINDOW_SIZE

OccupiedWhole ==
  \A b \in DataIdx :
    Seqno(b) = base_seqno /\ b < NumPackets /\ ~Sent(NumPackets) =>
      occupied <= WINDOW_SIZE /\ Whole(occupied)

OccupiedCovers ==
  /\ occupied >= 0
  /\ \A b, k \in DataIdx :
       Seqno(b) = base_seqno /\ Sent(k) /\ k < NumPackets => occupied >= Span(b, k)

SentFits ==
  \A b, k \in DataIdx : Seqno(b) = base_seqno /\ Sent(k) => Span(b, k) <= WINDOW_SIZE

WInv ==
  /\ IInv /\ Started
  /\ NotBegun /\ SentInOrder /\ FilledSoFar /\ BehindBase
  /\ RoomForBase /\ OccupiedWhole /\ OccupiedCovers /\ SentFits
  /\ BaseIsSent

\* Once the SYN is acknowledged, some data packet is the base.
LEMMA TheBase ==
  ASSUME WInv, base_seqno # 0
  PROVE  \E b \in DataIdx : Seqno(b) = base_seqno
BY DEF WInv, IInv, Facts, TypeOK

\* A step that sends no packet for the first time and leaves the window alone.
LEMMA WindowLeft ==
  ASSUME WInv, [Next]_vars, ~FillSend, UNCHANGED <<base_seqno, occupied>>,
         NotBegun', FilledSoFar', BaseIsSent'
  PROVE  WInv'
<1>1. IInv' /\ Started'
  BY NextInvariant, NextDataTimers DEF WInv, DataTimersStep, Started, Sent
<1>2. \A k \in DataIdx : Sent(k)' <=> Sent(k)
  BY SentSame DEF WInv
<1>3. BehindBase'
  <2>1. SUFFICES ASSUME NEW k \in DataIdx, Seqno(k) < base_seqno
                 PROVE  AckedIn(timers', k)
    BY DEF BehindBase, AckedIn
  <2>2. base_seqno # 0
    BY <2>1, DataNumbers, SMT
  <2>3. PICK b \in DataIdx : Seqno(b) = base_seqno
    BY <2>2, TheBase
  <2>4. k < b
    BY <2>1, <2>3, SeqnoOrder
  <2>5. k < NumPackets
    <3>1. NumPackets \in Int /\ b <= NumPackets
      BY <2>3, PacketFields, SMT DEF DataIdx
    <3>2. k \in Int /\ b \in Int
      BY SeqnoOrder
    <3> QED BY <2>4, <3>1, <3>2, SMT
  <2>6. AckedIn(timers, k)
    BY <2>1 DEF WInv, BehindBase
  <2> QED BY <2>5, <2>6, AckedKept DEF WInv
<1>4. SentInOrder'
  BY <1>2 DEF WInv, SentInOrder
<1>5. RoomForBase'
  BY <1>2 DEF WInv, RoomForBase
<1>6. OccupiedWhole'
  <2>1. NumPackets \in DataIdx
    BY PacketFields, SMT DEF DataIdx
  <2> QED BY <1>2, <2>1 DEF WInv, OccupiedWhole
<1>7. OccupiedCovers'
  BY <1>2 DEF WInv, OccupiedCovers
<1>8. SentFits'
  BY <1>2 DEF WInv, SentFits
<1> QED BY <1>1, <1>3, <1>4, <1>5, <1>6, <1>7, <1>8 DEF WInv

-----------------------------------------------------------------------------
\* While fill_window runs, the window has a base, not after its index, and all
\* from it to the index was sent.
LEMMA FillBegins ==
  ASSUME WInv, FillSend
  PROVE  /\ i \in DataIdx
         /\ base_seqno # 0
         /\ \A j \in DataIdx : j < i => Sent(j)
         /\ \A b \in DataIdx : Seqno(b) = base_seqno => b <= i
         /\ occupied < WINDOW_SIZE
<1>1. i \in DataIdx /\ Filling /\ InWindow(i) /\ occupied < WINDOW_SIZE
  BY DEF FillSend, ToSend, HasRoom
<1>2. base_seqno # 0
  BY <1>1 DEF WInv, NotBegun, Filling
<1>3. Seqno(i) >= base_seqno /\ Seqno(i) <= base_seqno + WINDOW_SIZE
  BY <1>1 DEF InWindow
<1>4. base_seqno \in Int /\ WINDOW_SIZE \in Int
  <2>1. PICK b \in DataIdx : Seqno(b) = base_seqno
    BY <1>2, TheBase
  <2> QED BY <2>1, SeqnoOrder, SizesAssumption DEF SizesAssumption
<1>5. ASSUME NEW j \in DataIdx, j < i
      PROVE  Sent(j)
  <2>1. Seqno(j) < Seqno(i) /\ Seqno(j) \in Int /\ Seqno(i) \in Int
    BY <1>1, <1>5, SeqnoOrder
  <2>2. ~ (Seqno(j) > base_seqno + WINDOW_SIZE)
    BY <1>3, <1>4, <2>1, SMT
  <2> QED BY <1>1, <1>5, <2>2 DEF WInv, FilledSoFar
<1>6. ASSUME NEW b \in DataIdx, Seqno(b) = base_seqno
      PROVE  b <= i
  <2>1. ~ (i < b) /\ i \in Int /\ b \in Int
    <3>1. Seqno(i) < Seqno(b) <=> i < b
      BY <1>1, SeqnoOrder
    <3>2. Seqno(i) \in Int /\ Seqno(b) \in Int /\ i \in Int /\ b \in Int
      BY <1>1, SeqnoOrder
    <3> QED BY <1>3, <1>6, <3>1, <3>2, SMT
  <2> QED BY <2>1, SMT
<1> QED BY <1>1, <1>2, <1>5, <1>6

\* The run from the base up to the packet that fill_window is at is covered.
LEMMA FillCovered ==
  ASSUME WInv, FillSend, NEW b \in DataIdx, Seqno(b) = base_seqno
  PROVE  /\ occupied \in Int
         /\ Span(b, i) \in Int
         /\ Span(b, i) <= occupied + MAX_PAYLOAD_SIZE
<1>1. /\ i \in DataIdx /\ b <= i
      /\ \A j \in DataIdx : j < i => Sent(j)
  BY FillBegins
<1>2. /\ i \in Int /\ b \in Int /\ i - 1 \in Int /\ NumPackets \in Int
      /\ i <= NumPackets /\ b >= 1 /\ MAX_PAYLOAD_SIZE \in Nat
  BY <1>1, PacketFields, SizesAssumption, SMT DEF DataIdx, SizesAssumption
<1>3. occupied \in Int /\ occupied >= 0
  BY DEF WInv, IInv, Facts, TypeOK, OccupiedCovers
<1>4. Span(b, i) \in Int /\ Span(b, b) = MAX_PAYLOAD_SIZE
  BY <1>2, SpanSteps
<1>5. CASE b = i
  BY <1>2, <1>3, <1>4, <1>5, SMT
<1>6. CASE b < i
  <2>1. i - 1 \in DataIdx /\ i - 1 < i /\ i - 1 < NumPackets
    BY <1>2, <1>6, SMT DEF DataIdx
  <2>2. occupied >= Span(b, i - 1)
    BY <1>1, <2>1 DEF WInv, OccupiedCovers
  <2>3. Span(b, (i - 1) + 1) = Span(b, i - 1) + MAX_PAYLOAD_SIZE /\ Span(b, i - 1) \in Int
    BY <1>2, SpanSteps
  <2>4. (i - 1) + 1 = i
    BY <1>2, SMT
  <2>5. Span(b, i) = Span(b, i - 1) + MAX_PAYLOAD_SIZE
    BY <2>3, <2>4
  <2> QED BY <1>2, <1>3, <1>4, <2>2, <2>3, <2>5, SMT
<1> QED BY <1>1, <1>2, <1>3, <1>4, <1>5, <1>6, SMT

\* A run that is less than one full packet beyond what the window holds fits it.
LEMMA RunFits ==
  ASSUME NEW b \in Int, NEW k \in Int, NEW n \in Int,
         n < WINDOW_SIZE, Span(b, k) <= n + MAX_PAYLOAD_SIZE
  PROVE  Span(b, k) <= WINDOW_SIZE
<1> DEFINE m == Span(b, k) - MAX_PAYLOAD_SIZE
<1>1. /\ Span(b, k) \in Int /\ Whole(Span(b, k))
      /\ MAX_PAYLOAD_SIZE \in Int /\ WINDOW_SIZE \in Int
  BY SpanSteps, WholeSteps, SizesAssumption DEF SizesAssumption
<1>2. m \in Int /\ m < WINDOW_SIZE /\ m + MAX_PAYLOAD_SIZE = Span(b, k)
  BY <1>1, SMT
<1>3. Whole(m)
  BY <1>1, WholeSteps
<1> HIDE DEF m
<1> QED BY <1>2, <1>3, WholeFits

\* fill_window keeps the invariant when it sends.
LEMMA WindowFilled ==
  ASSUME WInv, InSender(FillSend)
  PROVE  WInv'
<1>1. /\ FillSend
      /\ UNCHANGED <<pc, base_seqno>>
      /\ occupied' = occupied + PayloadLength(i)
      /\ i' = i + 1
  BY DEF InSender, FillSend
<1>2. [Next]_vars
  BY DEF InSender, Next, Sender
<1>3. /\ i \in DataIdx
      /\ base_seqno # 0
      /\ \A j \in DataIdx : j < i => Sent(j)
      /\ \A b \in DataIdx : Seqno(b) = base_seqno => b <= i
      /\ occupied < WINDOW_SIZE
  BY <1>1, FillBegins
<1>4. IInv' /\ Started'
  BY <1>2, NextInvariant, NextDataTimers DEF WInv, DataTimersStep, Started, Sent
<1>5. \A k \in DataIdx : (Sent(k)' <=> Sent(k) \/ k = i)
  <2>1. timers' = start_timer(timers, Ackno(i)) /\ timers \in Seq(Timers) /\ InPlace(timers)
    BY <1>1 DEF FillSend, WInv, IInv, Facts, TypeOK
  <2>2. find_timer(timers, Ackno(i)) = i /\ i \in DOMAIN timers
    BY <1>3, <2>1, FindInPlace
  <2>3. timers[i].pckt_ackno = Ackno(i)
    BY <1>3, <2>1, <2>2 DEF InPlace
  <2>4. timers'[i] = restarted(timers[i]) /\ timers[i] \in Timers
    BY <2>1, <2>2, <2>3, StartTimer
  <2>5. timers'[i].sent
    BY <2>4, TimerFields
  <2> QED BY <1>2, <2>5, NextDataTimers DEF WInv, DataTimersStep, Sent
<1>6. /\ occupied \in Int /\ occupied >= 0
      /\ PayloadLength(i) \in Int /\ PayloadLength(i) > 0
      /\ WINDOW_SIZE \in Int /\ MAX_PAYLOAD_SIZE \in Int
      /\ i \in Int
  BY <1>3, Lengths, SeqnoOrder, SizesAssumption
  DEF WInv, IInv, Facts, TypeOK, OccupiedCovers, SizesAssumption
<1>7. NotBegun'
  BY <1>1, <1>3 DEF WInv, NotBegun, FillSend, Filling
<1>8. SentInOrder'
  <2>1. ASSUME NEW j \in DataIdx, NEW k \in DataIdx, Sent(k)', j < k
        PROVE  Sent(j)'
    BY <1>3, <1>5, <2>1 DEF WInv, SentInOrder
  <2> QED BY <2>1 DEF SentInOrder
<1>9. FilledSoFar'
  <2>1. ASSUME NEW j \in DataIdx, j < i + 1
        PROVE  Sent(j)'
    <3>1. j < i \/ j = i
      BY <1>6, <2>1, SeqnoOrder, SMT
    <3> QED BY <1>3, <1>5, <3>1
  <2> QED BY <1>1, <2>1 DEF FilledSoFar
<1>10. BehindBase'
  <2>1. ASSUME NEW k \in DataIdx, Seqno(k) < base_seqno
        PROVE  AckedIn(timers', k)
    <3>1. PICK b \in DataIdx : Seqno(b) = base_seqno
      BY <1>3, TheBase
    <3>2. k < b /\ k \in Int /\ b \in Int
      BY <2>1, <3>1, SeqnoOrder
    <3>3. k < NumPackets
      <4>1. NumPackets \in Int /\ b <= NumPackets
        BY <3>1, PacketFields, SMT DEF DataIdx
      <4> QED BY <3>2, <4>1, SMT
    <3>4. AckedIn(timers, k)
      BY <2>1 DEF WInv, BehindBase
    <3> QED BY <1>2, <3>3, <3>4, AckedKept DEF WInv
  <2> QED BY <1>1, <2>1 DEF BehindBase, AckedIn
<1>11. RoomForBase'
  <2>1. ASSUME NEW b \in DataIdx, Seqno(b) = base_seqno
        PROVE  Sent(b)'
    <3>1. b < i \/ b = i
      BY <1>3, <1>6, <2>1, SeqnoOrder, SMT
    <3> QED BY <1>3, <1>5, <3>1
  <2> QED BY <1>1, <2>1 DEF RoomForBase
<1>12. OccupiedWhole'
  <2>1. ASSUME NEW b \in DataIdx, Seqno(b) = base_seqno, b < NumPackets,
               ~Sent(NumPackets)'
        PROVE  occupied' <= WINDOW_SIZE /\ Whole(occupied')
    <3>1. NumPackets \in DataIdx
      BY PacketFields, SMT DEF DataIdx
    <3>2. ~Sent(NumPackets) /\ i # NumPackets
      BY <1>5, <2>1, <3>1
    <3>3. PayloadLength(i) = MAX_PAYLOAD_SIZE
      BY <1>3, <3>2, Lengths
    <3>4. Whole(occupied)
      BY <2>1, <3>2 DEF WInv, OccupiedWhole
    <3> QED BY <1>1, <1>3, <1>6, <3>3, <3>4, WholeFits, WholeSteps
  <2> QED BY <1>1, <2>1 DEF OccupiedWhole
<1>13. OccupiedCovers'
  <2>1. ASSUME NEW b \in DataIdx, NEW k \in DataIdx, Seqno(b) = base_seqno,
               Sent(k)', k < NumPackets
        PROVE  occupied' >= Span(b, k)
    <3>1. CASE Sent(k)
      <4>1. occupied >= Span(b, k)
        BY <2>1, <3>1 DEF WInv, OccupiedCovers
      <4>2. Span(b, k) \in Int
        BY SpanSteps, SeqnoOrder
      <4> QED BY <1>1, <1>6, <4>1, <4>2, SMT
    <3>2. CASE k = i
      <4>1. PayloadLength(i) = MAX_PAYLOAD_SIZE
        BY <2>1, <3>2, Lengths
      <4>2. Span(b, i) <= occupied + MAX_PAYLOAD_SIZE
        BY <1>1, <2>1, FillCovered
      <4>3. occupied + MAX_PAYLOAD_SIZE = occupied' /\ Span(b, i) \in Int
        BY <1>1, <2>1, <4>1, FillCovered
      <4> QED BY <1>6, <3>2, <4>2, <4>3, SMT
    <3> QED BY <1>5, <2>1, <3>1, <3>2
  <2>2. occupied' >= 0
    BY <1>1, <1>6, SMT
  <2> QED BY <1>1, <2>1, <2>2 DEF OccupiedCovers
<1>14. SentFits'
  <2>1. ASSUME NEW b \in DataIdx, NEW k \in DataIdx, Seqno(b) = base_seqno, Sent(k)'
        PROVE  Span(b, k) <= WINDOW_SIZE
    <3>1. CASE Sent(k)
      BY <2>1, <3>1 DEF WInv, SentFits
    <3>2. CASE k = i
      <4>1. Span(b, i) <= occupied + MAX_PAYLOAD_SIZE /\ b \in Int
        BY <1>1, <2>1, FillCovered, SeqnoOrder
      <4> QED BY <1>3, <1>6, <3>2, <4>1, RunFits
    <3> QED BY <1>5, <2>1, <3>1, <3>2
  <2> QED BY <1>1, <2>1 DEF SentFits
<1>15. BaseIsSent'
  BY <1>1 DEF BaseIsSent, FillSend, Filling
<1> QED BY <1>4, <1>7, <1>8, <1>9, <1>10, <1>11, <1>12, <1>13, <1>14, <1>15 DEF WInv

\* update_windowBase keeps the invariant when it moves the base.
LEMMA WindowSlid ==
  ASSUME WInv, InSender(UpdateAdvance)
  PROVE  WInv'
<1> DEFINE n == i + 1
<1>1. /\ pc = "update" /\ pc' = "update"
      /\ i \in DataIdx /\ n \in DataIdx
      /\ Seqno(i) = base_seqno /\ packetACKd(i)
      /\ base_seqno' = Seqno(n)
      /\ occupied' = occupied - PayloadLength(n)
      /\ i' = n
      /\ timers' = timers
  BY DEF InSender, UpdateAdvance, BaseAcked
<1>2. [Next]_vars /\ ~FillSend
  BY DEF InSender, Next, Sender, UpdateAdvance, FillSend, Filling
<1>3. IInv' /\ Started'
  BY <1>2, NextInvariant, NextDataTimers DEF WInv, DataTimersStep, Started, Sent
<1>4. \A k \in DataIdx : Sent(k)' <=> Sent(k)
  BY <1>1 DEF Sent
<1>5. /\ i \in Int /\ n \in Int /\ i < n /\ n <= NumPackets /\ NumPackets \in Int
      /\ occupied \in Int /\ WINDOW_SIZE \in Int /\ MAX_PAYLOAD_SIZE \in Int
      /\ NumPackets \in DataIdx
      /\ PayloadLength(n) \in Int /\ PayloadLength(n) > 0
      /\ PayloadLength(n) <= MAX_PAYLOAD_SIZE
  <2>1. NumPackets \in Nat \ {0} /\ i \in Nat
    BY <1>1, PacketFields
  <2>2. /\ i \in Int /\ n \in Int /\ i < n /\ n <= NumPackets /\ NumPackets \in Int
        /\ NumPackets \in DataIdx
    BY <1>1, <2>1, SMT DEF DataIdx
  <2> QED BY <1>1, <2>2, Lengths, SizesAssumption DEF WInv, IInv, Facts, TypeOK, SizesAssumption
<1>6. AckedIn(timers, i) /\ Sent(i)
  BY <1>1, AckedAt DEF WInv, IInv, Facts, TypeOK, AckedIn, Sent
<1>7. \A b \in DataIdx : Seqno(b) = Seqno(n) => b = n
  BY <1>1, SeqnoOrder
<1> HIDE DEF n
<1>8. base_seqno' # 0
  BY <1>1, DataNumbers, SMT
<1>9. NotBegun'
  BY <1>1, <1>8 DEF NotBegun
<1>10. SentInOrder'
  BY <1>4 DEF WInv, SentInOrder
<1>11. FilledSoFar' /\ BaseIsSent'
  BY <1>1 DEF FilledSoFar, BaseIsSent, Filling
<1>12. BehindBase'
  <2>1. ASSUME NEW k \in DataIdx, Seqno(k) < Seqno(n)
        PROVE  AckedIn(timers, k)
    <3>1. k < n /\ k \in Int
      BY <1>1, <2>1, SeqnoOrder
    <3>2. k < i \/ k = i
      BY <1>5, <3>1, SMT DEF n
    <3>3. k < i => Seqno(k) < Seqno(i)
      BY <1>1, SeqnoOrder
    <3> QED BY <1>1, <1>6, <3>2, <3>3 DEF WInv, BehindBase
  <2> QED BY <1>1, <2>1 DEF BehindBase, AckedIn
<1>13. ~Sent(NumPackets) => occupied <= WINDOW_SIZE /\ Whole(occupied)
  <2>1. i < NumPackets
    BY <1>5, SMT
  <2> QED BY <1>1, <2>1 DEF WInv, OccupiedWhole
<1>14. RoomForBase'
  <2>1. ~Sent(n) => ~Sent(NumPackets)
    <3>1. n = NumPackets \/ n < NumPackets
      BY <1>5, SMT
    <3> QED BY <1>1, <1>5, <3>1 DEF WInv, SentInOrder
  <2>2. ~Sent(n) => occupied' < WINDOW_SIZE
    BY <1>1, <1>5, <1>13, <2>1, SMT
  <2> QED BY <1>1, <1>4, <1>7, <2>2 DEF RoomForBase
<1>15. OccupiedWhole'
  <2>1. ASSUME n < NumPackets, ~Sent(NumPackets)
        PROVE  occupied' <= WINDOW_SIZE /\ Whole(occupied')
    <3>1. PayloadLength(n) = MAX_PAYLOAD_SIZE
      BY <1>1, <2>1, Lengths
    <3>2. occupied' <= WINDOW_SIZE
      BY <1>1, <1>5, <1>13, <2>1, SMT
    <3> QED BY <1>1, <1>5, <1>13, <2>1, <3>1, <3>2, WholeSteps
  <2> QED BY <1>1, <1>4, <1>5, <1>7, <2>1 DEF OccupiedWhole
<1>16. OccupiedCovers'
  <2>1. ASSUME NEW k \in DataIdx, Sent(k), k < NumPackets
        PROVE  occupied' >= Span(n, k)
    <3>1. occupied >= Span(i, k)
      BY <1>1, <2>1 DEF WInv, OccupiedCovers
    <3>2. Span(n, k) = Span(i, k) - MAX_PAYLOAD_SIZE /\ Span(i, k) \in Int
      BY <1>1, SpanSteps, SeqnoOrder DEF n
    <3> QED BY <1>1, <1>5, <3>1, <3>2, SMT
  <2>2. occupied' >= 0
    <3>1. i < NumPackets
      BY <1>5, SMT
    <3>2. occupied >= Span(i, i) /\ Span(i, i) = MAX_PAYLOAD_SIZE
      BY <1>1, <1>5, <1>6, <3>1, SpanSteps DEF WInv, OccupiedCovers
    <3> QED BY <1>1, <1>5, <3>2, SMT
  <2> QED BY <1>1, <1>4, <1>7, <2>1, <2>2 DEF OccupiedCovers
<1>17. SentFits'
  <2>1. ASSUME NEW k \in DataIdx, Sent(k)
        PROVE  Span(n, k) <= WINDOW_SIZE
    <3>1. Span(i, k) <= WINDOW_SIZE
      BY <1>1, <2>1 DEF WInv, SentFits
    <3>2. Span(n, k) <= Span(i, k) /\ Span(i, k) \in Int /\ Span(n, k) \in Int
      <4>1. i <= n
        BY <1>5, SMT
      <4> QED BY <1>1, <1>5, <4>1, SpanSteps, SeqnoOrder
    <3> QED BY <1>5, <3>1, <3>2, SMT
  <2> QED BY <1>1, <1>4, <1>7, <2>1 DEF SentFits
<1> QED BY <1>3, <1>9, <1>10, <1>11, <1>12, <1>14, <1>15, <1>16, <1>17 DEF WInv

\* The SYN's ACK opens the window at the first packet, with nothing sent.
LEMMA WindowOpened ==
  ASSUME WInv, NEW pckt \in toSender, InSender(SynAcked(pckt))
  PROVE  WInv'
<1>1. /\ pc = "synwait" /\ pc' = "fill0"
      /\ base_seqno' = Seqno(1) /\ occupied' = 0 /\ i' = i
  BY DEF InSender, SynAcked
<1>2. [Next]_vars /\ ~FillSend
  BY DEF InSender, Next, Sender, SynAcked, FillSend, Filling
<1>3. IInv' /\ Started'
  BY <1>2, NextInvariant, NextDataTimers DEF WInv, DataTimersStep, Started, Sent
<1>4. i = 1 /\ \A k \in DataIdx : ~Sent(k)
  BY <1>1 DEF WInv, NotBegun
<1>5. \A k \in DataIdx : ~Sent(k)'
  BY <1>2, <1>4, SentSame DEF WInv
<1>6. /\ 1 \in DataIdx /\ NumPackets \in DataIdx
      /\ WINDOW_SIZE \in Int /\ WINDOW_SIZE > 0
      /\ \A k \in DataIdx : ~ (k < 1)
  BY PacketFields, SizesAssumption, SMT DEF SizesAssumption, DataIdx
<1>7. NotBegun'
  <2>1. Seqno(1) # 0
    BY <1>6, DataNumbers
  <2> QED BY <1>1, <2>1 DEF NotBegun
<1>8. SentInOrder' /\ FilledSoFar' /\ BaseIsSent' /\ SentFits'
  BY <1>1, <1>4, <1>5, <1>6 DEF SentInOrder, FilledSoFar, BaseIsSent, SentFits
<1>9. BehindBase'
  <2>1. \A k \in DataIdx : ~ (Seqno(k) < Seqno(1))
    BY <1>6, SeqnoOrder
  <2> QED BY <1>1, <2>1 DEF BehindBase
<1>10. RoomForBase' /\ OccupiedWhole' /\ OccupiedCovers'
  <2>1. 0 <= WINDOW_SIZE /\ 0 < WINDOW_SIZE /\ 0 >= 0
    BY <1>6, SMT
  <2>2. Whole(0)
    BY WholeSteps
  <2> QED BY <1>1, <1>5, <2>1, <2>2 DEF RoomForBase, OccupiedWhole, OccupiedCovers
<1> QED BY <1>3, <1>7, <1>8, <1>9, <1>10 DEF WInv

\* The end of fill_window: the base was sent, or it found the window full.
LEMMA WindowFull ==
  ASSUME WInv, InSender(FillDone)
  PROVE  WInv'
<1>1. /\ Filling
      /\ i \notin DataIdx \/ ~ (occupied < WINDOW_SIZE)
      /\ pc' \in {"receive", "resend"}
      /\ UNCHANGED <<timers, base_seqno, occupied>>
  BY DEF InSender, FillDone, HasRoom
<1>2. [Next]_vars /\ ~FillSend
  <2>1. i' = 1
    BY DEF InSender, FillDone
  <2>2. FillSend => pc' = pc
    BY DEF FillSend
  <2>3. pc' # pc
    BY <1>1 DEF Filling
  <2> QED BY <2>2, <2>3 DEF InSender, Next, Sender
<1>3. NotBegun' /\ FilledSoFar'
  BY <1>1 DEF WInv, NotBegun, FilledSoFar, Filling
<1>4. BaseIsSent'
  <2>1. ASSUME NEW b \in DataIdx, Seqno(b) = base_seqno, ~Sent(b)
        PROVE  FALSE
    <3>1. occupied < WINDOW_SIZE
      BY <2>1 DEF WInv, RoomForBase
    <3>2. i \notin DataIdx /\ i \in 1 .. NumPackets + 1
      BY <1>1, <3>1 DEF WInv, IInv, Facts, TypeOK
    <3>3. b < i
      BY <3>2, PacketFields, SMT DEF DataIdx
    <3>4. Seqno(b) > base_seqno + WINDOW_SIZE
      BY <1>1, <2>1, <3>3 DEF WInv, FilledSoFar
    <3>5. Seqno(b) \in Int /\ WINDOW_SIZE \in Nat
      BY SeqnoOrder, SizesAssumption DEF SizesAssumption
    <3> QED BY <2>1, <3>4, <3>5, SMT
  <2> QED BY <1>1, <2>1 DEF BaseIsSent, Sent
<1> QED BY <1>1, <1>2, <1>3, <1>4, WindowLeft

\* fill_window passes over what it need not send, or must not.
LEMMA WindowSkipped ==
  ASSUME WInv, InSender(FillSkip)
  PROVE  WInv'
<1>1. /\ Filling /\ i \in DataIdx /\ ~ToSend(i)
      /\ i' = i + 1
      /\ UNCHANGED <<pc, timers, base_seqno, occupied>>
  BY DEF InSender, FillSkip
<1>2. [Next]_vars /\ ~FillSend
  BY DEF InSender, Next, Sender, FillSkip, FillSend
<1>3. NotBegun' /\ BaseIsSent'
  BY <1>1 DEF WInv, NotBegun, BaseIsSent, Filling
<1>4. Sent(i) \/ Seqno(i) > base_seqno + WINDOW_SIZE
  <2>1. timers \in Seq(Timers) /\ InPlace(timers)
    BY DEF WInv, IInv, Facts, TypeOK
  <2>2. AckedIn(timers, i) => Sent(i)
    BY DEF AckedIn, Sent
  <2>3. CASE packetACKd(i)
    BY <1>1, <2>1, <2>2, <2>3, AckedAt
  <2>4. CASE ~InWindow(i)
    <3>1. Seqno(i) < base_seqno => AckedIn(timers, i)
      BY <1>1 DEF WInv, BehindBase
    <3>2. Seqno(i) \in Int /\ base_seqno \in Int /\ WINDOW_SIZE \in Int
      BY <1>1, DataNumbers, SizesAssumption DEF WInv, IInv, Facts, TypeOK, SizesAssumption
    <3>3. Seqno(i) < base_seqno \/ Seqno(i) > base_seqno + WINDOW_SIZE
      BY <2>4, <3>2, SMT DEF InWindow
    <3> QED BY <2>2, <3>1, <3>3
  <2> QED BY <1>1, <2>3, <2>4 DEF ToSend
<1>5. FilledSoFar'
  <2>1. ASSUME NEW j \in DataIdx, j < i + 1
        PROVE  Sent(j) \/ Seqno(j) > base_seqno + WINDOW_SIZE
    <3>1. j < i \/ j = i
      BY <1>1, <2>1, SeqnoOrder, SMT
    <3> QED BY <1>1, <1>4, <3>1 DEF WInv, FilledSoFar
  <2> QED BY <1>1, <2>1 DEF FilledSoFar, Sent
<1> QED BY <1>1, <1>2, <1>3, <1>5, WindowLeft

\* The steps that neither fill the window nor move its base.
LEMMA WindowAside ==
  ASSUME WInv, [Next]_vars, ~FillSend, UNCHANGED <<base_seqno, occupied>>,
         pc' \in {"receive", "resend", "check", "finwait", "clock"} =>
           pc \in {"receive", "resend", "check", "finwait", "clock"},
         pc' \in {"fill0", "fill"} => i' = 1 \/ (pc' = pc /\ i' = i),
         pc' \in {"syn", "synwait"} => pc \in {"syn", "synwait"},
         pc \in {"syn", "synwait", "timeout"} =>
           pc' \in {"syn", "synwait", "timeout"} /\ i' = i
  PROVE  WInv'
<1>1. \A k \in DataIdx : Sent(k)' <=> Sent(k)
  BY SentSame DEF WInv
<1>2. NotBegun'
  BY <1>1 DEF WInv, NotBegun
<1>3. BaseIsSent'
  BY <1>1 DEF WInv, BaseIsSent
<1>4. FilledSoFar'
  <2>1. \A j \in DataIdx : ~ (j < 1)
    BY SMT DEF DataIdx
  <2>2. CASE Filling' /\ i' = 1
    BY <2>1, <2>2 DEF FilledSoFar
  <2>3. CASE Filling' /\ pc' = pc /\ i' = i
    <3>1. Filling
      BY <2>3 DEF Filling
    <3> QED BY <1>1, <2>3, <3>1 DEF WInv, FilledSoFar
  <2> QED BY <2>2, <2>3 DEF FilledSoFar, Filling
<1> QED BY <1>2, <1>3, <1>4, WindowLeft

\* Every step keeps the invariant of the window.
LEMMA NextWindow == WInv /\ [Next]_vars => WInv'
<1> SUFFICES ASSUME WInv, [Next]_vars PROVE WInv'
  OBVIOUS
<1>1. CASE InSender(SenderReceives)
  <2>1. PICK pckt \in toSender :
          InSender(SynAcked(pckt)) \/ InSender(ReceiveAck(pckt)) \/ InSender(FinWaitAck(pckt))
    BY <1>1 DEF InSender, SenderReceives
  <2>2. CASE InSender(SynAcked(pckt))
    BY <2>2, WindowOpened
  <2>3. CASE InSender(ReceiveAck(pckt))
    <3>1. handle_packet(pckt, "update") => pc' \in {"abort", "update"}
      BY DEF handle_packet
    <3> QED BY <2>3, <3>1, WindowAside DEF InSender, ReceiveAck, FillSend, Filling
  <2>4. CASE InSender(FinWaitAck(pckt))
    <3>1. \A next : handle_packet(pckt, next) => pc' \in {"abort", next}
      BY DEF handle_packet
    <3>2. pc' \in {"abort", "success", "clock"}
      BY <2>4, <3>1 DEF InSender, FinWaitAck
    <3> QED BY <2>4, <3>2, WindowAside DEF InSender, FinWaitAck, FillSend, Filling
  <2> QED BY <2>1, <2>2, <2>3, <2>4
<1>2. CASE InSender(SenderMoves)
  <2>1. CASE InSender(FillSend)
    BY <2>1, WindowFilled
  <2>2. CASE InSender(FillSkip)
    BY <2>2, WindowSkipped
  <2>3. CASE InSender(FillDone)
    BY <2>3, WindowFull
  <2>4. CASE InSender(UpdateAdvance)
    BY <2>4, WindowSlid
  <2>5. CASE SendSyn \/ SynRetry
    BY <2>5, WindowAside DEF SendSyn, SynRetry, FillSend, Filling
  <2>6. CASE ReceiveNothing \/ UpdateSkip \/ UpdateDone
    BY <2>6, WindowAside DEF ReceiveNothing, UpdateSkip, UpdateDone, FillSend, Filling
  <2>7. CASE resend_timedoutPackets
    BY <2>7, WindowAside DEF resend_timedoutPackets, FillSend, Filling
  <2>8. CASE SendFin \/ NotAllAcked \/ FinWaitNothing \/ CheckClock
    BY <2>8, WindowAside
    DEF SendFin, NotAllAcked, FinWaitNothing, CheckClock, FillSend, Filling
  <2> QED BY <1>2, <2>1, <2>2, <2>3, <2>4, <2>5, <2>6, <2>7, <2>8
          DEF InSender, SenderMoves
<1>3. CASE InSender(Poll)
  <2>1. UNCHANGED <<pc, i, base_seqno, occupied>>
    BY <1>3 DEF InSender, Poll, poll_timers
  <2>2. ~FillSend
    BY <2>1, SMT DEF FillSend, WInv, IInv, Facts, TypeOK
  <2> QED BY <2>1, <2>2, WindowAside
<1>4. CASE Receiver \/ UNCHANGED vars
  <2>1. UNCHANGED <<pc, i, base_seqno, occupied>>
    BY <1>4 DEF Receiver, ReceiveDat, ReceiveSyn, ReceiveFin, Answer, vars, senderVars
  <2>2. ~FillSend
    BY <2>1, SMT DEF FillSend, WInv, IInv, Facts, TypeOK
  <2> QED BY <2>1, <2>2, WindowAside
<1> QED BY <1>1, <1>2, <1>3, <1>4, SenderSteps DEF Next

\* At the start nothing was sent and the window is closed.
LEMMA InitWindow == Init => WInv
<1> SUFFICES ASSUME Init PROVE WInv
  OBVIOUS
<1>1. IInv
  BY InitInvariant
<1>2. /\ timers = [k \in DataIdx |-> create_timer(Ackno(k), FALSE)]
      /\ pc = "syn" /\ i = 1 /\ base_seqno = 0 /\ occupied = 0
  BY DEF Init, SenderInit, DataTimers
<1>3. \A k \in DataIdx : ~timers[k].sent /\ ~timers[k].running
  BY <1>2 DEF create_timer
<1>4. \A k \in DataIdx : Seqno(k) # base_seqno /\ ~ (Seqno(k) < base_seqno)
  BY <1>2, DataNumbers, SMT
<1>5. occupied >= 0
  BY <1>2, SMT
<1> QED BY <1>1, <1>2, <1>3, <1>4, <1>5
        DEF WInv, Started, Sent, NotBegun, SentInOrder, FilledSoFar, Filling, BehindBase,
            RoomForBase, OccupiedWhole, OccupiedCovers, SentFits, BaseIsSent

\* The invariant of the window holds of every behaviour.
THEOREM WindowInvariance == Spec => []WInv
<1>1. Init => WInv
  BY InitWindow
<1>2. WInv /\ [Next]_vars => WInv'
  BY NextWindow
<1> QED BY <1>1, <1>2, PTL DEF Spec

-----------------------------------------------------------------------------
\* Whenever fill_window has run, the packet at the window's base was sent.
THEOREM BaseSent == Spec => []BaseIsSent
<1>1. WInv => BaseIsSent
  BY DEF WInv
<1> QED BY <1>1, WindowInvariance, PTL

\* Everything before the window's base is acknowledged, and nothing beyond
\* its end was sent.
THEOREM WindowSlides == Spec => []WindowIsSlid
<1>1. WInv => WindowIsSlid
  <2>1. SUFFICES ASSUME WInv, NEW k \in DataIdx
                 PROVE  /\ Seqno(k) < base_seqno => packetACKd(k)
                        /\ Sent(k) => InWindow(k) \/ Seqno(k) < base_seqno
    BY DEF WindowIsSlid
  <2>2. Seqno(k) < base_seqno => packetACKd(k)
    BY <2>1, AckedAt DEF WInv, BehindBase, IInv, Facts, TypeOK
  <2>3. ASSUME Sent(k), ~ (Seqno(k) < base_seqno)
        PROVE  InWindow(k)
    <3>1. base_seqno # 0
      BY <2>1, <2>3 DEF WInv, NotBegun
    <3>2. PICK b \in DataIdx : Seqno(b) = base_seqno
      BY <2>1, <3>1, TheBase
    <3>3. Span(b, k) <= WINDOW_SIZE
      BY <2>1, <2>3, <3>2 DEF WInv, SentFits
    <3>4. Seqno(k) <= Seqno(b) + Span(b, k)
      <4> DEFINE p == MAX_PAYLOAD_SIZE
      <4>1. /\ p \in Int /\ b \in Int /\ k \in Int /\ p > 0
            /\ k >= b /\ b <= NumPackets /\ k <= NumPackets /\ NumPackets = FullPackets + 1
            /\ FullPackets \in Int /\ LastLength \in Int /\ LastLength <= p
            /\ p * FullPackets \in Int
        <5>1. k >= b
          BY <2>3, <3>2, SeqnoOrder, SMT
        <5> QED BY <5>1, FullPacketsFact, PacketFields, SeqnoOrder, SizesAssumption, SMT
                DEF SizesAssumption, NumPackets, DataIdx
      <4>2. p * (k - b + 1) = p * k - p * b + p
        BY <4>1, SMT
      <4>3. p * k \in Int /\ p * b \in Int
        BY <4>1, SMT
      <4>4. CASE k <= FullPackets
        <5>1. Seqno(k) = p * k - p + 1 /\ Seqno(b) = p * b - p + 1
          <6>1. b <= FullPackets
            BY <4>1, <4>4, SMT
          <6> QED BY <4>4, <6>1, DataNumbers
        <5> QED BY <4>1, <4>2, <4>3, <5>1, SMT DEF Span
      <4>5. CASE k > FullPackets /\ b <= FullPackets
        <5>1. /\ k = FullPackets + 1
              /\ Seqno(k) = p * FullPackets + LastLength
              /\ Seqno(b) = p * b - p + 1
          BY <4>1, <4>5, DataNumbers
        <5>2. p * k = p * FullPackets + p
          BY <4>1, <5>1, SMT
        <5> QED BY <4>1, <4>2, <4>3, <5>1, <5>2, SMT DEF Span
      <4>6. CASE b > FullPackets
        <5>1. k = b
          BY <4>1, <4>6, SMT
        <5>2. Span(b, k) = p /\ Seqno(k) = Seqno(b) /\ Seqno(b) \in Int
          BY <4>1, <5>1, SpanSteps, SeqnoOrder
        <5> QED BY <4>1, <5>2, SMT
      <4> QED BY <4>1, <4>4, <4>5, <4>6, SMT
    <3>5. /\ Seqno(k) \in Int /\ Seqno(b) \in Int /\ Span(b, k) \in Int
          /\ WINDOW_SIZE \in Int
      BY SeqnoOrder, SpanSteps, SizesAssumption DEF SizesAssumption
    <3> QED BY <2>3, <3>2, <3>3, <3>4, <3>5, SMT DEF InWindow
  <2> QED BY <2>2, <2>3
<1> QED BY <1>1, WindowInvariance, PTL

\* From the oldest packet that is sent and not acknowledged to the newest,
\* the payloads fit the window.
THEOREM FlightFits == Spec => []FlightFitsWindow
<1>1. WInv => FlightFitsWindow
  <2>1. SUFFICES ASSUME WInv, NEW j \in Outstanding, NEW k \in Outstanding
                 PROVE  Span(j, k) <= WINDOW_SIZE
    BY DEF FlightFitsWindow, Span
  <2>2. j \in DataIdx /\ k \in DataIdx /\ Sent(k) /\ Sent(j) /\ ~packetACKd(j)
    BY DEF Outstanding
  <2>3. base_seqno # 0
    BY <2>1, <2>2 DEF WInv, NotBegun
  <2>4. PICK b \in DataIdx : Seqno(b) = base_seqno
    BY <2>1, <2>3, TheBase
  <2>5. b <= j /\ b \in Int /\ j \in Int /\ k \in Int
    <3>1. ~ (Seqno(j) < Seqno(b))
      BY <2>1, <2>2, <2>4, AckedAt DEF WInv, BehindBase, IInv, Facts, TypeOK
    <3> QED BY <2>2, <2>4, <3>1, SeqnoOrder, SMT
  <2>6. Span(b, k) <= WINDOW_SIZE
    BY <2>1, <2>2, <2>4 DEF WInv, SentFits
  <2>7. /\ Span(j, k) <= Span(b, k)
        /\ Span(j, k) \in Int /\ Span(b, k) \in Int /\ WINDOW_SIZE \in Int
    BY <2>5, SpanSteps, SizesAssumption DEF SizesAssumption
  <2> QED BY <2>6, <2>7, SMT
<1> QED BY <1>1, WindowInvariance, PTL

\* No step moves the window's base back.
LEMMA BaseAdvances ==
  ASSUME WInv, [Next]_vars
  PROVE  base_seqno' >= base_seqno
<1>1. base_seqno \in Int
  BY DataNumbers, SMT DEF WInv, IInv, Facts, TypeOK
<1>2. CASE UNCHANGED base_seqno
  BY <1>1, <1>2, SMT
<1>3. ASSUME NEW pckt, SynAcked(pckt)
      PROVE  base_seqno' >= base_seqno
  <2>1. base_seqno = 0 /\ base_seqno' = Seqno(1) /\ 1 \in DataIdx
    BY <1>3, PacketFields, SMT DEF SynAcked, WInv, NotBegun, DataIdx
  <2> QED BY <2>1, DataNumbers, SMT
<1>4. CASE UpdateAdvance
  <2>1. /\ i \in DataIdx /\ i + 1 \in DataIdx
        /\ Seqno(i) = base_seqno /\ base_seqno' = Seqno(i + 1)
    BY <1>4 DEF UpdateAdvance, BaseAcked
  <2>2. Seqno(i) < Seqno(i + 1)
    <3>1. i < i + 1
      BY <2>1, SMT DEF DataIdx
    <3> QED BY <2>1, <3>1, NumbersGrow
  <2> QED BY <2>1, <2>2, SeqnoOrder, SMT
<1>5. CASE InSender(SenderReceives) \/ InSender(SenderMoves) \/ InSender(Poll)
  BY <1>2, <1>3, <1>4, <1>5
  DEF InSender, SenderReceives, SenderMoves, Poll, ReceiveAck, FinWaitAck, poll_timers,
      SendSyn, SynRetry, FillSend, FillSkip, FillDone, ReceiveNothing, UpdateSkip,
      UpdateDone, resend_timedoutPackets, SendFin, NotAllAcked, FinWaitNothing, CheckClock
<1>6. CASE Receiver \/ UNCHANGED vars
  BY <1>2, <1>6 DEF Receiver, ReceiveDat, ReceiveSyn, ReceiveFin, Answer, vars, senderVars
<1> QED BY <1>5, <1>6, SenderSteps DEF Next

\* An acknowledged packet stays acknowledged, and the base never moves back,
\* unless full payloads make up the file.
THEOREM AcksFinal ==
  ASSUME LastLength # MAX_PAYLOAD_SIZE
  PROVE  Spec => AcksAreFinal
<1> DEFINE Step == /\ \A k \in DataIdx : packetACKd(k) => packetACKd(k)'
                   /\ base_seqno' >= base_seqno
<1>1. WInv /\ WInv' /\ [Next]_vars => [Step]_vars
  <2>1. SUFFICES ASSUME WInv, WInv', [Next]_vars PROVE Step
    OBVIOUS
  <2>2. ASSUME NEW k \in DataIdx, packetACKd(k)
        PROVE  packetACKd(k)'
    <3>1. AckedIn(timers, k)
      BY <2>1, <2>2, AckedAt DEF WInv, IInv, Facts, TypeOK
    <3>2. AckedIn(timers', k)
      BY <2>1, <3>1, AckedKept, FinAcknoCollides DEF WInv
    <3> QED BY <2>1, <3>2, AckedAt DEF WInv, IInv, Facts, TypeOK
  <2> QED BY <2>1, <2>2, BaseAdvances
<1>2. AcksAreFinal <=> [][Step]_vars
  BY DEF AcksAreFinal
<1> HIDE DEF Step
<1> QED BY <1>1, <1>2, WindowInvariance, PTL DEF Spec

(***************************************************************************)
(* A data packet that is late is among those sent again, and its timer is  *)
(* the one that is restarted then: none is late after the step.            *)
(***************************************************************************)
LEMMA NoneLeftLate ==
  ASSUME IInv, resend_timedoutPackets
  PROVE  LateData' = {}
<1> DEFINE sent     == Resends \cap DataIdx
           restarts == {find_timer(timers, Ackno(k)) : k \in sent}
<1>1. timers \in Seq(Timers) /\ InPlace(timers)
  BY DEF IInv, Facts, TypeOK
<1>2. /\ DOMAIN timers' = DOMAIN timers
      /\ \A t \in DOMAIN timers :
           timers'[t] = IF t \in restarts THEN restarted(timers[t]) ELSE timers[t]
  BY DEF resend_timedoutPackets
<1>3. ASSUME NEW k \in DataIdx, k \in DOMAIN timers'
      PROVE  ~Late(timers'[k])
  <2>1. k \in DOMAIN timers /\ find_timer(timers, Ackno(k)) = k /\ timers[k] \in Timers
    <3>1. k \in DOMAIN timers
      BY <1>2, <1>3
    <3> QED BY <1>1, <3>1, FindInPlace, SMT
  <2>2. CASE k \in restarts
    <3>1. timers'[k] = restarted(timers[k])
      BY <1>2, <2>1, <2>2
    <3> QED BY <2>1, <3>1, TimerFields DEF Late
  <2>3. CASE k \notin restarts
    <3>1. timers'[k] = timers[k]
      BY <1>2, <2>1, <2>3
    <3>2. k \notin Resends
      BY <2>1, <2>3
    <3>3. timers[k].pckt_ackno = Ackno(k)
      BY <1>1, <2>1 DEF InPlace
    <3>4. k \notin Expired
      BY <3>2, <3>3 DEF Resends
    <3> QED BY <2>1, <3>1, <3>4 DEF Expired, Late
  <2> QED BY <2>2, <2>3
<1> QED BY <1>3 DEF LateData, Expired, Late

\* The step that leaves pc = "resend" is that one.
LEMMA ResendLeaves ==
  ASSUME [Next]_vars, pc = "resend", pc' # "resend"
  PROVE  resend_timedoutPackets
<1>1. CASE InSender(SenderReceives)
  BY <1>1 DEF InSender, SenderReceives, SynAcked, ReceiveAck, FinWaitAck
<1>2. CASE InSender(SenderMoves)
  BY <1>2 DEF InSender, SenderMoves, SendSyn, SynRetry, Filling, FillSend, FillSkip, FillDone,
              ReceiveNothing, UpdateAdvance, UpdateSkip, UpdateDone, SendFin, NotAllAcked,
              FinWaitNothing, CheckClock
<1>3. CASE InSender(Poll)
  BY <1>3 DEF InSender, Poll, poll_timers
<1>4. CASE Receiver
  BY <1>4 DEF Receiver, ReceiveDat, ReceiveSyn, ReceiveFin, Answer, senderVars
<1>5. CASE UNCHANGED vars
  BY <1>5 DEF vars, senderVars
<1> QED BY <1>1, <1>2, <1>3, <1>4, <1>5, SenderSteps DEF Next

\* A data packet that was found late once is sent again once.
THEOREM ResentOnce == Spec => ResendsOnce
<1> DEFINE Step == /\ pc = "resend" /\ pc' # "resend" => LateData' = {}
                   /\ LateData' \subseteq LateData \/ UNCHANGED <<pc, i, toReceiver, toSender>>
<1>1. WInv /\ [Next]_vars => [Step]_vars
  <2>1. SUFFICES ASSUME WInv, [Next]_vars PROVE Step
    OBVIOUS
  <2>2. pc = "resend" /\ pc' # "resend" => LateData' = {}
    BY <2>1, NoneLeftLate, ResendLeaves DEF WInv
  <2>3. CASE Poll
    BY <2>2, <2>3 DEF Poll, poll_timers
  <2>4. CASE ~Poll
    <3>1. \A k \in DataIdx : Late(timers'[k]) => Late(timers[k])
      BY <2>1, <2>4, NextDataTimers DEF WInv, DataTimersStep
    <3>2. \A k \in DataIdx : k \in DOMAIN timers
      BY <2>1, FindInPlace DEF WInv, IInv, Facts, TypeOK
    <3>3. LateData' \subseteq LateData
      BY <3>1, <3>2 DEF LateData, Expired, Late
    <3> QED BY <2>2, <3>3
  <2> QED BY <2>3, <2>4
<1>2. ResendsOnce <=> [][Step]_vars
  BY DEF ResendsOnce
<1> HIDE DEF Step
<1> QED BY <1>1, <1>2, WindowInvariance, PTL DEF Spec

(***************************************************************************)
(* A data packet in flight was sent, so that it is in the window or before *)
(* it: what the receiver can get next is bounded by the window.            *)
(***************************************************************************)
SentFirst == \A k \in DataIdx : DataPacket(k) \in toReceiver => Sent(k)

\* A step puts a data packet in flight when it was sent or is being sent.
LEMMA SendsData ==
  ASSUME WInv, [Next]_vars, NEW k \in DataIdx, DataPacket(k) \in toReceiver'
  PROVE  DataPacket(k) \in toReceiver \/ timers'[k].sent
<1>1. \A S : toReceiver' \in AfterSend(toReceiver, S) =>
        DataPacket(k) \in toReceiver \/ DataPacket(k) \in S
  BY DEF AfterSend
<1>2. \A p : toReceiver' \in AfterReceive(toReceiver, p) => DataPacket(k) \in toReceiver
  BY DEF AfterReceive
<1>3. DataPacket(k) # FinPacket /\ DataPacket(k) # SynPacket
  BY PacketsDiffer DEF DataPacket, SynPacket, create_packet
<1>4. CASE SendSyn \/ SynRetry \/ SendFin
  BY <1>1, <1>3, <1>4 DEF SendSyn, SynRetry, SendFin
<1>5. \A j \in DataIdx : DataPacket(j) = DataPacket(k) => j = k
  BY PacketFields, NumbersDistinct
<1>6. CASE FillSend
  <2>1. i \in DataIdx /\ toReceiver' \in AfterSend(toReceiver, {DataPacket(i)})
    BY <1>6 DEF FillSend
  <2>2. DataPacket(k) \in toReceiver \/ k = i
    BY <1>1, <1>5, <2>1
  <2>3. timers'[i].sent
    <3>1. timers \in Seq(Timers) /\ InPlace(timers)
      BY DEF WInv, IInv, Facts, TypeOK
    <3>2. find_timer(timers, Ackno(i)) = i /\ i \in DOMAIN timers
      BY <2>1, <3>1, FindInPlace
    <3>3. timers'[i] = restarted(timers[i]) /\ timers[i] \in Timers
      BY <1>6, <3>1, <3>2, SMT DEF FillSend, start_timer
    <3> QED BY <3>3, TimerFields
  <2> QED BY <2>2, <2>3
<1>7. CASE resend_timedoutPackets
  <2>1. toReceiver' \in AfterSend(toReceiver, {DataPacket(j) : j \in Resends \cap DataIdx})
    BY <1>7 DEF resend_timedoutPackets
  <2>2. CASE DataPacket(k) \in {DataPacket(j) : j \in Resends \cap DataIdx}
    <3>1. k \in Resends
      BY <1>5, <2>2
    <3>2. Sent(k)
      BY <3>1 DEF Resends, Expired, WInv, Started
    <3> QED BY <3>2, NextDataTimers DEF WInv, DataTimersStep
  <2> QED BY <1>1, <2>1, <2>2
<1>8. CASE InSender(SenderReceives) \/ InSender(Poll) \/ UNCHANGED vars
  BY <1>8 DEF InSender, SenderReceives, SynAcked, ReceiveAck, FinWaitAck, Poll,
              poll_timers, vars, senderVars
<1>9. CASE InSender(SenderMoves)
  BY <1>4, <1>6, <1>7, <1>9
  DEF InSender, SenderMoves, FillSkip, FillDone, ReceiveNothing, UpdateAdvance,
      UpdateSkip, UpdateDone, NotAllAcked, FinWaitNothing, CheckClock
<1>10. CASE Receiver
  BY <1>2, <1>10 DEF Receiver, ReceiveDat, ReceiveSyn, ReceiveFin, Answer
<1> QED BY <1>8, <1>9, <1>10, SenderSteps DEF Next

\* Data packets in flight were sent, at all times.
LEMMA DataWasSent == Spec => []SentFirst
<1>1. Init => SentFirst
  BY DEF Init, SentFirst
<1>2. WInv /\ SentFirst /\ [Next]_vars => SentFirst'
  <2> SUFFICES ASSUME WInv, SentFirst, [Next]_vars,
                      NEW k \in DataIdx, DataPacket(k) \in toReceiver'
               PROVE  Sent(k)'
    BY DEF SentFirst
  <2>1. Sent(k) => timers'[k].sent
    BY NextDataTimers DEF WInv, DataTimersStep
  <2> QED BY <2>1, SendsData DEF SentFirst, Sent
<1> QED BY <1>1, <1>2, WindowInvariance, PTL DEF Spec

-----------------------------------------------------------------------------
(***************************************************************************)
(* The proof that the transfer implements module RdpDelivery, for every    *)
(* file that full payloads do not make up: its Data are the sequence       *)
(* numbers of the data packets, its acked those that the sender's timers   *)
(* say are acknowledged, and what it calls written and success are where   *)
(* the two programs are.                                                   *)
(***************************************************************************)
(***************************************************************************)
(* A FIN is sent when every packet is acknowledged, and none of them loses *)
(* its ACK afterwards: so it is when the receiver takes the FIN.           *)
(***************************************************************************)
AllAcked == \A k \in DataIdx : AckedIn(timers, k)

FinAfterAcks == FinPacket \in toReceiver \/ receiver = "written" => AllAcked

FInv == WInv /\ FinAfterAcks

\* What is acknowledged stays so, when the FIN has an ackno of its own.
LEMMA AllAckedKept ==
  ASSUME WInv, [Next]_vars, FinAcknoIsItsOwn, AllAcked
  PROVE  AllAcked'
<1>1. \A k \in DataIdx : AckedIn(timers', k)
  BY AckedKept DEF WInv, AllAcked
<1> QED BY <1>1 DEF AllAcked, AckedIn

\* Only SendFin puts a FIN in flight.
LEMMA FinIsSent ==
  ASSUME WInv, [Next]_vars, FinPacket \in toReceiver'
  PROVE  FinPacket \in toReceiver \/ AllAcked
<1>1. \A S : toReceiver' \in AfterSend(toReceiver, S) =>
        FinPacket \in toReceiver \/ FinPacket \in S
  BY DEF AfterSend
<1>2. \A p : toReceiver' \in AfterReceive(toReceiver, p) => FinPacket \in toReceiver
  BY DEF AfterReceive
<1>3. CASE SendSyn \/ SynRetry
  BY <1>1, <1>3, PacketsDiffer DEF SendSyn, SynRetry
<1>4. CASE FillSend
  <2>1. i \in DataIdx /\ toReceiver' \in AfterSend(toReceiver, {DataPacket(i)})
    BY <1>4 DEF FillSend
  <2> QED BY <1>1, <2>1, PacketsDiffer
<1>5. CASE resend_timedoutPackets
  <2>1. toReceiver' \in AfterSend(toReceiver, {DataPacket(k) : k \in Resends \cap DataIdx})
    BY <1>5 DEF resend_timedoutPackets
  <2>2. FinPacket \notin {DataPacket(k) : k \in Resends \cap DataIdx}
    BY PacketsDiffer
  <2> QED BY <1>1, <2>1, <2>2
<1>6. CASE SendFin
  <2>1. \A k \in DataIdx : packetACKd(k)
    BY <1>6 DEF SendFin, allPacketsAcknowledged
  <2> QED BY <2>1, AckedAt DEF WInv, IInv, Facts, TypeOK, AllAcked
<1>7. CASE InSender(SenderReceives) \/ InSender(Poll) \/ UNCHANGED vars
  BY <1>7 DEF InSender, SenderReceives, SynAcked, ReceiveAck, FinWaitAck, Poll,
              poll_timers, vars, senderVars
<1>8. CASE InSender(SenderMoves)
  BY <1>3, <1>4, <1>5, <1>6, <1>8
  DEF InSender, SenderMoves, FillSkip, FillDone, ReceiveNothing, UpdateAdvance,
      UpdateSkip, UpdateDone, NotAllAcked, FinWaitNothing, CheckClock
<1>9. CASE Receiver
  BY <1>2, <1>9 DEF Receiver, ReceiveDat, ReceiveSyn, ReceiveFin, Answer
<1> QED BY <1>7, <1>8, <1>9, SenderSteps DEF Next

\* The receiver writes when it takes a FIN, and at no other step.
LEMMA FinIsTaken ==
  ASSUME [Next]_vars, receiver' = "written"
  PROVE  receiver = "written" \/ (ReceiveFin /\ FinPacket \in toReceiver)
<1>1. CASE Sender \/ UNCHANGED vars
  BY <1>1, SenderSteps DEF InSender, vars
<1>2. CASE Receiver
  BY <1>2 DEF Receiver, ReceiveDat, ReceiveSyn, ReceiveFin, Answer
<1> QED BY <1>1, <1>2 DEF Next

\* Every step keeps FinAfterAcks.
LEMMA NextFin ==
  ASSUME FinAcknoIsItsOwn
  PROVE  FInv /\ [Next]_vars => FInv'
<1> SUFFICES ASSUME FInv, [Next]_vars PROVE FInv'
  OBVIOUS
<1>1. WInv'
  BY NextWindow DEF FInv
<1>2. FinPacket \in toReceiver' \/ receiver' = "written" => AllAcked
  BY FinIsSent, FinIsTaken DEF FInv, FinAfterAcks
<1>3. AllAcked => AllAcked'
  BY AllAckedKept DEF FInv
<1> QED BY <1>1, <1>2, <1>3 DEF FInv, FinAfterAcks

\* The invariant with FinAfterAcks holds of every behaviour.
LEMMA FinInvariance ==
  ASSUME FinAcknoIsItsOwn
  PROVE  Spec => []FInv
<1>1. Init => FInv
  BY InitWindow DEF Init, FInv, FinAfterAcks
<1>2. FInv /\ [Next]_vars => FInv'
  BY NextFin
<1> QED BY <1>1, <1>2, PTL DEF Spec

-----------------------------------------------------------------------------
\* What the abstract specification sees as acknowledged, now and next.
LEMMA AckedSet ==
  ASSUME IInv, IInv'
  PROVE  /\ Acked = {Seqno(k) : k \in {j \in DataIdx : AckedIn(timers, j)}}
         /\ Acked' = {Seqno(k) : k \in {j \in DataIdx : AckedIn(timers', j)}}
<1>1. \A k \in DataIdx : packetACKd(k) <=> AckedIn(timers, k)
  BY AckedAt DEF IInv, Facts, TypeOK
<1>2. \A k \in DataIdx : packetACKd(k)' <=> AckedIn(timers', k)
  BY AckedAt DEF IInv, Facts, TypeOK
<1> QED BY <1>1, <1>2 DEF Acked

\* A step acknowledges only what is stored, and keeps what was acknowledged.
LEMMA AckedGrows ==
  ASSUME FInv, FInv', [Next]_vars, FinAcknoIsItsOwn
  PROVE  /\ Acked \subseteq Acked'
         /\ Acked' \subseteq stored'
         /\ Acked' \subseteq {Seqno(k) : k \in DataIdx}
         /\ receiver = "written" => Acked = {Seqno(k) : k \in DataIdx}
<1>1. \A k \in DataIdx : AckedIn(timers, k) => AckedIn(timers', k)
  BY AckedKept DEF FInv, WInv
<1>2. IInv /\ IInv'
  BY DEF FInv, WInv
<1>3. Acked' \subseteq stored'
  BY <1>2 DEF IInv, Facts, AckedIsStored, Acked
<1>4. receiver = "written" => \A k \in DataIdx : AckedIn(timers, k)
  BY DEF FInv, FinAfterAcks, AllAcked
<1> QED BY <1>1, <1>2, <1>3, <1>4, AckedSet

\* The initial states are those of the abstract specification.
LEMMA InitImplements == Init => Delivery!Init
<1> SUFFICES ASSUME Init PROVE Delivery!Init
  OBVIOUS
<1>1. stored = {} /\ receiver = "open" /\ pc = "syn"
  BY DEF Init, SenderInit
<1>2. Acked = {}
  <2>1. AckedIsStored
    BY InitInvariant DEF IInv, Facts
  <2> QED BY <1>1, <2>1 DEF AckedIsStored, Acked
<1> QED BY <1>1, <1>2 DEF Delivery!Init

\* A step of the sender acknowledges, or reports success, or does neither.
LEMMA SenderImplements ==
  ASSUME FInv, FInv', [Next]_vars, FinAcknoIsItsOwn, UNCHANGED <<stored, receiver>>,
         pc = "success" => pc' = "success"
  PROVE  [Delivery!Next]_Delivery!deliveryVars
<1> DEFINE D == {Seqno(k) : k \in DataIdx}
<1>1. /\ Acked \subseteq Acked' /\ Acked' \subseteq stored' /\ Acked' \subseteq D
      /\ receiver = "written" => Acked = D
  BY AckedGrows
<1>2. CASE (pc = "success") <=> (pc' = "success")
  <2>1. (pc = "success") = (pc' = "success") /\ (receiver = "written") = (receiver' = "written")
    BY <1>2
  <2>2. Acked' = Acked \cup Acked' /\ Acked' \subseteq stored
    BY <1>1
  <2>3. Delivery!Acknowledge(Acked')
    BY <2>1, <2>2 DEF Delivery!Acknowledge
  <2>4. Acked' \in SUBSET D
    BY <1>1
  <2> QED BY <2>3, <2>4 DEF Delivery!Next
<1>3. CASE pc # "success" /\ pc' = "success"
  <2>1. receiver = "written"
    BY <1>3 DEF FInv, WInv, IInv, Facts, SuccessMeansWritten
  <2>2. Acked' = Acked
    BY <1>1, <2>1
  <2>3. Delivery!Succeed
    BY <1>3, <2>1, <2>2 DEF Delivery!Succeed
  <2> QED BY <2>3 DEF Delivery!Next
<1> QED BY <1>2, <1>3

\* A step of the receiver stores, or writes, or does neither.
LEMMA ReceiverImplements ==
  ASSUME FInv, FInv', FinAcknoIsItsOwn, Receiver
  PROVE  [Delivery!Next]_Delivery!deliveryVars
<1>1. UNCHANGED <<pc, timers>> /\ receiver = "open"
  BY DEF Receiver, ReceiveDat, ReceiveSyn, ReceiveFin, Answer, senderVars
<1>2. Acked' = Acked /\ (pc = "success") = (pc' = "success")
  BY <1>1 DEF Acked, packetACKd
<1>3. ASSUME NEW k \in DataIdx, ReceiveDat(k)
      PROVE  Delivery!Next
  <2>1. stored' = stored \cup {Seqno(k)} /\ receiver' # "written"
    BY <1>3 DEF ReceiveDat
  <2>2. Delivery!Store({Seqno(k)})
    BY <1>1, <1>2, <2>1 DEF Delivery!Store
  <2>3. {Seqno(k)} \in SUBSET {Seqno(j) : j \in DataIdx}
    OBVIOUS
  <2> QED BY <2>2, <2>3 DEF Delivery!Next
<1>4. CASE ReceiveSyn
  <2>1. stored' = stored /\ (receiver = "written") = (receiver' = "written")
    BY <1>1, <1>4 DEF ReceiveSyn
  <2> QED BY <1>2, <2>1 DEF Delivery!deliveryVars
<1>5. CASE ReceiveFin
  <2>1. FinPacket \in toReceiver /\ receiver' = "written" /\ stored' = stored
    BY <1>5 DEF ReceiveFin, Answer
  <2>2. \A k \in DataIdx : AckedIn(timers, k)
    BY <2>1 DEF FInv, FinAfterAcks, AllAcked
  <2>3. Acked = {Seqno(k) : k \in DataIdx}
    BY <2>2, AckedSet DEF FInv, WInv
  <2>4. Delivery!Write
    BY <1>2, <2>1, <2>3 DEF Delivery!Write
  <2> QED BY <2>4 DEF Delivery!Next
<1> QED BY <1>3, <1>4, <1>5 DEF Receiver

\* The transfer keeps the promise of module RdpDelivery, unless full payloads
\* make up the file.
THEOREM Implementation ==
  ASSUME LastLength # MAX_PAYLOAD_SIZE
  PROVE  Spec => ImplementsDelivery
<1>1. FinAcknoIsItsOwn
  BY FinAcknoCollides
<1>2. Init => Delivery!Init
  BY InitImplements
<1>3. FInv /\ FInv' /\ [Next]_vars => [Delivery!Next]_Delivery!deliveryVars
  <2>1. SUFFICES ASSUME FInv, FInv', [Next]_vars
                 PROVE  [Delivery!Next]_Delivery!deliveryVars
    OBVIOUS
  <2>2. CASE Receiver
    BY <1>1, <2>1, <2>2, ReceiverImplements
  <2>3. CASE Sender \/ UNCHANGED vars
    <3>1. UNCHANGED <<stored, receiver>>
      BY <2>3, SenderSteps DEF InSender, vars
    <3>2. pc = "success" => pc' = "success"
      BY <2>3, SenderSteps
      DEF InSender, vars, senderVars, SenderReceives, SenderMoves, SynAcked, ReceiveAck,
          FinWaitAck, Poll, poll_timers, SendSyn, SynRetry, FillSend, FillSkip, FillDone,
          Filling, ReceiveNothing, UpdateAdvance, UpdateSkip, UpdateDone,
          resend_timedoutPackets, SendFin, NotAllAcked, FinWaitNothing, CheckClock
    <3> QED BY <1>1, <2>1, <3>1, <3>2, SenderImplements
  <2> QED BY <2>1, <2>2, <2>3 DEF Next
<1>4. Spec => []FInv
  BY <1>1, FinInvariance
<1> QED BY <1>2, <1>3, <1>4, PTL DEF Spec, ImplementsDelivery, Delivery!Spec
=============================================================================
