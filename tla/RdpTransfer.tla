---------------------------- MODULE RdpTransfer -----------------------------
(***************************************************************************)
(* One file transfer: the sender rdps, the UDP path, and of the receiver   *)
(* rdpr what the transfer depends on: which sequence numbers its list      *)
(* data_packets holds, and whether the program still runs.                 *)
(***************************************************************************)
EXTENDS RdpSender

VARIABLES
  stored,     \* sequence numbers of the packets in the receiver's data_packets
  receiver    \* "open", "written" (broke out of its loop), "timeout"

vars == <<senderVars, toReceiver, toSender, stored, receiver>>

-----------------------------------------------------------------------------
Init ==
  /\ SenderInit
  /\ toReceiver = {}
  /\ toSender = {}
  /\ stored = {}
  /\ receiver = "open"

(***************************************************************************)
(* rdpr's main: a DAT is stored and acknowledged, a SYN acknowledged; then *)
(* the clock is read.  A FIN is acknowledged, and the program leaves the   *)
(* loop, writes the file and ends: it answers nothing after that.          *)
(***************************************************************************)
Answer(pckt) ==
  /\ receiver = "open"
  /\ pckt \in toReceiver
  /\ toReceiver' \in AfterReceive(toReceiver, pckt)
  /\ toSender' \in AfterSend(toSender, {AckFor(pckt)})
  /\ UNCHANGED senderVars

\* Fault: the packet is stored when the clock was read.
ReceiveDat_AckedFirst(k) ==
  /\ Answer(DataPacket(k))
  /\ receiver' \in {"open", "timeout"}
  /\ stored' = IF receiver' = "open" THEN stored \cup {Seqno(k)} ELSE stored

ReceiveDat(k) ==
  /\ Answer(DataPacket(k))
  /\ stored' = stored \cup {Seqno(k)}
  /\ receiver' \in {"open", "timeout"}

ReceiveSyn ==
  /\ Answer(SynPacket)
  /\ receiver' \in {"open", "timeout"}
  /\ UNCHANGED stored

ReceiveFin ==
  /\ Answer(FinPacket)
  /\ receiver' = "written"
  /\ UNCHANGED stored

-----------------------------------------------------------------------------
InSender(step) == step /\ UNCHANGED <<stored, receiver>>

\* SenderReceives, SenderMoves and Poll, step by step.
Sender ==
  \/ \E pckt \in toSender : SynAcked(pckt) /\ UNCHANGED <<stored, receiver>>
  \/ \E pckt \in toSender : ReceiveAck(pckt) /\ UNCHANGED <<stored, receiver>>
  \/ \E pckt \in toSender : FinWaitAck(pckt) /\ UNCHANGED <<stored, receiver>>
  \/ SendSyn                /\ UNCHANGED <<stored, receiver>>
  \/ SynRetry               /\ UNCHANGED <<stored, receiver>>
  \/ FillSend               /\ UNCHANGED <<stored, receiver>>
  \/ FillSkip               /\ UNCHANGED <<stored, receiver>>
  \/ FillDone               /\ UNCHANGED <<stored, receiver>>
  \/ ReceiveNothing         /\ UNCHANGED <<stored, receiver>>
  \/ UpdateAdvance          /\ UNCHANGED <<stored, receiver>>
  \/ UpdateSkip             /\ UNCHANGED <<stored, receiver>>
  \/ UpdateDone             /\ UNCHANGED <<stored, receiver>>
  \/ resend_timedoutPackets /\ UNCHANGED <<stored, receiver>>
  \/ SendFin                /\ UNCHANGED <<stored, receiver>>
  \/ NotAllAcked            /\ UNCHANGED <<stored, receiver>>
  \/ FinWaitNothing         /\ UNCHANGED <<stored, receiver>>
  \/ CheckClock             /\ UNCHANGED <<stored, receiver>>
  \/ Poll                   /\ UNCHANGED <<stored, receiver>>

Receiver == (\E k \in DataIdx : ReceiveDat(k)) \/ ReceiveSyn \/ ReceiveFin

Next == Sender \/ Receiver

Spec == Init /\ [][Next]_vars

(***************************************************************************)
(* Fairness.  Both programs keep running, and CPU time passes, so that a   *)
(* running timer is found late at last.  The path loses datagrams, but not *)
(* every copy of one sent again and again, and delivers what it holds.     *)
(* No program has to time out.                                             *)
(***************************************************************************)
KeepsPolling ==
  \A k \in DataIdx :
    WF_vars(InSender(\E late \in SUBSET CanBeLate : k \in late /\ poll_timers(late)))

PathIsFair ==
  /\ SF_vars(InSender(SynRetry) /\ SynPacket \in toReceiver')
  /\ SF_vars(ReceiveSyn /\ AckFor(SynPacket) \in toSender')
  /\ SF_vars(InSender(\E pckt \in toSender : SynAcked(pckt)))
  /\ \A k \in DataIdx :
       /\ SF_vars(InSender(resend_timedoutPackets) /\ DataPacket(k) \in toReceiver')
       /\ SF_vars(ReceiveDat(k) /\ AckFor(DataPacket(k)) \in toSender')
       /\ SF_vars(InSender(ReceiveAck(AckFor(DataPacket(k)))))
  /\ SF_vars(InSender(SendFin) /\ FinPacket \in toReceiver')
  /\ WF_vars(ReceiveFin)

FairSpec == Spec /\ WF_vars(InSender(SenderMoves)) /\ KeepsPolling /\ PathIsFair

-----------------------------------------------------------------------------
(***************************************************************************)
(* Type correctness, with the shape of the timer list: the timer of data   *)
(* packet k is at index k, then come the SYN's and those of the FINs; and  *)
(* only a timer that find_timer can return is ever running.                *)
(***************************************************************************)
InPlace(list) ==
  /\ Len(list) >= NumPackets
  /\ \A t \in DOMAIN list :
       /\ t \in DataIdx       => list[t].pckt_ackno = Ackno(t)
       /\ t = NumPackets + 1  => list[t].pckt_ackno = SynPacket.ackno
       /\ t > NumPackets + 1  => list[t].pckt_ackno = FinPacket.ackno
  /\ \A t \in DOMAIN list :
       list[t].running => t = find_timer(list, list[t].pckt_ackno)

TypeOK ==
  /\ pc \in Ended \cup {"syn", "synwait", "fill0", "receive", "update", "fill",
                        "resend", "check", "finwait", "clock"}
  /\ i \in 1 .. NumPackets + 1
  /\ timers \in Seq(Timers)
  /\ InPlace(timers)
  /\ pc = "syn" <=> Len(timers) = NumPackets
  /\ base_seqno \in {0} \cup {Seqno(k) : k \in DataIdx}
  /\ occupied \in Int
  /\ toReceiver \subseteq ToReceiverPackets
  /\ toSender \subseteq ToSenderPackets
  /\ stored \subseteq {Seqno(k) : k \in DataIdx}
  /\ receiver \in {"open", "written", "timeout"}

Sent(k) == timers[k].sent

\* The receiver has every data packet.
AllStored == \A k \in DataIdx : Seqno(k) \in stored

(***************************************************************************)
(* Safety: what the sender takes for acknowledged is in the receiver's     *)
(* list, whatever was lost, sent again, duplicated or delivered late.      *)
(***************************************************************************)
AckedIsStored == \A k \in DataIdx : packetACKd(k) => Seqno(k) \in stored

(***************************************************************************)
(* The receiver writes its file on the first FIN, without looking at what  *)
(* it holds: no FIN may reach it before every data packet has.             *)
(***************************************************************************)
WrittenIsComplete == receiver = "written" => AllStored

(***************************************************************************)
(* terminate(0) after "FIN ACK RECEIVED" means that the receiver took the  *)
(* FIN, if the FIN's ackno is no data packet's: it is the last one's when  *)
(* full payloads make up the file.                                         *)
(***************************************************************************)
FinAcknoIsItsOwn == \A k \in DataIdx : Ackno(k) # FinPacket.ackno

SuccessMeansWritten == pc = "success" => receiver = "written"

(***************************************************************************)
(* Nothing in flight is ahead of the facts: an ACK of a data packet is of  *)
(* one that is stored, a FIN follows the storing of every packet, and an   *)
(* ACK of the FIN the end of the receiver.                                 *)
(***************************************************************************)
PathTellsTheTruth ==
  /\ \A k \in DataIdx : AckFor(DataPacket(k)) \in toSender => Seqno(k) \in stored
  /\ FinPacket \in toReceiver => AllStored
  /\ FinAcknoIsItsOwn /\ AckFor(FinPacket) \in toSender => receiver = "written"

(***************************************************************************)
(* No ACK, however late or often it arrives, makes stop_timer exit, and no *)
(* expired timer makes resend_timedoutPackets index past data_packets or   *)
(* send a packet other than the timer's own.                               *)
(***************************************************************************)
NeverAborts == pc # "abort"

ResendsTheExpired ==
  \A t \in Expired : \A k \in DataIdx : Ackno(k) = timers[t].pckt_ackno => k = t

(***************************************************************************)
(* fill_window cannot starve the packet at the window's base: whenever it  *)
(* has run, that packet was sent, so that its timer or its ACK will move   *)
(* the window.  It rests on occupied leaving room for the new base each    *)
(* time update_windowBase advances.                                        *)
(***************************************************************************)
BaseIsSent ==
  pc \in {"receive", "resend", "check", "finwait", "clock"} =>
    \A k \in DataIdx : Seqno(k) = base_seqno => Sent(k)

(***************************************************************************)
(* Flow control: although occupied also counts packets sent again, and is  *)
(* reduced by the length of another packet than the one that left, what is *)
(* sent and not acknowledged is never more than a window apart: from the   *)
(* oldest such packet to the newest their payloads fit the window.         *)
(***************************************************************************)
Outstanding == {k \in DataIdx : Sent(k) /\ ~packetACKd(k)}

FlightFitsWindow ==
  \A j, k \in Outstanding : MAX_PAYLOAD_SIZE * (k - j + 1) <= WINDOW_SIZE

(***************************************************************************)
(* The window slides correctly: everything before its base is acknowledged *)
(* and nothing beyond its end was sent.                                    *)
(***************************************************************************)
WindowIsSlid ==
  \A k \in DataIdx :
    /\ Seqno(k) < base_seqno => packetACKd(k)
    /\ Sent(k) => InWindow(k) \/ Seqno(k) < base_seqno

(***************************************************************************)
(* An acknowledged packet stays acknowledged, and the window's base never  *)
(* moves back: the premise of sliding at all.                              *)
(***************************************************************************)
AcksAreFinal ==
  [][/\ \A k \in DataIdx : packetACKd(k) => packetACKd(k)'
     /\ base_seqno' >= base_seqno]_vars

(***************************************************************************)
(* A packet that poll_timers found late once is sent again once: when      *)
(* resend_timedoutPackets has run, no data packet is left to send again,   *)
(* and no step but a poll, which does nothing else, adds one.              *)
(***************************************************************************)
LateData == Expired \cap DataIdx

ResendsOnce ==
  [][/\ pc = "resend" /\ pc' # "resend" => LateData' = {}
     /\ LateData' \subseteq LateData \/ UNCHANGED <<pc, i, toReceiver, toSender>>]_vars

-----------------------------------------------------------------------------
(***************************************************************************)
(* The transfer implements the promise of module RdpDelivery.              *)
(***************************************************************************)
Acked == {Seqno(k) : k \in {j \in DataIdx : packetACKd(j)}}

Delivery == INSTANCE RdpDelivery WITH
  Data    <- {Seqno(k) : k \in DataIdx},
  acked   <- Acked,
  written <- receiver = "written",
  success <- pc = "success"

ImplementsDelivery == Delivery!Spec

-----------------------------------------------------------------------------
GaveUp == pc = "timeout" \/ receiver = "timeout"

(***************************************************************************)
(* Liveness: unless a program times out, every data packet is stored and   *)
(* acknowledged, and the receiver gets its FIN and writes the file.        *)
(***************************************************************************)
FileIsWritten == <>(receiver = "written" \/ GaveUp)

-----------------------------------------------------------------------------
(***************************************************************************)
(* What the code says of itself and does not keep.                         *)
(***************************************************************************)

(***************************************************************************)
(* "wait for FIN's ACK" (rdps.c:364): when it is received, the transfer    *)
(* ends with "FIN ACK RECEIVED".  handle_packet at the top of the main     *)
(* loop takes it for the ACK of a data packet.                             *)
(***************************************************************************)
FinAckEndsTransfer ==
  [][\A pckt \in toSender :
       FinAcked(pckt) /\ (ReceiveAck(pckt) \/ FinWaitAck(pckt)) => pc' = "success"]_vars

(***************************************************************************)
(* "Sender and receiver ultimate time out" (timer.h:11): the receiver ends *)
(* at last.  Fairness here is that CPU time passes for it: of the packets  *)
(* it receives again and again, one is handled after RECEIVER_TIMEOUT_S.   *)
(***************************************************************************)
TimelySpec == FairSpec /\ SF_vars(Receiver /\ receiver' # "open")

ReceiverEnds == <>(receiver # "open")
=============================================================================
