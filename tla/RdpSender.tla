----------------------------- MODULE RdpSender ------------------------------
(***************************************************************************)
(* The sending program, rdps.c: initiate_transfer with the functions it    *)
(* calls, and the thread poll_timers.  pc is where initiate_transfer is:   *)
(*                                                                         *)
(*   syn        about to send the SYN                                      *)
(*   synwait    waiting for the SYN's ACK                                  *)
(*   fill0      in the fill_window before the main loop                    *)
(*   receive    top of the main loop, waiting for a packet                 *)
(*   update     in update_windowBase                                       *)
(*   fill       in the main loop's fill_window                             *)
(*   resend     about to call resend_timedoutPackets                       *)
(*   check      about to call allPacketsAcknowledged                       *)
(*   finwait    FIN sent, waiting for its ACK                              *)
(*   clock      about to compare clock() with SENDER_TIMEOUT_S             *)
(*                                                                         *)
(* and, when the program has ended: success for terminate(0), timeout for  *)
(* terminate(-2), abort for an exit(-1) or a fault.  Both loops over       *)
(* data_packets use the index i, here 1 outside them.                      *)
(*                                                                         *)
(* The thread takes timers_mutex around each poll, the main thread around  *)
(* each use of the timer list, so a step of one is atomic for the other.   *)
(***************************************************************************)
EXTENDS RdpPackets, RdpTimers, RdpNetwork

CONSTANT MAX_TIMERS   \* timers the model's list may hold (timer.h: 50000)

ASSUME TimersAssumption == MAX_TIMERS \in Nat /\ MAX_TIMERS >= NumPackets + 2

VARIABLES
  pc,           \* where initiate_transfer is
  i,            \* index into data_packets of fill_window, update_windowBase
  timers,       \* timer_list
  base_seqno,   \* window->base_seqno
  occupied      \* window->occupied

senderVars == <<pc, i, timers, base_seqno, occupied>>

Ended == {"success", "timeout", "abort"}

-----------------------------------------------------------------------------
\* DAT timers are created before the SYN is sent, with time_sent -1.
DataTimers == [k \in DataIdx |-> create_timer(Ackno(k), FALSE)]

SenderInit ==
  /\ pc = "syn"
  /\ i = 1
  /\ timers = DataTimers
  /\ base_seqno = 0
  /\ occupied = 0

\* Fault: a packet that was never sent counts as acknowledged.
packetACKd_Unsent(k) == ~timers[find_timer(timers, Ackno(k))].running

packetACKd(k) ==
  LET timer == timers[find_timer(timers, Ackno(k))]
  IN  ~timer.running /\ timer.sent

\* Fault: the packet made after the loop of packetize is forgotten.
allPacketsAcknowledged_NotLast == \A k \in 1 .. FullPackets : packetACKd(k)

allPacketsAcknowledged == \A k \in DataIdx : packetACKd(k)

-----------------------------------------------------------------------------
SendSyn ==
  /\ pc = "syn"
  /\ toReceiver' \in AfterSend(toReceiver, {SynPacket})
  /\ timers' = start_timer(add_timer(timers, create_timer(SynPacket.ackno, TRUE)),
                           SynPacket.ackno)
  /\ pc' = "synwait"
  /\ UNCHANGED <<i, base_seqno, occupied, toSender>>

\* Any ACK is taken for the SYN's.  The window is set up next.
SynAcked(pckt) ==
  /\ pc = "synwait"
  /\ pckt \in toSender
  /\ toSender' \in AfterReceive(toSender, pckt)
  /\ timers' = stop_timer(timers, SynPacket.ackno)
  /\ base_seqno' = Seqno(1)
  /\ occupied' = 0
  /\ pc' = "fill0"
  /\ UNCHANGED <<i, toReceiver>>

\* The receive timed out: the SYN is sent again, then the clock is read.
SynRetry ==
  /\ pc = "synwait"
  /\ toReceiver' \in AfterSend(toReceiver, {SynPacket})
  /\ pc' \in {"synwait", "timeout"}
  /\ UNCHANGED <<i, timers, base_seqno, occupied, toSender>>

-----------------------------------------------------------------------------
(***************************************************************************)
(* fill_window sends every packet that the window covers and that is not   *)
(* acknowledged, whether it was sent before or not, until occupied says    *)
(* that the window is full.                                                *)
(***************************************************************************)
Filling == pc \in {"fill0", "fill"}

\* Fault: the base is taken for the last packet acknowledged.
InWindow_AfterBase(k) == Seqno(k) > base_seqno /\ Seqno(k) <= base_seqno + WINDOW_SIZE

InWindow(k) == Seqno(k) >= base_seqno /\ Seqno(k) <= base_seqno + WINDOW_SIZE

\* Fault: acknowledged packets are sent again.
ToSend_Acked(k) == InWindow(k)

ToSend(k) == InWindow(k) /\ ~packetACKd(k)

\* Fault: a full window takes one more packet.
HasRoom_OneMore == occupied <= WINDOW_SIZE

HasRoom == occupied < WINDOW_SIZE

FillSend ==
  /\ Filling /\ i \in DataIdx /\ HasRoom
  /\ ToSend(i)
  /\ toReceiver' \in AfterSend(toReceiver, {DataPacket(i)})
  /\ timers' = start_timer(timers, Ackno(i))
  /\ occupied' = occupied + PayloadLength(i)
  /\ i' = i + 1
  /\ UNCHANGED <<pc, base_seqno, toSender>>

FillSkip ==
  /\ Filling /\ i \in DataIdx /\ HasRoom
  /\ ~ToSend(i)
  /\ i' = i + 1
  /\ UNCHANGED <<pc, timers, base_seqno, occupied, toReceiver, toSender>>

FillDone ==
  /\ Filling
  /\ i \notin DataIdx \/ ~HasRoom
  /\ i' = 1
  /\ pc' = IF pc = "fill0" THEN "receive" ELSE "resend"
  /\ UNCHANGED <<timers, base_seqno, occupied, toReceiver, toSender>>

-----------------------------------------------------------------------------
(***************************************************************************)
(* handle_packet of an ACK: stop_timer ends the program when no timer has  *)
(* this number, and otherwise it goes on at next.                          *)
(***************************************************************************)
handle_packet(pckt, next) ==
  IF find_timer(timers, pckt.seqno) = NULL
  THEN pc' = "abort" /\ UNCHANGED timers
  ELSE pc' = next /\ timers' = stop_timer(timers, pckt.seqno)

ReceiveAck(pckt) ==
  /\ pc = "receive"
  /\ pckt \in toSender
  /\ toSender' \in AfterReceive(toSender, pckt)
  /\ handle_packet(pckt, "update")
  /\ UNCHANGED <<i, base_seqno, occupied, toReceiver>>

ReceiveNothing ==
  /\ pc = "receive"
  /\ pc' = "update"
  /\ UNCHANGED <<i, timers, base_seqno, occupied, toReceiver, toSender>>

-----------------------------------------------------------------------------
(***************************************************************************)
(* update_windowBase moves the base past acknowledged packets, several in  *)
(* one call if need be, but never past the last packet.  It takes the      *)
(* length of the new base, not of the old one, off occupied.               *)
(***************************************************************************)
\* Fault: the base moves on without an ACK.
BaseAcked_Unasked == Seqno(i) = base_seqno /\ i + 1 \in DataIdx

BaseAcked == Seqno(i) = base_seqno /\ packetACKd(i) /\ i + 1 \in DataIdx

UpdateAdvance ==
  /\ pc = "update" /\ i \in DataIdx
  /\ BaseAcked
  /\ base_seqno' = Seqno(i + 1)
  /\ occupied' = occupied - PayloadLength(i + 1)
  /\ i' = i + 1
  /\ UNCHANGED <<pc, timers, toReceiver, toSender>>

UpdateSkip ==
  /\ pc = "update" /\ i \in DataIdx
  /\ ~BaseAcked
  /\ i' = i + 1
  /\ UNCHANGED <<pc, timers, base_seqno, occupied, toReceiver, toSender>>

UpdateDone ==
  /\ pc = "update" /\ i \notin DataIdx
  /\ i' = 1
  /\ pc' = "fill"
  /\ UNCHANGED <<timers, base_seqno, occupied, toReceiver, toSender>>

-----------------------------------------------------------------------------
(***************************************************************************)
(* resend_timedoutPackets: when timer t has expired and some data packet   *)
(* has its ackno, it sends the data packet with the TIMER's index t, and   *)
(* restarts that packet's timer.  An index past the data packets is a NULL *)
(* entry of data_packets.                                                  *)
(***************************************************************************)
\* Fault: only timers that were stopped count.
Expired_Stopped == {t \in DOMAIN timers : timers[t].timedout /\ ~timers[t].running}

Expired == {t \in DOMAIN timers : timers[t].timedout /\ timers[t].running}

Resends == {t \in Expired : \E k \in DataIdx : Ackno(k) = timers[t].pckt_ackno}

resend_timedoutPackets ==
  /\ pc = "resend"
  /\ LET sent      == Resends \cap DataIdx
         restarts  == {find_timer(timers, Ackno(k)) : k \in sent}
     IN  /\ toReceiver' \in AfterSend(toReceiver, {DataPacket(k) : k \in sent})
         /\ timers' = [t \in DOMAIN timers |->
                         IF t \in restarts THEN restarted(timers[t]) ELSE timers[t]]
  /\ pc' = IF Resends \subseteq DataIdx THEN "check" ELSE "abort"
  /\ UNCHANGED <<i, base_seqno, occupied, toSender>>

-----------------------------------------------------------------------------
(***************************************************************************)
(* Every FIN gets a timer of its own at the end of the list, which only    *)
(* the first of them can be found in.  MAX_TIMERS bounds the list here: a  *)
(* timer that could not be found is not recorded beyond it.                *)
(***************************************************************************)
SendFin ==
  /\ pc = "check"
  /\ allPacketsAcknowledged
  /\ toReceiver' \in AfterSend(toReceiver, {FinPacket})
  /\ LET list == IF Len(timers) < MAX_TIMERS
                 THEN add_timer(timers, create_timer(FinPacket.ackno, TRUE))
                 ELSE timers
     IN  timers' = start_timer(list, FinPacket.ackno)
  /\ pc' = "finwait"
  /\ UNCHANGED <<i, base_seqno, occupied, toSender>>

NotAllAcked ==
  /\ pc = "check"
  /\ ~allPacketsAcknowledged
  /\ pc' = "clock"
  /\ UNCHANGED <<i, timers, base_seqno, occupied, toReceiver, toSender>>

\* Fault: any ACK is taken for the FIN's.
FinAcked_Any(pckt) == pckt.type = "ACK"

FinAcked(pckt) == pckt.seqno = FinPacket.ackno

\* The one receive after a FIN: only here does the FIN's ACK end the transfer.
FinWaitAck(pckt) ==
  /\ pc = "finwait"
  /\ pckt \in toSender
  /\ toSender' \in AfterReceive(toSender, pckt)
  /\ handle_packet(pckt, IF FinAcked(pckt) THEN "success" ELSE "clock")
  /\ UNCHANGED <<i, base_seqno, occupied, toReceiver>>

FinWaitNothing ==
  /\ pc = "finwait"
  /\ pc' = "clock"
  /\ UNCHANGED <<i, timers, base_seqno, occupied, toReceiver, toSender>>

\* clock() is CPU time: nothing in the program says when it reaches 300 s.
CheckClock ==
  /\ pc = "clock"
  /\ pc' \in {"receive", "timeout"}
  /\ UNCHANGED <<i, timers, base_seqno, occupied, toReceiver, toSender>>

-----------------------------------------------------------------------------
(***************************************************************************)
(* One round of the thread: the timers with an index in late are found     *)
(* late.  clock() is read again for each of them.                          *)
(***************************************************************************)
CanBeLate == {t \in DOMAIN timers : timed_out(timers, t)}

expired(timer) == [timer EXCEPT !.timedout = TRUE]

poll_timers(late) ==
  /\ pc \notin Ended
  /\ late \subseteq CanBeLate
  /\ timers' = [t \in DOMAIN timers |->
                  IF t \in late THEN expired(timers[t]) ELSE timers[t]]
  /\ UNCHANGED <<pc, i, base_seqno, occupied, toReceiver, toSender>>

Poll == \E late \in SUBSET CanBeLate : poll_timers(late)

-----------------------------------------------------------------------------
SenderReceives ==
  \E pckt \in toSender : SynAcked(pckt) \/ ReceiveAck(pckt) \/ FinWaitAck(pckt)

SenderMoves ==
  \/ SendSyn \/ SynRetry
  \/ FillSend \/ FillSkip \/ FillDone
  \/ ReceiveNothing
  \/ UpdateAdvance \/ UpdateSkip \/ UpdateDone
  \/ resend_timedoutPackets
  \/ SendFin \/ NotAllAcked \/ FinWaitNothing
  \/ CheckClock
=============================================================================
