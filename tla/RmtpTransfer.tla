---------------------------- MODULE RmtpTransfer ----------------------------
(***************************************************************************)
(* The sample RMTP receiver with a sender that keeps the protocol.  The    *)
(* repository has only the template of that sender: its steps here are     *)
(* those of the assignment that the samples come with, and of what         *)
(* receiver.c says that it expects.  acked is a number of messages, not a  *)
(* sequence number; the path is that of module RdpNetwork.                 *)
(***************************************************************************)
EXTENDS RmtpReceiver

CONSTANTS
  Messages,        \* how many messages the file is
  InitialSeqnos    \* the numbers that the SYN may have

\* A packet's number is not used again while the packet can be in flight.
ASSUME MessagesAssumption ==
  /\ Messages \in Nat
  /\ InitialSeqnos \subseteq Seqnos
  /\ Messages + RMTP_MAXWIN + 2 <= SEQ_SPACE
  /\ 2 * RMTP_MAXWIN < SEQ_SPACE

VARIABLES
  sender,   \* its state, ERROR when no SYN was answered
  isn,      \* its initial sequence number
  acked     \* how many messages it knows to be received

senderVars == <<sender, isn, acked>>

vars == <<receiverVars, senderVars, toReceiver, toSender>>

\* Message n has the n-th number after the SYN's; the FIN comes after them.
Number(n) == Plus(isn, n)

Syn     == [type |-> "SYN", seqno |-> Number(0), data |-> Nothing]
Dat(n)  == [type |-> "DATA", seqno |-> Number(n), data |-> n]
Fin     == [type |-> "FIN", seqno |-> Number(Messages + 1), data |-> Nothing]
Rst     == [type |-> "RST", seqno |-> 0, data |-> Nothing]

-----------------------------------------------------------------------------
Init ==
  /\ ReceiverInit
  /\ sender = "SYN_SENT"
  /\ isn \in InitialSeqnos
  /\ acked = 0
  /\ toReceiver = {}
  /\ toSender = {}

Send(pkt) ==
  /\ toReceiver' \in AfterSend(toReceiver, {pkt})
  /\ UNCHANGED <<receiverVars, toSender>>

SendSyn ==
  /\ sender = "SYN_SENT"
  /\ Send(Syn)
  /\ UNCHANGED senderVars

GiveUp ==
  /\ sender = "SYN_SENT"
  /\ Send(Rst)
  /\ sender' = "ERROR"
  /\ UNCHANGED <<isn, acked>>

SendData(n) ==
  /\ sender = "ESTABLISHED"
  /\ n > acked /\ n <= acked + RMTP_MAXWIN
  /\ Send(Dat(n))
  /\ UNCHANGED senderVars

SendFin ==
  /\ sender \in {"ESTABLISHED", "FIN_WAIT"}
  /\ acked = Messages
  /\ Send(Fin)
  /\ sender' = "FIN_WAIT"
  /\ UNCHANGED <<isn, acked>>

GetAck(pkt) ==
  /\ pkt \in toSender
  /\ toSender' \in AfterReceive(toSender, pkt)
  /\ UNCHANGED <<receiverVars, isn, toReceiver>>

GetSynAck(pkt) ==
  /\ sender = "SYN_SENT" /\ pkt.seqno = Number(1)
  /\ GetAck(pkt)
  /\ sender' = "ESTABLISHED"
  /\ UNCHANGED acked

\* An ACK is for every message before its number.
GetDataAck(pkt) ==
  /\ sender = "ESTABLISHED"
  /\ \E k \in 1 .. RMTP_MAXWIN :
       /\ pkt.seqno = Number(acked + k + 1)
       /\ acked' = acked + k
  /\ GetAck(pkt)
  /\ UNCHANGED sender

GetFinAck(pkt) ==
  /\ sender = "FIN_WAIT" /\ pkt.seqno = Number(Messages + 2)
  /\ GetAck(pkt)
  /\ sender' = "CLOSED"
  /\ UNCHANGED acked

Sender ==
  \/ SendSyn \/ GiveUp \/ SendFin
  \/ \E n \in 1 .. Messages : SendData(n)
  \/ \E pkt \in toSender : GetSynAck(pkt) \/ GetDataAck(pkt) \/ GetFinAck(pkt)

\* One round of the loop in rmtp_receiver_run.
rmtp_recv(pkt) ==
  \/ ReceiveSyn(pkt) \/ Reset(pkt) \/ ReceiveFin(pkt)
  \/ ReceiveOutside(pkt) \/ ReceiveInOrder(pkt) \/ ReceiveEarly(pkt)

Receiver == (\E pkt \in toReceiver : rmtp_recv(pkt)) /\ UNCHANGED senderVars

Next == Sender \/ Receiver

Spec == Init /\ [][Next]_vars

-----------------------------------------------------------------------------
TypeOK ==
  /\ state \in {"LISTEN", "ESTABLISHED", "TIME_WAIT", "RESET"}
  /\ sender \in {"SYN_SENT", "ESTABLISHED", "FIN_WAIT", "CLOSED", "ERROR"}
  /\ NFE \in Seqnos
  /\ acked \in 0 .. Messages
  /\ \A s \in Slots : pkts[s].seqno \in Seqnos \cup {-1} /\ pkts[s].data \in 0 .. Messages

(***************************************************************************)
(* "RMTP ensures that messages are delivered in sequence" (receiver.c:49): *)
(* the output is the messages from the first on, each once and none left   *)
(* out, whatever the path does and also when numbers wrap.  Of a sender    *)
(* that has given up nothing is written, though its RST may be consumed.   *)
(***************************************************************************)
DeliveredInSequence ==
  \A k \in DOMAIN output : output[k] = IF sender = "ERROR" THEN Nothing ELSE k

(***************************************************************************)
(* A number stands for all messages before it: the sender counts none as   *)
(* received that was not consumed, and no ACK in flight makes it do so.    *)
(***************************************************************************)
AcksTellTheTruth ==
  sender # "ERROR" =>
    /\ acked <= Len(output)
    /\ state = "ESTABLISHED" => NFE = Number(Len(output) + 1)
    /\ \A pkt \in toSender : \E n \in 0 .. Len(output) :
         \/ pkt.seqno = Number(n + 1)
         \/ state = "TIME_WAIT" /\ pkt.seqno = Number(Messages + 2)

(***************************************************************************)
(* Twice the window is enough of a ring: what a valid slot holds is yet to *)
(* come and within the window, the next frame is never left in the ring,   *)
(* and two numbers of the window never meet in a slot.                     *)
(***************************************************************************)
RingIsAhead ==
  state = "ESTABLISHED" =>
    \A s \in Slots : pkts[s].valid =>
      \E k \in 1 .. RMTP_MAXWIN - 1 :
        /\ pkts[s].seqno = Plus(NFE, k)
        /\ s = Slot(pkts[s].seqno)
        /\ sender # "ERROR" => pkts[s].data = Len(output) + 1 + k

(***************************************************************************)
(* The sender's window is never ahead of the receiver's: no message that   *)
(* it may send, and that was not consumed, is turned away by its number,   *)
(* also where the numbers of the window wrap.                              *)
(***************************************************************************)
NothingNewIsTurnedAway ==
  state = "ESTABLISHED" /\ sender = "ESTABLISHED" =>
    \A n \in acked + 1 .. acked + RMTP_MAXWIN :
      n > Len(output) => InFeasibleWindow(Number(n))

(***************************************************************************)
(* The receiver calls nothing a protocol error that a sender which keeps   *)
(* the protocol does: late and repeated SYNs and FINs pass.  It resets for *)
(* the RST of a sender that has given up.                                  *)
(***************************************************************************)
ResetIsProvoked == state = "RESET" => sender = "ERROR"

(***************************************************************************)
(* The samples keep the promise that rdps and rdpr keep (RdpDelivery).     *)
(***************************************************************************)
Delivery == INSTANCE RdpDelivery WITH
  Data    <- 1 .. Messages,
  stored  <- {output[k] : k \in DOMAIN output} \ {Nothing},
  acked   <- 1 .. acked,
  written <- state = "TIME_WAIT",
  success <- sender = "CLOSED"

ImplementsDelivery == Delivery!Spec
=============================================================================
