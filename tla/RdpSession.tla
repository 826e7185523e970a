----------------------------- MODULE RdpSession -----------------------------
(***************************************************************************)
(* The two programs and the path between them, the receiver with the list  *)
(* of packets that it really keeps and the file that it makes of them.     *)
(***************************************************************************)
EXTENDS RdpSender, RdpReceiver

vars == <<senderVars, toReceiver, toSender, receiverVars>>

Init == SenderInit /\ ReceiverInit /\ toReceiver = {} /\ toSender = {}

Sender   == (SenderReceives \/ SenderMoves \/ Poll) /\ UNCHANGED receiverVars
Receiver == ReceiverMoves /\ UNCHANGED senderVars

Next == Sender \/ Receiver

Spec == Init /\ [][Next]_vars

-----------------------------------------------------------------------------
TypeOK ==
  /\ stage \in {"open", "writing", "written", "failed", "timeout"}
  /\ data_packets \in Seq({DataPacket(k) : k \in DataIdx})
  /\ file \in Seq({Seqno(k) : k \in DataIdx})

(***************************************************************************)
(* The session implements module RdpTransfer, whose receiver only knows    *)
(* the set of what it stored: appending every packet and overwriting the   *)
(* first copy of it comes to adding its seqno to the set.                  *)
(***************************************************************************)
Transfer == INSTANCE RdpTransfer WITH
  stored   <- {data_packets[n].seqno : n \in DOMAIN data_packets},
  receiver <- IF stage \in {"writing", "written", "failed"} THEN "written" ELSE stage

ImplementsTransfer == Transfer!Spec

(***************************************************************************)
(* "if packet has already been stored, ignore it" (store_dataPacket): no   *)
(* payload is in the file twice.                                           *)
(***************************************************************************)
NothingIsStoredTwice == IsInjective(file)
=============================================================================
