----------------------------- MODULE RdpReceiver ----------------------------
(***************************************************************************)
(* The receiving program, rdpr.c: main's loop with the functions it calls, *)
(* and write_file after it.  Its sender sends no RST, so that main's       *)
(* terminate(-1) is not here.                                              *)
(***************************************************************************)
EXTENDS RdpFile, RdpNetwork

CONSTANT MAX_PACKETS   \* packets the model's list may hold (packet.h: 50000)

ASSUME PacketsAssumption == MAX_PACKETS \in Nat /\ MAX_PACKETS >= NumPackets

receiverVars == <<stage, data_packets, file>>

ReceiverInit ==
  /\ stage = "open"
  /\ data_packets = <<>>
  /\ file = <<>>

-----------------------------------------------------------------------------
(***************************************************************************)
(* The handlers of the loop.  Each answers, and but for the FIN's reads    *)
(* the clock at the end.  A DAT is added to the list, and then stored in   *)
(* it: the second finds what the first has added.  MAX_PACKETS bounds the  *)
(* list, which the code does not.                                          *)
(***************************************************************************)
Answer(pckt) ==
  /\ stage = "open"
  /\ pckt \in toReceiver
  /\ toReceiver' \in AfterReceive(toReceiver, pckt)
  /\ toSender' \in AfterSend(toSender, {AckFor(pckt)})

ReceiveDat(k) ==
  /\ Answer(DataPacket(k))
  /\ Len(data_packets) < MAX_PACKETS
  /\ data_packets' = store_dataPacket(DataPacket(k), add_packet(DataPacket(k), data_packets))
  /\ stage' \in {"open", "timeout"}
  /\ UNCHANGED file

ReceiveSyn ==
  /\ Answer(SynPacket)
  /\ stage' \in {"open", "timeout"}
  /\ UNCHANGED <<data_packets, file>>

ReceiveFin ==
  /\ Answer(FinPacket)
  /\ stage' = "writing"
  /\ UNCHANGED <<data_packets, file>>

write_file ==
  /\ stage = "writing"
  /\ \/ /\ stage' = "written"
        /\ file' = payloads(data_packets)
     \/ stage' = "failed" /\ UNCHANGED file
  /\ UNCHANGED <<data_packets, toReceiver, toSender>>

ReceiverMoves ==
  (\E k \in DataIdx : ReceiveDat(k)) \/ ReceiveSyn \/ ReceiveFin \/ write_file
=============================================================================
