--------------------------- MODULE RdpPacketList ----------------------------
(***************************************************************************)
(* The receiver's array data_packets as a list: add_packet (packet.c),     *)
(* store_dataPacket (rdpr.c) and what write_file takes out of it.  A       *)
(* packet is what RdpPackets has of it, without its payload.               *)
(***************************************************************************)
EXTENDS RdpPackets, SequencesExt

\* Fault: the last entry is overwritten.
add_packet_OverLast(pckt, list) ==
  IF list = <<>> THEN <<pckt>> ELSE [list EXCEPT ![Len(list)] = pckt]

add_packet(pckt, list) == Append(list, pckt)

\* The packet goes where its seqno is, or to the end of the list.
store_dataPacket(pckt, list) ==
  LET Same(p) == p.seqno = pckt.seqno
      same    == SelectInSeq(list, Same)
  IN  IF same = 0 THEN Append(list, pckt) ELSE [list EXCEPT ![same] = pckt]

\* Faults: the last entry of the list is left out; the acknos are written.
payloads_NotLast(list) == [n \in 1 .. Len(list) - 1 |-> list[n].seqno]
payloads_Ackno(list)   == [n \in DOMAIN list |-> list[n].ackno]

\* A payload is known by its packet's seqno.
payloads(list) == [n \in DOMAIN list |-> list[n].seqno]
=============================================================================
