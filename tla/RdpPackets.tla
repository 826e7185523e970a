----------------------------- MODULE RdpPackets -----------------------------
(***************************************************************************)
(* The packets of one RDP transfer: what create_packet (packet.c) makes    *)
(* of a type, a length and a sequence number, and which data packets       *)
(* packetize (rdps.c) leaves in data_packets for a file of file_length     *)
(* bytes.  Data packets are numbered from 1, data_packets[i-1] in C.       *)
(*                                                                         *)
(* The payload is not in the packet here: no step of either program looks  *)
(* at it, and module Packetize says what it holds.                         *)
(***************************************************************************)
EXTENDS Integers

CONSTANTS
  file_length,        \* bytes of the file the sender transfers
  MAX_PAYLOAD_SIZE,   \* payload bytes of a full data packet (packet.h: 1024)
  WINDOW_SIZE         \* window->size, in bytes (packet.h: 1024*10)

(***************************************************************************)
(* The window of packet.h is a whole number of full payloads.  An empty    *)
(* file is left out: its one packet takes the place of the NULL that ends  *)
(* data_packets.                                                           *)
(***************************************************************************)
ASSUME SizesAssumption ==
  /\ file_length \in Nat \ {0}
  /\ MAX_PAYLOAD_SIZE \in Nat \ {0}
  /\ WINDOW_SIZE \in Nat
  /\ \E k \in 1 .. WINDOW_SIZE : WINDOW_SIZE = MAX_PAYLOAD_SIZE * k

(***************************************************************************)
(* A SYN, ACK, FIN or RST takes one sequence number, a DAT as many as its  *)
(* length.                                                                 *)
(***************************************************************************)
create_packet(data_length, type, seqno) ==
  [type           |-> type,
   seqno          |-> seqno,
   ackno          |-> seqno + (IF type = "DAT" THEN data_length ELSE 1),
   payload_length |-> data_length]

-----------------------------------------------------------------------------
(***************************************************************************)
(* packetize: the loop makes FullPackets packets of MAX_PAYLOAD_SIZE       *)
(* bytes, the code after it one more of the 1..MAX_PAYLOAD_SIZE bytes that *)
(* are left.  The last packet's seqno is current_byte, the file's length.  *)
(***************************************************************************)
FullPackets == (file_length - 1) \div MAX_PAYLOAD_SIZE
NumPackets  == FullPackets + 1
DataIdx     == 1 .. NumPackets

LastLength == file_length - MAX_PAYLOAD_SIZE * FullPackets

PayloadLength(i) == IF i <= FullPackets THEN MAX_PAYLOAD_SIZE ELSE LastLength

Seqno(i) == IF i <= FullPackets
            THEN MAX_PAYLOAD_SIZE * (i - 1) + 1
            ELSE file_length

DataPacket(i) == create_packet(PayloadLength(i), "DAT", Seqno(i))
Ackno(i)      == DataPacket(i).ackno

first_seqno == 0
SynPacket   == create_packet(0, "SYN", first_seqno)

last_ackno == file_length + MAX_PAYLOAD_SIZE - 1
FinPacket  == create_packet(0, "FIN", last_ackno)

\* Fault: the number of the packet itself.
AckFor_Seqno(pckt) == create_packet(0, "ACK", pckt.seqno)

\* The receiver's answer to pckt: its ackno, in the seqno field of an ACK.
AckFor(pckt) == create_packet(0, "ACK", pckt.ackno)

ToReceiverPackets == {SynPacket, FinPacket} \cup {DataPacket(i) : i \in DataIdx}
ToSenderPackets   == {AckFor(p) : p \in ToReceiverPackets}
=============================================================================
