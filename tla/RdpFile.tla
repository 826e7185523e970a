------------------------------ MODULE RdpFile -------------------------------
(***************************************************************************)
(* What the receiving program has, and what its list and its file promise. *)
(* stage says how far the program is:                                      *)
(*                                                                         *)
(*   open      in main's loop                                              *)
(*   writing   broke out of the loop on a FIN                              *)
(*   written   write_file is done, the program has ended                   *)
(*   failed    write_file could not open the file: exit(-1)                *)
(*   timeout   terminate(-2)                                               *)
(***************************************************************************)
EXTENDS RdpPacketList

VARIABLES
  stage,
  data_packets,   \* the packets received
  file            \* the payloads written to the file, by their seqno

(***************************************************************************)
(* The file that write_file leaves has the payload of every packet of the  *)
(* sender's file, in whatever order they came and however often.           *)
(***************************************************************************)
FileHasEveryPayload ==
  stage = "written" => \A k \in DataIdx : Contains(file, Seqno(k))

(***************************************************************************)
(* The packets are in the file in the order of their arrival, and the      *)
(* window bounds how far that is from their order in the sender's file: a  *)
(* packet is not there before the first copy of one that its window had to *)
(* slide past.                                                             *)
(***************************************************************************)
OvertakesWithinWindow ==
  \A n \in DOMAIN data_packets : \A k \in DataIdx :
    Seqno(k) + WINDOW_SIZE < data_packets[n].seqno =>
      \E m \in 1 .. n - 1 : data_packets[m].seqno = Seqno(k)
=============================================================================
