--------------------------- MODULE PacketsOnWire ----------------------------
(***************************************************************************)
(* The packets of packetize as datagrams: what the receiver takes out of   *)
(* each, for every content of the file.                                    *)
(***************************************************************************)
EXTENDS Packetize, WireFormat

DAT == 0
ACK == 1

\* What a character is for the two functions.
Kinds == {"semicolon", "nul", "other"}

Cell(kind, b) == IF kind = "semicolon" THEN SEP ELSE IF kind = "nul" THEN NUL ELSE Byte(b)

(***************************************************************************)
(* The two bytes of payload_length: the low one is NUL for 0 and for       *)
(* MAX_PAYLOAD_SIZE, of any kind for another length (59 is a semicolon);   *)
(* the high one of a shorter length is at most 3.                          *)
(***************************************************************************)
LengthKinds(payload_length) ==
  (IF payload_length \in {0, payload_size} THEN {"nul"} ELSE Kinds) \X {"nul", "other"}

(***************************************************************************)
(* A data packet whose payload has characters of these kinds, Junk cells   *)
(* included, and the header's other fields.                                *)
(***************************************************************************)
DataOnWire(pckt, kinds, lengthkinds) ==
  [type           |-> DAT,
   seqno          |-> pckt.seqno,
   ackno          |-> pckt.ackno,
   winsize        |-> 10 * payload_size,
   payload        |-> [c \in 1 .. payload_size |-> Cell(kinds[c - 1], pckt.payload[c - 1])],
   payload_length |-> pckt.payload_length,
   length_bytes   |-> [d \in 1 .. 2 |-> Cell(lengthkinds[d], pckt.payload_length)]]

(***************************************************************************)
(* create_packet leaves pckt_data of an ACK without a value and copies it  *)
(* all the same: its payload is whatever that points to.                   *)
(***************************************************************************)
AckOnWire(pckt, kinds) ==
  [DataOnWire(pckt, kinds, <<"nul", "nul">>) EXCEPT
     !.type = ACK, !.seqno = pckt.ackno, !.ackno = pckt.ackno + 1, !.payload_length = 0]

Contents == [0 .. payload_size - 1 -> Kinds]

\* What a data packet may hold: a Junk cell is of any kind.
DataContents(pckt) ==
  {kinds \in Contents :
     \A c \in 0 .. payload_size - 1 :
       pckt.payload[c] # Junk => (kinds[c] = "nul" <=> pckt.payload[c] \in nuls)}

Arrived(pckt) == deconstruct_string(construct_string(pckt))

-----------------------------------------------------------------------------
(***************************************************************************)
(* The fields that the protocol runs on come through whatever is in the    *)
(* payload, semicolons and the junk of an ACK included: they are before    *)
(* it in the string, and cutting it at semicolons cannot shift them.       *)
(***************************************************************************)
SameHeader(p, q) ==
  /\ p.magic = <<MAGIC_HDR>>
  /\ p.type = q.type /\ p.seqno = q.seqno /\ p.ackno = q.ackno /\ p.winsize = q.winsize

HeaderSurvivesPayload ==
  done => \A k \in DOMAIN data_packets :
    /\ \A kinds \in Contents :
         LET ack == AckOnWire(data_packets[k], kinds)
         IN  SameHeader(Arrived(ack), ack)
    /\ \A kinds \in DataContents(data_packets[k]) :
         \A lengthkinds \in LengthKinds(data_packets[k].payload_length) :
           LET dat == DataOnWire(data_packets[k], kinds, lengthkinds)
           IN  SameHeader(Arrived(dat), dat)

(***************************************************************************)
(* Of a payload exactly what is before its first semicolon or NUL arrives, *)
(* one that fills its array included.  Its length arrives when neither a   *)
(* semicolon of the payload is taken for the end of the field, nor, after  *)
(* an array with no NUL, the one that a short length has for its low byte. *)
(***************************************************************************)
ArrivesAsText(pckt, kinds) ==
  \A c \in 1 .. payload_size :
    (\A d \in 0 .. c - 1 : kinds[d] = "other") <=>
      /\ c <= Len(Arrived(pckt).payload)
      /\ Arrived(pckt).payload[c] = pckt.payload[c]

PayloadArrivesToSemicolon ==
  done => \A k \in DOMAIN data_packets : \A kinds \in DataContents(data_packets[k]) :
    \A lengthkinds \in LengthKinds(data_packets[k].payload_length) :
      LET pckt == DataOnWire(data_packets[k], kinds, lengthkinds)
      IN  /\ ArrivesAsText(pckt, kinds)
          /\ Range(kinds) \cup Range(lengthkinds) \subseteq {"nul", "other"} =>
               Arrived(pckt).payload_length = pckt.payload_length
=============================================================================
