----------------------------- MODULE Packetize ------------------------------
(***************************************************************************)
(* packetize (rdps.c) with the part of main that calls it: a file of any   *)
(* length up to MaxLength is cut into packets for any payload size up to   *)
(* MaxPayload, one step for each round of the loop over the bytes.         *)
(*                                                                         *)
(* A byte of the file is its index in data; which of the bytes are NUL is  *)
(* chosen with the file.  A cell of a buffer that was not written since    *)
(* malloc is Junk: it may be NUL or not.                                   *)
(***************************************************************************)
EXTENDS Integers, Sequences, FiniteSets

CONSTANTS
  MaxLength, MaxPayload,
  MaxNuls,       \* bytes of the file that are NUL
  FLT_INTEGERS   \* a float's significand holds no more than this (2^24)

\* A number with no odd divisor but 1.
PowerOfTwo(n) == n > 0 /\ \A d \in 2 .. n : n % d = 0 => d % 2 = 0

ASSUME BoundsAssumption ==
  /\ MaxLength \in Nat \ {0}
  /\ MaxPayload \in Nat \ {0}
  /\ MaxNuls \in Nat
  /\ FLT_INTEGERS \in Nat \ {0, 1} /\ PowerOfTwo(FLT_INTEGERS)

VARIABLES
  file_length,    \* bytes in data: main reads them all
  nuls,           \* those of them that are NUL
  payload_size,   \* MAX_PAYLOAD_SIZE
  data_packets,   \* the packets made so far
  current_byte,   \* index into data
  bytes_read,     \* index into pckt_data
  pckt_data,      \* bytes meant for a packet
  done            \* packetize has returned

vars == <<file_length, nuls, payload_size, data_packets, current_byte,
          bytes_read, pckt_data, done>>

Junk == -1

-----------------------------------------------------------------------------
(***************************************************************************)
(* pckt_data is malloc'ed with eight times the size asked for.  One cell   *)
(* more than payload_size is written; the one after it stands for all that *)
(* follow, and is taken to end a string that gets there.                   *)
(***************************************************************************)
malloc == [c \in 0 .. payload_size + 1 |-> Junk]

\* Where the string in a buffer may end: at its first NUL.
StringEnds(buffer) ==
  {e \in DOMAIN buffer : /\ buffer[e] \in nuls \cup {Junk}
                         /\ \A c \in 0 .. e - 1 : buffer[c] \notin nuls}

\* Fault: a string is copied without its NUL.
create_packet_NoNul(buffer, end, data_length, seqno) ==
  [seqno          |-> seqno,
   ackno          |-> seqno + data_length,
   payload_length |-> data_length,
   payload        |-> [c \in 0 .. payload_size - 1 |->
                         IF c < end THEN buffer[c] ELSE Junk]]

(***************************************************************************)
(* strcpy copies a string with its NUL, whatever data_length says: what is *)
(* after it in the payload is left as malloc gave it.  A string longer     *)
(* than the payload goes on into payload_length, which is set afterwards.  *)
(***************************************************************************)
create_packet(buffer, end, data_length, seqno) ==
  [seqno          |-> seqno,
   ackno          |-> seqno + data_length,
   payload_length |-> data_length,
   payload        |-> [c \in 0 .. payload_size - 1 |->
                         IF c <= end THEN buffer[c] ELSE Junk]]

(***************************************************************************)
(* The float nearest to n, the even one of two: a multiple of the unit, a  *)
(* power of two, that leaves as much of n as a significand holds.          *)
(***************************************************************************)
ToFloat(n) ==
  LET unit == CHOOSE u \in 1 .. n :
                PowerOfTwo(u) /\ n < u * FLT_INTEGERS /\ (u = 1 \/ 2 * n >= u * FLT_INTEGERS)
      down == n \div unit
      rest == 2 * (n % unit)
  IN  unit * IF rest > unit \/ (rest = unit /\ down % 2 = 1) THEN down + 1 ELSE down

\* Fault: the quotient is rounded down.
num_packets_Floor == ToFloat(file_length) \div payload_size

(***************************************************************************)
(* The entries that main allocates for packets: one more is for the NULL.  *)
(* The float of file_length is divided and rounded up; the division is by  *)
(* a power of two in the code, and exact.                                  *)
(***************************************************************************)
num_packets == (ToFloat(file_length) + payload_size - 1) \div payload_size

Init ==
  /\ file_length \in 1 .. MaxLength
  /\ nuls \in {S \in SUBSET (0 .. file_length - 1) : Cardinality(S) <= MaxNuls}
  /\ payload_size \in 1 .. MaxPayload
  /\ data_packets = <<>>
  /\ current_byte = 0
  /\ bytes_read = 0
  /\ pckt_data = malloc
  /\ done = FALSE

WithByte == [pckt_data EXCEPT ![bytes_read] = current_byte]

\* Faults: the packet is cut when its last byte is in, or one byte too late.
BufferIsFull_Before == bytes_read + 1 = payload_size
BufferIsFull_After  == bytes_read > payload_size

BufferIsFull == bytes_read = payload_size

ReadByte ==
  /\ current_byte < file_length
  /\ ~BufferIsFull
  /\ pckt_data' = WithByte
  /\ bytes_read' = bytes_read + 1
  /\ current_byte' = current_byte + 1
  /\ UNCHANGED <<file_length, nuls, payload_size, data_packets, done>>

\* bytes_read is reset, and then counts the byte that was just read.
CutPacket ==
  /\ current_byte < file_length
  /\ BufferIsFull
  /\ \E end \in StringEnds(WithByte) :
       data_packets' = Append(data_packets, create_packet(WithByte, end, bytes_read,
                                                          current_byte - bytes_read + 1))
  /\ pckt_data' = malloc
  /\ bytes_read' = 1
  /\ current_byte' = current_byte + 1
  /\ UNCHANGED <<file_length, nuls, payload_size, done>>

LastPacket ==
  /\ current_byte >= file_length
  /\ ~done
  /\ \E end \in StringEnds(pckt_data) :
       data_packets' = Append(data_packets,
                              create_packet(pckt_data, end, bytes_read, current_byte))
  /\ done' = TRUE
  /\ UNCHANGED <<file_length, nuls, payload_size, current_byte, bytes_read, pckt_data>>

Next == ReadByte \/ CutPacket \/ LastPacket

Spec == Init /\ [][Next]_vars

-----------------------------------------------------------------------------
Sizes == INSTANCE RdpPackets WITH
  MAX_PAYLOAD_SIZE <- payload_size,
  WINDOW_SIZE      <- payload_size

TypeOK ==
  /\ bytes_read \in 0 .. payload_size
  /\ current_byte \in 0 .. file_length
  /\ nuls \subseteq 0 .. file_length - 1
  /\ pckt_data \in [0 .. payload_size + 1 -> {Junk} \cup 0 .. file_length - 1]
  /\ done \in BOOLEAN
  /\ \A k \in DOMAIN data_packets :
       data_packets[k].payload \in [0 .. payload_size - 1 -> {Junk} \cup 0 .. file_length - 1]

(***************************************************************************)
(* The loop makes the packets that module RdpPackets has by formula, the   *)
(* last one with the seqno and length of the code after the loop: the      *)
(* other modules stand on these numbers.                                   *)
(***************************************************************************)
MakesTheNumbers ==
  done =>
    /\ Len(data_packets) = Sizes!NumPackets
    /\ \A k \in DOMAIN data_packets :
         LET pckt == data_packets[k]
         IN  /\ pckt.seqno = Sizes!DataPacket(k).seqno
             /\ pckt.ackno = Sizes!DataPacket(k).ackno
             /\ pckt.payload_length = Sizes!DataPacket(k).payload_length

(***************************************************************************)
(* Every function that walks data_packets stops at its NULL entry: the     *)
(* array that main allocates must have one left, and no more than one.     *)
(* That holds as long as floats count the bytes of the file: a length of   *)
(* more bits may be rounded to less than its packets.                      *)
(***************************************************************************)
RoomForNull ==
  file_length <= FLT_INTEGERS =>
    /\ Len(data_packets) <= num_packets
    /\ done => Len(data_packets) = num_packets

(***************************************************************************)
(* What a payload holds of the file is in its place: cell c of packet k is *)
(* byte c of the k-th stretch of payload_size bytes, or Junk.  Of the      *)
(* stretch it holds what was put into the buffer, up to the first NUL, no  *)
(* less and no more.  The first byte of a stretch after the first was not: *)
(* it was read one round too late for the packet before.  Its cell is      *)
(* Junk, and if that is NUL the packet holds nothing at all.               *)
(***************************************************************************)
Stretch(k) == (payload_size * (k - 1) .. payload_size * k - 1) \cap (0 .. file_length - 1)

Buffered(k) == Stretch(k) \ (IF k = 1 THEN {} ELSE {payload_size * (k - 1)})

ToNul(k) == {b \in Buffered(k) : \A d \in Buffered(k) \cap nuls : b <= d}

Held(k) == {data_packets[k].payload[c] : c \in 0 .. payload_size - 1} \ {Junk}

HoldsStretchToNul ==
  \A k \in DOMAIN data_packets :
    /\ \A c \in 0 .. payload_size - 1 :
         data_packets[k].payload[c] \in {Junk, payload_size * (k - 1) + c}
    /\ Held(k) = ToNul(k) \/ (k > 1 /\ Held(k) = {})

(***************************************************************************)
(* What packetize is for: "Move bytes from data buffer into pckt_data and  *)
(* create packets", that is, every byte of the file is in a packet.        *)
(***************************************************************************)
EveryByteIsPacked ==
  done => 0 .. file_length - 1 \subseteq UNION {Held(k) : k \in DOMAIN data_packets}
=============================================================================
