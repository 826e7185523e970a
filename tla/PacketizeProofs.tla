-------------------------- MODULE PacketizeProofs ---------------------------
(***************************************************************************)
(* What packetize makes of a file, for every file length and payload size: *)
(* the packets that RdpPackets has by formula, and which bytes they hold;  *)
(* and what arrives of these packets as strings, for every content.        *)
(***************************************************************************)
EXTENDS PacketsOnWire, FiniteSetTheorems, WellFoundedInduction, TLAPS

\* From one multiple to the next.
LEMMA NextMultiple ==
  ASSUME NEW p \in Nat, NEW a \in Int, NEW b \in Int, a < b
  PROVE  p * a + p <= p * b
<1>1. PICK e \in Nat : b = a + 1 + e
  BY SMT
<1>2. p * b = p * a + p + p * e
  BY <1>1, SMT
<1>3. p * e >= 0
  BY SMT
<1> QED BY <1>2, <1>3, SMT

\* Quotient and remainder by a positive number, and that there is one pair.
LEMMA Division ==
  ASSUME NEW p \in Nat, p > 0, NEW n \in Nat
  PROVE  /\ n \div p \in Nat
         /\ n % p \in 0 .. p - 1
         /\ n = p * (n \div p) + (n % p)
         /\ \A q \in Int : \A r \in 0 .. p - 1 :
              n = p * q + r => n \div p = q /\ n % p = r
<1> DEFINE d == n \div p
           m == n % p
<1>1. /\ d \in Int /\ m \in Int
      /\ n = p * d + m
      /\ 0 <= m /\ m < p
  BY Z3
<1> HIDE DEF d, m
<1>2. \A a, b \in Int : a < b => p * a + p <= p * b
  BY NextMultiple
<1>3. ASSUME NEW q \in Int, NEW r \in 0 .. p - 1, n = p * q + r
      PROVE  d = q /\ m = r
  <2>1. p * q \in Int /\ p * d \in Int
    BY <1>1, SMT
  <2>2. ~ (d < q)
    <3>1. d < q => p * d + p <= p * q
      BY <1>1, <1>2
    <3> QED BY <1>1, <1>3, <2>1, <3>1, SMT
  <2>3. ~ (q < d)
    <3>1. q < d => p * q + p <= p * d
      BY <1>1, <1>2
    <3> QED BY <1>1, <1>3, <2>1, <3>1, SMT
  <2>4. d = q
    BY <1>1, <2>2, <2>3, SMT
  <2> QED BY <1>1, <1>3, <2>1, <2>4, SMT
<1>4. d >= 0
  <2>1. SUFFICES ASSUME d < 0 PROVE FALSE
    BY <1>1, SMT
  <2>2. p * d + p <= p * 0
    BY <1>1, <1>2, <2>1
  <2>3. p * 0 = 0 /\ p * d \in Int
    BY <1>1, SMT
  <2> QED BY <1>1, <2>2, <2>3, SMT
<1> QED BY <1>1, <1>3, <1>4, SMT DEF d, m

-----------------------------------------------------------------------------
(***************************************************************************)
(* The invariant.  The bytes that were read are those of the packets made, *)
(* payload_size each, and those in the buffer.  A buffer that has n bytes  *)
(* and comes after m packets holds them all, but for the first one when m  *)
(* is not 0: CutPacket counted it and left the cell Junk.  A packet holds  *)
(* the string that such a buffer starts with.                              *)
(***************************************************************************)
Bytes == {Junk} \cup 0 .. file_length - 1

Packets == [seqno : Int, ackno : Int, payload_length : Int,
            payload : [0 .. payload_size - 1 -> Bytes]]

Place(m, n, c) == IF c < n /\ (c > 0 \/ m = 0) THEN payload_size * m + c ELSE Junk

Holds(m, n, buffer) == \A c \in 0 .. payload_size - 1 : buffer[c] = Place(m, n, c)

HoldsUpTo(m, n, end, payload) ==
  \A c \in 0 .. payload_size - 1 :
    /\ c < end => Place(m, n, c) \notin nuls
    /\ c = end => Place(m, n, c) \in nuls \cup {Junk}
    /\ payload[c] = IF c <= end THEN Place(m, n, c) ELSE Junk

Packed(m, n, payload) == \E end \in 0 .. payload_size + 1 : HoldsUpTo(m, n, end, payload)

Numbered(pckt, seqno, length) ==
  pckt.seqno = seqno /\ pckt.payload_length = length /\ pckt.ackno = seqno + length

WasCut(k) ==
  /\ Numbered(data_packets[k], payload_size * (k - 1) + 1, payload_size)
  /\ Packed(k - 1, payload_size, data_packets[k].payload)

Made == Len(data_packets)

Reading ==
  ~done =>
    /\ current_byte = payload_size * Made + bytes_read
    /\ Made > 0 => bytes_read > 0
    /\ Holds(Made, bytes_read, pckt_data)
    /\ \A k \in 1 .. Made : WasCut(k)

Finished ==
  done =>
    /\ Made > 0 /\ current_byte = file_length
    /\ \E r \in 1 .. payload_size :
         /\ file_length = payload_size * (Made - 1) + r
         /\ Numbered(data_packets[Made], file_length, r)
         /\ Packed(Made - 1, r, data_packets[Made].payload)
    /\ \A k \in 1 .. Made - 1 : WasCut(k)

PInv ==
  /\ file_length \in Nat \ {0}
  /\ payload_size \in Nat \ {0}
  /\ TypeOK
  /\ data_packets \in Seq(Packets)
  /\ Reading
  /\ Finished

\* The cells of a buffer: of those to the left of payload_size + 1 one is written.
LEMMA BufferFact ==
  ASSUME PInv
  PROVE  /\ malloc \in [0 .. payload_size + 1 -> Bytes]
         /\ \A c \in 0 .. payload_size + 1 : malloc[c] = Junk
         /\ current_byte < file_length =>
              /\ WithByte \in [0 .. payload_size + 1 -> Bytes]
              /\ \A c \in 0 .. payload_size + 1 :
                   WithByte[c] = IF c = bytes_read THEN current_byte ELSE pckt_data[c]
         /\ \A c \in 0 .. payload_size - 1 : c \in 0 .. payload_size + 1
<1>1. \A c \in 0 .. payload_size - 1 : c \in 0 .. payload_size + 1
  BY SMT DEF PInv
<1>2. /\ malloc \in [0 .. payload_size + 1 -> Bytes]
      /\ \A c \in 0 .. payload_size + 1 : malloc[c] = Junk
  BY DEF malloc, Bytes
<1>3. ASSUME current_byte < file_length
      PROVE  /\ WithByte \in [0 .. payload_size + 1 -> Bytes]
             /\ \A c \in 0 .. payload_size + 1 :
                  WithByte[c] = IF c = bytes_read THEN current_byte ELSE pckt_data[c]
  <2>1. current_byte \in Bytes
    BY <1>3, SMT DEF PInv, TypeOK, Bytes
  <2>2. pckt_data \in [0 .. payload_size + 1 -> Bytes]
    BY DEF PInv, TypeOK, Bytes
  <2> QED BY <2>1, <2>2 DEF WithByte
<1> QED BY <1>1, <1>2, <1>3

\* A packet made of a buffer has the string that the buffer starts with.
LEMMA CreateFact ==
  ASSUME PInv, NEW buffer \in [0 .. payload_size + 1 -> Bytes], NEW n \in Int, NEW s \in Int,
         NEW m, NEW r, Holds(m, r, buffer),
         NEW end \in StringEnds(buffer), NEW pckt, pckt = create_packet(buffer, end, n, s)
  PROVE  /\ pckt \in Packets
         /\ Numbered(pckt, s, n)
         /\ Packed(m, r, pckt.payload)
<1> DEFINE payload == [c \in 0 .. payload_size - 1 |-> IF c <= end THEN buffer[c] ELSE Junk]
<1>1. \A c \in 0 .. payload_size - 1 : buffer[c] \in Bytes
  BY BufferFact
<1>2. /\ payload \in [0 .. payload_size - 1 -> Bytes]
      /\ \A c \in 0 .. payload_size - 1 :
           payload[c] = IF c <= end THEN buffer[c] ELSE Junk
  BY <1>1 DEF Bytes
<1>3. s + n \in Int
  BY SMT
<1>4. pckt.payload = payload /\ pckt \in Packets /\ Numbered(pckt, s, n)
  BY <1>2, <1>3 DEF create_packet, Packets, Numbered
<1>5. /\ end \in 0 .. payload_size + 1
      /\ buffer[end] \in nuls \cup {Junk}
      /\ \A c \in 0 .. end - 1 : buffer[c] \notin nuls
  BY DEF StringEnds
<1>6. \A c \in 0 .. payload_size - 1 : c < end => c \in 0 .. end - 1
  BY <1>5, SMT DEF PInv
<1> HIDE DEF payload
<1>7. HoldsUpTo(m, r, end, payload)
  BY <1>2, <1>5, <1>6 DEF HoldsUpTo, Holds
<1> QED BY <1>4, <1>5, <1>7 DEF Packed

\* The packets are there after one more is made.
LEMMA AppendPacket ==
  ASSUME NEW list \in Seq(Packets), NEW pckt \in Packets
  PROVE  /\ Append(list, pckt) \in Seq(Packets)
         /\ Len(list) \in Nat
         /\ Len(Append(list, pckt)) = Len(list) + 1
         /\ \A k \in 1 .. Len(list) : Append(list, pckt)[k] = list[k]
         /\ Append(list, pckt)[Len(list) + 1] = pckt
  OBVIOUS
-----------------------------------------------------------------------------
\* What every step has to show of the packets it leaves alone.
LEMMA CutKept ==
  ASSUME NEW n \in Nat, UNCHANGED <<nuls, payload_size>>,
         \A k \in 1 .. n : data_packets'[k] = data_packets[k] /\ WasCut(k)
  PROVE  \A k \in 1 .. n : WasCut(k)'
BY DEF WasCut, Numbered, Packed, HoldsUpTo, Place

\* A packet is packed after the step that makes it as it was before.
LEMMA PackedKept ==
  ASSUME NEW m, NEW r, NEW payload, NEW k, UNCHANGED <<nuls, payload_size>>,
         Packed(m, r, payload), data_packets'[k].payload = payload
  PROVE  \E end \in 0 .. payload_size' + 1 :
           HoldsUpTo(m, r, end, data_packets[k].payload)'
<1>1. PICK end \in 0 .. payload_size + 1 : HoldsUpTo(m, r, end, payload)
  BY DEF Packed
<1>2. HoldsUpTo(m, r, end, data_packets[k].payload)'
  BY <1>1 DEF HoldsUpTo, Place
<1> QED BY <1>2

\* A byte goes into the buffer after those that were read before.
LEMMA ReadByteKeeps ==
  ASSUME PInv, ReadByte
  PROVE  PInv'
<1>1. /\ current_byte < file_length /\ bytes_read # payload_size
      /\ pckt_data' = WithByte
      /\ bytes_read' = bytes_read + 1 /\ current_byte' = current_byte + 1
      /\ UNCHANGED <<file_length, nuls, payload_size, data_packets, done>>
  BY DEF ReadByte, BufferIsFull
<1>2. /\ file_length \in Nat /\ payload_size \in Nat /\ payload_size > 0
      /\ bytes_read \in 0 .. payload_size /\ current_byte \in 0 .. file_length
      /\ data_packets \in Seq(Packets) /\ Made \in Nat
  BY SMT DEF PInv, TypeOK, Made
<1>3. /\ WithByte \in [0 .. payload_size + 1 -> Bytes]
      /\ \A c \in 0 .. payload_size + 1 :
           WithByte[c] = IF c = bytes_read THEN current_byte ELSE pckt_data[c]
      /\ \A c \in 0 .. payload_size - 1 : c \in 0 .. payload_size + 1
  BY <1>1, BufferFact
<1>4. ~done
  BY <1>1, <1>2, SMT DEF PInv, Finished
<1>5. /\ current_byte = payload_size * Made + bytes_read
      /\ Made > 0 => bytes_read > 0
      /\ Holds(Made, bytes_read, pckt_data)
      /\ \A k \in 1 .. Made : WasCut(k)
  BY <1>4 DEF PInv, Reading
<1>6. TypeOK'
  <2>1. bytes_read' \in 0 .. payload_size /\ current_byte' \in 0 .. file_length
    BY <1>1, <1>2, SMT
  <2> QED BY <1>1, <1>3, <2>1 DEF PInv, TypeOK, Bytes
<1>7. payload_size * Made \in Int
  BY <1>2, SMT
<1>8. Holds(Made, bytes_read + 1, WithByte)
  <2>1. ASSUME NEW c \in 0 .. payload_size - 1
        PROVE  WithByte[c] = Place(Made, bytes_read + 1, c)
    <3>1. CASE c = bytes_read
      <4>1. WithByte[c] = payload_size * Made + c
        BY <1>3, <1>5, <3>1
      <4>2. c < bytes_read + 1 /\ (c > 0 \/ Made = 0)
        BY <1>2, <1>5, <3>1, SMT
      <4> QED BY <4>1, <4>2 DEF Place
    <3>2. CASE c # bytes_read
      <4>1. WithByte[c] = pckt_data[c]
        BY <1>3, <3>2
      <4>2. c < bytes_read + 1 <=> c < bytes_read
        BY <1>2, <3>2, SMT
      <4> QED BY <1>5, <4>1, <4>2 DEF Holds, Place
    <3> QED BY <3>1, <3>2
  <2> QED BY <2>1 DEF Holds
<1>9. Reading'
  <2>1. current_byte + 1 = payload_size * Made + (bytes_read + 1) /\ bytes_read + 1 > 0
    BY <1>2, <1>5, <1>7, SMT
  <2>2. \A k \in 1 .. Made : WasCut(k)'
    BY <1>1, <1>2, <1>5, CutKept
  <2> QED BY <1>1, <1>5, <1>8, <2>1, <2>2 DEF Reading, Made, Holds, Place
<1>10. Finished'
  BY <1>1, <1>4 DEF Finished
<1> QED BY <1>1, <1>6, <1>9, <1>10 DEF PInv, Packets, Bytes

\* A full buffer becomes a packet, and the byte after it is counted only.
LEMMA CutPacketKeeps ==
  ASSUME PInv, CutPacket
  PROVE  PInv'
<1>0. PICK end \in StringEnds(WithByte) :
        data_packets' = Append(data_packets, create_packet(WithByte, end, bytes_read,
                                                           current_byte - bytes_read + 1))
  BY DEF CutPacket
<1> DEFINE pckt == create_packet(WithByte, end, bytes_read, current_byte - bytes_read + 1)
<1>1. /\ current_byte < file_length /\ bytes_read = payload_size
      /\ data_packets' = Append(data_packets, pckt)
      /\ pckt_data' = malloc
      /\ bytes_read' = 1 /\ current_byte' = current_byte + 1
      /\ UNCHANGED <<file_length, nuls, payload_size, done>>
  BY <1>0 DEF CutPacket, BufferIsFull
<1>2. /\ file_length \in Nat /\ payload_size \in Nat /\ payload_size > 0
      /\ current_byte \in 0 .. file_length
      /\ data_packets \in Seq(Packets) /\ Made \in Nat
  BY SMT DEF PInv, TypeOK, Made
<1>3. /\ WithByte \in [0 .. payload_size + 1 -> Bytes]
      /\ \A c \in 0 .. payload_size + 1 :
           WithByte[c] = IF c = bytes_read THEN current_byte ELSE pckt_data[c]
      /\ \A c \in 0 .. payload_size - 1 : c \in 0 .. payload_size + 1 /\ c # payload_size
      /\ malloc \in [0 .. payload_size + 1 -> Bytes]
      /\ \A c \in 0 .. payload_size + 1 : malloc[c] = Junk
  <2>1. \A c \in 0 .. payload_size - 1 : c # payload_size
    BY <1>2, SMT
  <2> QED BY <1>1, <2>1, BufferFact
<1>4. ~done
  BY <1>1, <1>2, SMT DEF PInv, Finished
<1>5. /\ current_byte = payload_size * Made + bytes_read
      /\ Holds(Made, bytes_read, pckt_data)
      /\ \A k \in 1 .. Made : WasCut(k)
  BY <1>4 DEF PInv, Reading
<1>6. payload_size * Made \in Int /\ payload_size * (Made + 1) = payload_size * Made + payload_size
  BY <1>2, SMT
<1>7. /\ pckt \in Packets
      /\ Numbered(pckt, payload_size * Made + 1, payload_size)
      /\ Packed(Made, payload_size, pckt.payload)
  <2>1. /\ bytes_read \in Int /\ current_byte - bytes_read + 1 \in Int
        /\ current_byte - bytes_read + 1 = payload_size * Made + 1
    BY <1>1, <1>2, <1>5, <1>6, SMT
  <2>2. Holds(Made, payload_size, WithByte)
    BY <1>1, <1>3, <1>5 DEF Holds
  <2> QED BY <1>0, <1>1, <1>3, <2>1, <2>2, CreateFact
<1> HIDE DEF pckt
<1>8. /\ data_packets' \in Seq(Packets)
      /\ Made' = Made + 1
      /\ \A k \in 1 .. Made : data_packets'[k] = data_packets[k]
      /\ data_packets'[Made + 1] = pckt
  BY <1>1, <1>2, <1>7, AppendPacket DEF Made
<1>9. TypeOK'
  <2>1. bytes_read' \in 0 .. payload_size /\ current_byte' \in 0 .. file_length
    BY <1>1, <1>2, SMT
  <2>2. \A k \in DOMAIN data_packets' : data_packets'[k] \in Packets
    BY <1>8, SMT
  <2> QED BY <1>1, <1>3, <2>1, <2>2 DEF PInv, TypeOK, Bytes, Packets
<1>10. PICK n \in Nat : n = Made
  BY <1>2
<1>11. WasCut(n + 1)'
  <2>1. PICK p \in Nat, q \in Packets : p = payload_size /\ q = pckt
    BY <1>2, <1>7
  <2>2. Packed(n, p, q.payload) /\ data_packets'[n + 1] = q
    BY <1>7, <1>8, <1>10, <2>1
  <2>3. PICK e \in 0 .. payload_size' + 1 :
          HoldsUpTo(n, p, e, data_packets[n + 1].payload)'
    BY <1>1, <2>2, PackedKept
  <2>4. (n + 1) - 1 = n /\ payload_size' = p
    BY <1>1, <1>10, <2>1, SMT
  <2>5. Packed((n + 1) - 1, payload_size, data_packets[n + 1].payload)'
    BY <2>3, <2>4 DEF Packed, HoldsUpTo, Place
  <2>6. Numbered(data_packets[n + 1], payload_size * ((n + 1) - 1) + 1, payload_size)'
    BY <1>1, <1>7, <1>10, <2>1, <2>2, <2>4 DEF Numbered
  <2> QED BY <2>5, <2>6 DEF WasCut
<1>12. \A k \in 1 .. n : WasCut(k)'
  BY <1>1, <1>5, <1>8, <1>10, CutKept
<1>13. Reading'
  <2>1. current_byte + 1 = payload_size * (n + 1) + 1 /\ 1 > 0
    BY <1>1, <1>2, <1>5, <1>6, <1>10, SMT
  <2>2. \A k \in 1 .. n + 1 : k \in 1 .. n \/ k = n + 1
    BY <1>10, SMT
  <2>3. Made' = n + 1
    BY <1>8, <1>10
  <2>4. \A k \in 1 .. Made' : WasCut(k)'
    BY <1>11, <1>12, <2>2, <2>3
  <2>5. Holds(n + 1, 1, malloc)
    <3>1. \A c \in 0 .. payload_size - 1 : ~ (c < 1 /\ (c > 0 \/ n + 1 = 0))
      BY <1>2, <1>10, SMT
    <3> QED BY <1>3, <3>1 DEF Holds, Place
  <2>6. Holds(Made, bytes_read, pckt_data)'
    BY <1>1, <2>3, <2>5 DEF Holds, Place
  <2> QED BY <1>1, <2>1, <2>3, <2>4, <2>6 DEF Reading
<1>14. Finished'
  BY <1>1, <1>4 DEF Finished
<1> QED BY <1>1, <1>8, <1>9, <1>13, <1>14 DEF PInv, Packets, Bytes

\* The code after the loop makes a packet of what the buffer has.
LEMMA LastPacketKeeps ==
  ASSUME PInv, LastPacket
  PROVE  PInv'
<1>0. PICK end \in StringEnds(pckt_data) :
        data_packets' = Append(data_packets,
                               create_packet(pckt_data, end, bytes_read, current_byte))
  BY DEF LastPacket
<1> DEFINE pckt == create_packet(pckt_data, end, bytes_read, current_byte)
<1>1. /\ current_byte >= file_length /\ ~done
      /\ data_packets' = Append(data_packets, pckt)
      /\ done' = TRUE
      /\ UNCHANGED <<file_length, nuls, payload_size, current_byte, bytes_read, pckt_data>>
  BY <1>0 DEF LastPacket
<1>2. /\ file_length \in Nat /\ file_length > 0 /\ payload_size \in Nat /\ payload_size > 0
      /\ current_byte = file_length /\ bytes_read \in 0 .. payload_size
      /\ data_packets \in Seq(Packets) /\ Made \in Nat
  BY <1>1, SMT DEF PInv, TypeOK, Made
<1>3. /\ current_byte = payload_size * Made + bytes_read
      /\ Made > 0 => bytes_read > 0
      /\ Holds(Made, bytes_read, pckt_data)
      /\ \A k \in 1 .. Made : WasCut(k)
  BY <1>1 DEF PInv, Reading
<1>4. bytes_read \in 1 .. payload_size
  <2>1. Made = 0 => current_byte = bytes_read
    BY <1>2, <1>3, SMT
  <2> QED BY <1>2, <1>3, <2>1, SMT
<1>5. pckt_data \in [0 .. payload_size + 1 -> Bytes]
  BY DEF PInv, TypeOK, Bytes
<1>6. /\ pckt \in Packets
      /\ Numbered(pckt, file_length, bytes_read)
      /\ Packed(Made, bytes_read, pckt.payload)
  <2>1. bytes_read \in Int /\ current_byte \in Int
    BY <1>2, SMT
  <2> QED BY <1>0, <1>2, <1>3, <1>5, <2>1, CreateFact
<1> HIDE DEF pckt
<1>7. /\ data_packets' \in Seq(Packets)
      /\ Made' = Made + 1
      /\ \A k \in 1 .. Made : data_packets'[k] = data_packets[k]
      /\ data_packets'[Made + 1] = pckt
  BY <1>1, <1>2, <1>6, AppendPacket DEF Made
<1>8. PICK n \in Nat : n = Made
  BY <1>2
<1>9. TypeOK'
  <2>1. \A k \in DOMAIN data_packets' : data_packets'[k] \in Packets
    BY <1>7, SMT
  <2> QED BY <1>1, <2>1 DEF PInv, TypeOK, Bytes, Packets
<1>10. Finished'
  <2>1. Made' = n + 1 /\ (n + 1) - 1 = n /\ n + 1 > 0
    BY <1>7, <1>8, SMT
  <2>2. \A k \in 1 .. n : WasCut(k)'
    BY <1>1, <1>3, <1>7, <1>8, CutKept
  <2>3. PICK r \in Nat, q \in Packets : r = bytes_read /\ q = pckt
    BY <1>2, <1>6, SMT
  <2>4. file_length = payload_size * n + bytes_read
    BY <1>2, <1>3, <1>8
  <2>5. data_packets'[n + 1] = pckt
    BY <1>7, <1>8
  <2>6. /\ r \in 1 .. payload_size'
        /\ file_length' = payload_size' * (Made' - 1) + r
        /\ Numbered(data_packets[Made], file_length, r)'
    BY <1>1, <1>4, <1>6, <2>1, <2>3, <2>4, <2>5 DEF Numbered
  <2>7. Packed(Made - 1, r, data_packets[Made].payload)'
    <3>1. Packed(n, r, q.payload) /\ data_packets'[n + 1].payload = q.payload
      BY <1>6, <1>8, <2>3, <2>5
    <3>2. PICK e \in 0 .. payload_size' + 1 :
            HoldsUpTo(n, r, e, data_packets[n + 1].payload)'
      BY <1>1, <3>1, PackedKept
    <3> QED BY <2>1, <3>2 DEF Packed, HoldsUpTo, Place
  <2>8. \A k \in 1 .. Made' - 1 : WasCut(k)'
    BY <2>1, <2>2
  <2> QED BY <1>1, <1>2, <2>1, <2>6, <2>7, <2>8 DEF Finished
<1>11. Reading'
  BY <1>1 DEF Reading
<1> QED BY <1>1, <1>7, <1>9, <1>10, <1>11 DEF PInv, Packets, Bytes

\* packetize starts with no packet and a buffer of Junk.
LEMMA InitPackets == Init => PInv
<1> SUFFICES ASSUME Init PROVE PInv
  OBVIOUS
<1>1. /\ file_length \in 1 .. MaxLength /\ nuls \subseteq 0 .. file_length - 1
      /\ payload_size \in 1 .. MaxPayload
      /\ data_packets = <<>> /\ current_byte = 0 /\ bytes_read = 0
      /\ pckt_data = malloc /\ done = FALSE
  BY DEF Init
<1>2. file_length \in Nat \ {0} /\ payload_size \in Nat \ {0}
  BY <1>1, BoundsAssumption, SMT DEF BoundsAssumption
<1>3. data_packets \in Seq(Packets) /\ Made = 0
  BY <1>1, SMT DEF Made
<1>4. /\ malloc \in [0 .. payload_size + 1 -> Bytes]
      /\ \A c \in 0 .. payload_size - 1 : malloc[c] = Junk
  <2>1. \A c \in 0 .. payload_size - 1 : c \in 0 .. payload_size + 1
    BY <1>2, SMT
  <2> QED BY <2>1 DEF malloc, Bytes
<1>5. TypeOK
  <2>1. bytes_read \in 0 .. payload_size /\ current_byte \in 0 .. file_length
    BY <1>1, <1>2, SMT
  <2>2. DOMAIN data_packets = {}
    BY <1>1, SMT
  <2> QED BY <1>1, <1>4, <2>1, <2>2 DEF TypeOK, Bytes
<1>6. Reading
  <2>1. current_byte = payload_size * Made + bytes_read /\ ~ (Made > 0)
    BY <1>1, <1>2, <1>3, SMT
  <2>2. \A c \in 0 .. payload_size - 1 : ~ (c < bytes_read)
    BY <1>1, SMT
  <2>3. 1 .. Made = {}
    BY <1>3, SMT
  <2> QED BY <1>1, <1>4, <2>1, <2>2, <2>3 DEF Reading, Holds, Place
<1>7. Finished
  BY <1>1 DEF Finished
<1> QED BY <1>2, <1>3, <1>5, <1>6, <1>7 DEF PInv

\* The invariant holds throughout packetize.
THEOREM PacketsInvariance == Spec => []PInv
<1>1. Init => PInv
  BY InitPackets
<1>2. PInv /\ [Next]_vars => PInv'
  <2>1. SUFFICES ASSUME PInv, [Next]_vars PROVE PInv'
    OBVIOUS
  <2>2. CASE UNCHANGED vars
    <3>1. UNCHANGED <<file_length, nuls, payload_size, data_packets, current_byte,
                      bytes_read, pckt_data, done>>
      BY <2>2 DEF vars
    <3>2. \A k : WasCut(k)' <=> WasCut(k)
      BY <3>1 DEF WasCut, Packed, HoldsUpTo, Place, Numbered
    <3>3. Reading'
      BY <2>1, <3>1, <3>2 DEF PInv, Reading, Made, Holds, Place
    <3>4. \A r : /\ Numbered(data_packets[Made], file_length, r)'
                   <=> Numbered(data_packets[Made], file_length, r)
                /\ Packed(Made - 1, r, data_packets[Made].payload)'
                   <=> Packed(Made - 1, r, data_packets[Made].payload)
      BY <3>1 DEF Packed, HoldsUpTo, Place, Numbered, Made
    <3>5. Finished'
      BY <2>1, <3>1, <3>2, <3>4 DEF PInv, Finished, Made
    <3> QED BY <2>1, <3>1, <3>3, <3>5 DEF PInv, TypeOK, Packets, Bytes
  <2> QED BY <2>1, <2>2, ReadByteKeeps, CutPacketKeeps, LastPacketKeeps DEF Next
<1> QED BY <1>1, <1>2, PTL DEF Spec

\* The indices and the buffer stay within their bounds.
THEOREM PacketizeTyped == Spec => []TypeOK
<1>1. PInv => TypeOK
  BY DEF PInv
<1> QED BY <1>1, PacketsInvariance, PTL
-----------------------------------------------------------------------------
\* The loop makes the packets that module RdpPackets has by formula.
THEOREM Numbers == Spec => []MakesTheNumbers
<1>1. PInv => MakesTheNumbers
  <2>1. SUFFICES ASSUME PInv, done PROVE MakesTheNumbers
    BY DEF MakesTheNumbers
  <2>2. /\ file_length \in Nat /\ file_length > 0
        /\ payload_size \in Nat /\ payload_size > 0 /\ Made \in Nat /\ Made > 0
        /\ DOMAIN data_packets = 1 .. Made
    BY <2>1, SMT DEF PInv, Made, Finished
  <2>3. PICK r \in 1 .. payload_size :
          /\ file_length = payload_size * (Made - 1) + r
          /\ Numbered(data_packets[Made], file_length, r)
    BY <2>1 DEF PInv, Finished
  <2>4. \A k \in 1 .. Made - 1 :
          Numbered(data_packets[k], payload_size * (k - 1) + 1, payload_size)
    BY <2>1 DEF PInv, Finished, WasCut
  <2>5. Sizes!FullPackets = Made - 1
    <3>1. /\ file_length - 1 \in Nat /\ Made - 1 \in Int /\ r - 1 \in 0 .. payload_size - 1
          /\ file_length - 1 = payload_size * (Made - 1) + (r - 1)
      <4>1. payload_size * (Made - 1) \in Int
        BY <2>2, SMT
      <4> QED BY <2>2, <2>3, <4>1, SMT
    <3>2. (file_length - 1) \div payload_size = Made - 1
      BY <2>2, <3>1, Division
    <3> QED BY <3>2 DEF Sizes!FullPackets
  <2>6. Sizes!NumPackets = Made /\ Sizes!LastLength = r
    <3>1. payload_size * (Made - 1) \in Int
      BY <2>2, SMT
    <3> QED BY <2>2, <2>3, <2>5, <3>1, SMT DEF Sizes!NumPackets, Sizes!LastLength
  <2>7. ASSUME NEW k \in 1 .. Made
        PROVE  Numbered(data_packets[k], Sizes!Seqno(k), Sizes!PayloadLength(k))
    <3>1. CASE k <= Made - 1
      <4>1. k \in 1 .. Made - 1
        BY <2>2, <3>1, SMT
      <4> QED BY <2>4, <2>5, <3>1, <4>1 DEF Sizes!Seqno, Sizes!PayloadLength
    <3>2. CASE ~ (k <= Made - 1)
      <4>1. k = Made
        BY <2>2, <3>2, SMT
      <4> QED BY <2>3, <2>5, <2>6, <3>2, <4>1 DEF Sizes!Seqno, Sizes!PayloadLength
    <3> QED BY <3>1, <3>2
  <2>8. \A k \in 1 .. Made :
          /\ Sizes!DataPacket(k).seqno = Sizes!Seqno(k)
          /\ Sizes!DataPacket(k).payload_length = Sizes!PayloadLength(k)
          /\ Sizes!DataPacket(k).ackno = Sizes!Seqno(k) + Sizes!PayloadLength(k)
    BY DEF Sizes!DataPacket, Sizes!create_packet
  <2> QED BY <2>2, <2>6, <2>7, <2>8 DEF MakesTheNumbers, Made, Numbered
<1> QED BY <1>1, PacketsInvariance, PTL

-----------------------------------------------------------------------------
\* A packet was made of a whole stretch, the last one of what the file has of it.
LEMMA Stretches ==
  ASSUME PInv, NEW k \in 1 .. Made
  PROVE  \E n \in 1 .. payload_size :
           /\ Packed(k - 1, n, data_packets[k].payload)
           /\ Stretch(k) = payload_size * (k - 1) .. payload_size * (k - 1) + n - 1
<1> DEFINE p == payload_size
<1>1. /\ p \in Nat /\ p > 0 /\ Made \in Nat /\ k \in Nat /\ k >= 1 /\ k <= Made
      /\ file_length \in Nat /\ bytes_read \in Nat /\ current_byte <= file_length
  BY SMT DEF PInv, TypeOK, Made
<1>2. /\ p * (k - 1) \in Nat /\ p * k = p * (k - 1) + p
      /\ p * Made \in Nat /\ p * (Made - 1) \in Int
  <2>1. p * (k - 1) >= 0
    BY <1>1, SMT
  <2> QED BY <1>1, <2>1, SMT
<1>3. ASSUME WasCut(k), p * k <= file_length
      PROVE  /\ Packed(k - 1, p, data_packets[k].payload)
             /\ Stretch(k) = p * (k - 1) .. p * (k - 1) + p - 1
  <2>1. (p * (k - 1) .. p * k - 1) \cap (0 .. file_length - 1)
          = p * (k - 1) .. p * (k - 1) + p - 1
    BY <1>1, <1>2, <1>3, SMT
  <2> QED BY <1>3, <2>1 DEF WasCut, Stretch
<1>4. CASE ~done
  <2>1. WasCut(k) /\ current_byte = p * Made + bytes_read
    BY <1>4 DEF PInv, Reading
  <2>2. p * k <= p * Made
    <3>1. CASE k = Made
      BY <1>1, <1>2, <3>1, SMT
    <3>2. CASE k < Made
      <4>1. p * k + p <= p * Made
        BY <1>1, <3>2, NextMultiple
      <4> QED BY <1>1, <1>2, <4>1, SMT
    <3> QED BY <1>1, <3>1, <3>2, SMT
  <2>3. p * k <= file_length
    BY <1>1, <1>2, <2>1, <2>2, SMT
  <2> QED BY <1>1, <1>3, <2>1, <2>3, SMT
<1>5. CASE done
  <2>1. PICK r \in 1 .. p :
          /\ file_length = p * (Made - 1) + r
          /\ Packed(Made - 1, r, data_packets[Made].payload)
    BY <1>5 DEF PInv, Finished
  <2>2. CASE k < Made
    <3>1. WasCut(k)
      <4>1. k \in 1 .. Made - 1
        BY <1>1, <2>2, SMT
      <4> QED BY <1>5, <4>1 DEF PInv, Finished
    <3>2. p * (k - 1) + p <= p * (Made - 1)
      <4>1. k - 1 \in Int /\ Made - 1 \in Int /\ k - 1 < Made - 1
        BY <1>1, <2>2, SMT
      <4> QED BY <1>1, <4>1, NextMultiple
    <3>3. p * k <= file_length
      BY <1>1, <1>2, <2>1, <3>2, SMT
    <3> QED BY <1>1, <1>3, <3>1, <3>3, SMT
  <2>3. CASE k = Made
    <3>1. file_length = p * (k - 1) + r /\ Packed(k - 1, r, data_packets[k].payload)
      BY <2>1, <2>3
    <3>2. (p * (k - 1) .. p * k - 1) \cap (0 .. file_length - 1)
            = p * (k - 1) .. p * (k - 1) + r - 1
      BY <1>1, <1>2, <3>1, SMT
    <3> QED BY <3>1, <3>2 DEF Stretch
  <2> QED BY <1>1, <2>2, <2>3, SMT
<1> QED BY <1>4, <1>5

\* Of each stretch a packet holds what is before the first NUL, and that NUL; a
\* packet after the first may hold nothing instead.
THEOREM PacketsHoldText == Spec => []HoldsStretchToNul
<1>1. PInv => HoldsStretchToNul
  <2> SUFFICES ASSUME PInv, NEW k \in DOMAIN data_packets
               PROVE  /\ \A c \in 0 .. payload_size - 1 :
                           data_packets[k].payload[c] \in {Junk, payload_size * (k - 1) + c}
                      /\ Held(k) = ToNul(k) \/ (k > 1 /\ Held(k) = {})
    BY DEF HoldsStretchToNul
  <2> DEFINE p    == payload_size
             m    == k - 1
             base == p * m
             payload == data_packets[k].payload
  <2>1. /\ p \in Nat /\ p > 0 /\ k \in 1 .. Made /\ k \in Nat /\ k >= 1
        /\ nuls \subseteq Nat
    <3>1. nuls \subseteq 0 .. file_length - 1
      BY DEF PInv, TypeOK
    <3> QED BY <3>1, SMT DEF PInv, Made
  <2>2. PICK n \in 1 .. p : /\ Packed(m, n, payload)
                            /\ Stretch(k) = base .. base + n - 1
    BY <2>1, Stretches
  <2>3. PICK end \in 0 .. p + 1 : HoldsUpTo(m, n, end, payload)
    BY <2>2 DEF Packed
  <2>4. /\ base \in Nat /\ m \in Nat /\ (m = 0 <=> k = 1) /\ (m # 0 <=> k > 1)
        /\ m = 0 => base = 0
    <3>1. p * (k - 1) >= 0
      BY <2>1, SMT
    <3>2. k - 1 = 0 => p * (k - 1) = 0
      BY <2>1, SMT
    <3> QED BY <2>1, <3>1, <3>2, SMT
  <2>5. Buffered(k) = (base .. base + n - 1) \ (IF m = 0 THEN {} ELSE {base})
    BY <2>2, <2>4 DEF Buffered
  <2>6. \A c \in 0 .. p - 1 :
          /\ c < end => Place(m, n, c) \notin nuls
          /\ c = end => Place(m, n, c) \in nuls \cup {Junk}
          /\ payload[c] = IF c <= end THEN Place(m, n, c) ELSE Junk
          /\ Place(m, n, c) = IF c < n /\ (c > 0 \/ m = 0) THEN base + c ELSE Junk
    BY <2>3 DEF HoldsUpTo, Place
  <2>7. Held(k) = {payload[c] : c \in 0 .. p - 1} \ {Junk}
    BY DEF Held
  <2>8. /\ ToNul(k) = {b \in Buffered(k) : \A d \in Buffered(k) \cap nuls : b <= d}
        /\ Junk = -1
    BY DEF ToNul, Junk
  <2> HIDE DEF p, m, base, payload
  <2>9. \A c \in 0 .. p - 1 : payload[c] \in {Junk, base + c}
    BY <2>6
  \* The bytes that the buffer had, by their cells.
  <2>10. \A c \in 0 .. p - 1 : /\ base + c \in Nat /\ base + c # Junk
                               /\ base + c \in Buffered(k) <=> c < n /\ (c > 0 \/ m = 0)
    BY <2>1, <2>2, <2>4, <2>5, <2>8, SMT
  <2>11. \A b \in Buffered(k) : \E c \in 0 .. p - 1 : b = base + c
    <3> SUFFICES ASSUME NEW b \in Buffered(k) PROVE \E c \in 0 .. p - 1 : b = base + c
      OBVIOUS
    <3>1. b \in base .. base + n - 1
      BY <2>5
    <3>2. b - base \in 0 .. p - 1 /\ b = base + (b - base)
      BY <2>1, <2>2, <2>4, <3>1, SMT
    <3> QED BY <3>2
  <2>12. CASE m # 0 /\ end = 0
    <3>1. ASSUME NEW c \in 0 .. p - 1 PROVE payload[c] = Junk
      <4>1. CASE c = 0
        <5>1. ~ (c > 0 \/ m = 0)
          BY <2>12, <4>1, SMT
        <5> QED BY <2>6, <5>1
      <4>2. CASE c # 0
        <5>1. ~ (c <= end)
          BY <2>1, <2>12, <4>2, SMT
        <5> QED BY <2>6, <5>1
      <4> QED BY <4>1, <4>2
    <3>2. Held(k) = {}
      BY <2>7, <3>1
    <3> QED BY <2>4, <2>9, <2>12, <3>2 DEF p, m, base, payload
  <2>13. CASE m = 0 \/ end > 0
    <3>1. ASSUME NEW b \in Held(k) PROVE b \in ToNul(k)
      <4>1. PICK c \in 0 .. p - 1 : b = payload[c] /\ b # Junk
        BY <2>7
      <4>2. c <= end /\ c < n /\ (c > 0 \/ m = 0) /\ b = base + c
        BY <2>6, <4>1
      <4>3. b \in Buffered(k)
        BY <2>10, <4>2
      <4>4. ASSUME NEW d \in Buffered(k), d \in nuls PROVE b <= d
        <5>1. PICK e \in 0 .. p - 1 : d = base + e
          BY <2>11
        <5>2. Place(m, n, e) = base + e
          BY <2>6, <2>10, <4>4, <5>1
        <5>3. ~ (e < end)
          BY <2>6, <4>4, <5>1, <5>2
        <5> QED BY <2>1, <2>4, <4>2, <5>1, <5>3, SMT
      <4> QED BY <2>8, <4>3, <4>4
    <3>2. ASSUME NEW b \in ToNul(k) PROVE b \in Held(k)
      <4>1. b \in Buffered(k) /\ \A d \in Buffered(k) \cap nuls : b <= d
        BY <2>8, <3>2
      <4>2. PICK c \in 0 .. p - 1 : b = base + c
        BY <2>11, <4>1
      <4>3. c < n /\ (c > 0 \/ m = 0) /\ Place(m, n, c) = b /\ b # Junk
        BY <2>6, <2>10, <4>1, <4>2
      <4>4. c <= end
        <5> SUFFICES ASSUME end < c PROVE FALSE
          BY <2>1, SMT
        <5>1. end \in 0 .. p - 1 /\ end < n /\ (end > 0 \/ m = 0)
          BY <2>1, <2>13, <4>3, SMT
        <5>2. Place(m, n, end) = base + end /\ base + end # Junk
          BY <2>6, <2>10, <5>1
        <5>3. base + end \in nuls /\ base + end \in Buffered(k)
          BY <2>6, <2>10, <5>1, <5>2
        <5>4. b <= base + end
          BY <4>1, <5>3
        <5> QED BY <2>1, <2>4, <4>2, <5>4, SMT
      <4>5. payload[c] = b
        BY <2>6, <4>3, <4>4
      <4> QED BY <2>7, <4>3, <4>5
    <3>3. Held(k) = ToNul(k)
      BY <3>1, <3>2
    <3> QED BY <2>9, <3>3 DEF p, m, base, payload
  <2>14. (m # 0 /\ end = 0) \/ m = 0 \/ end > 0
    BY SMT
  <2> QED BY <2>12, <2>13, <2>14
<1> QED BY <1>1, PacketsInvariance, PTL

-----------------------------------------------------------------------------
(***************************************************************************)
(* The array.  A length that a significand holds is a float: the unit is   *)
(* 1, or 2 for the greatest one, which is even.                            *)
(***************************************************************************)
LEMMA FloatExact ==
  ASSUME NEW n \in Nat, n > 0, n <= FLT_INTEGERS
  PROVE  ToFloat(n) = n
<1> DEFINE F == FLT_INTEGERS
           Unit(u) == PowerOfTwo(u) /\ n < u * F /\ (u = 1 \/ 2 * n >= u * F)
           unit == CHOOSE u \in 1 .. n : Unit(u)
<1>1. F \in Nat /\ F > 1 /\ PowerOfTwo(F)
  BY BoundsAssumption, SMT DEF BoundsAssumption
<1>2. ToFloat(n) = unit * IF 2 * (n % unit) > unit
                             \/ (2 * (n % unit) = unit /\ (n \div unit) % 2 = 1)
                          THEN n \div unit + 1 ELSE n \div unit
  BY Zenon DEF ToFloat
<1>3. \A u \in Int : u > 2 => u * F > 2 * F
  <2>1. \A u \in Int : u > 2 => F * 2 + F <= F * u
    BY <1>1, NextMultiple
  <2> QED BY <1>1, <2>1, SMT
<1> HIDE DEF F
<1>4. CASE n < F
  <2>1. PowerOfTwo(1)
    BY SMT DEF PowerOfTwo
  <2>2. Unit(1) /\ 1 \in 1 .. n
    BY <1>1, <1>4, <2>1, SMT
  <2>3. \A u \in 1 .. n : Unit(u) => u = 1
    BY <1>1, <1>3, <1>4, SMT
  <2>4. unit = 1
    BY <2>2, <2>3
  <2>5. n % 1 = 0 /\ n \div 1 = n
    BY SMT
  <2>6. n \div unit = n /\ n % unit = 0 /\ unit = 1
    BY <2>4, <2>5
  <2> HIDE DEF unit
  <2> QED BY <1>2, <2>6, SMT
<1>5. CASE n = F
  <2>1. PowerOfTwo(2)
    BY SMT DEF PowerOfTwo
  <2>2. Unit(2) /\ 2 \in 1 .. n
    BY <1>1, <1>5, <2>1, SMT
  <2>3. \A u \in 1 .. n : Unit(u) => u = 2
    BY <1>1, <1>3, <1>5, SMT
  <2>4. unit = 2
    BY <2>2, <2>3
  <2>5. n % 2 = 0
    <3>1. n % n = 0 /\ n \in 2 .. n
      <4>1. n = n * 1 + 0 /\ 0 \in 0 .. n - 1 /\ 1 \in Int
        BY SMT
      <4> QED BY <1>1, <1>5, <4>1, Division, SMT
    <3> QED BY <1>1, <1>5, <3>1 DEF PowerOfTwo
  <2>6. 2 * (n \div 2) = n /\ n \div 2 \in Nat
    BY <2>5, SMT
  <2>7. unit * (n \div unit) = n /\ n % unit = 0 /\ unit = 2
    BY <2>4, <2>5, <2>6
  <2> HIDE DEF unit
  <2> QED BY <1>2, <2>7, SMT
<1> QED BY <1>1, <1>4, <1>5, SMT DEF F

\* The array that main allocates has one entry for each packet, however far
\* the loop is, and no more than one for the NULL after them.
LEMMA EntriesSuffice == PInv => RoomForNull
<1> SUFFICES ASSUME PInv, file_length <= FLT_INTEGERS
             PROVE  /\ Made <= num_packets
                    /\ done => Made = num_packets
  BY DEF RoomForNull, Made
<1> DEFINE p == payload_size
           n == file_length + p - 1
<1>1. /\ file_length \in Nat /\ file_length > 0 /\ p \in Nat /\ p > 0
      /\ Made \in Nat /\ bytes_read \in Nat /\ current_byte <= file_length /\ n \in Nat
  BY SMT DEF PInv, TypeOK, Made
<1>2. num_packets = n \div p
  BY <1>1, FloatExact DEF num_packets
<1> HIDE DEF n
<1>3. /\ n \div p \in Nat /\ n % p \in 0 .. p - 1 /\ n = p * (n \div p) + (n % p)
      /\ \A q \in Int : \A r \in 0 .. p - 1 : n = p * q + r => n \div p = q
  BY <1>1, Division
<1>4. ASSUME done PROVE Made = n \div p
  <2>1. PICK r \in 1 .. p : file_length = p * (Made - 1) + r
    BY <1>4 DEF PInv, Finished
  <2>2. p * (Made - 1) = p * Made - p /\ p * Made \in Int
    BY <1>1, SMT
  <2>3. n = p * Made + (r - 1) /\ r - 1 \in 0 .. p - 1
    BY <1>1, <2>1, <2>2, SMT DEF n
  <2> QED BY <1>1, <1>3, <2>3
<1>5. ASSUME ~done PROVE Made <= n \div p
  <2>1. SUFFICES ASSUME n \div p < Made PROVE FALSE
    BY <1>1, <1>3, SMT
  <2>2. p * (n \div p) + p <= p * Made
    BY <1>1, <1>3, <2>1, NextMultiple
  <2>3. current_byte = p * Made + bytes_read
    BY <1>5 DEF PInv, Reading
  <2>4. p * Made \in Int /\ p * (n \div p) \in Int
    BY <1>1, <1>3, SMT
  <2> QED BY <1>1, <1>3, <2>2, <2>3, <2>4, SMT DEF n
<1> QED BY <1>1, <1>2, <1>3, <1>4, <1>5, SMT

\* As long as floats count the file's bytes, the array has its place for NULL.
THEOREM NullHasRoom == Spec => []RoomForNull
BY PacketsInvariance, EntriesSuffice, PTL

-----------------------------------------------------------------------------
(***************************************************************************)
(* The packets as strings.  A character is a kind with a value.            *)
(***************************************************************************)
Chars == {"semicolon", "nul", "magic", "number", "byte"} \X Int

WirePackets ==
  [type : Int, seqno : Int, ackno : Int, winsize : Int, payload : Seq(Chars),
   payload_length : Int, length_bytes : Seq(Chars)]

LEMMA CharFacts ==
  /\ SEP \in Chars /\ NUL \in Chars /\ MAGIC_HDR \in Chars
  /\ SEP # NUL /\ SEP # MAGIC_HDR
  /\ \A n \in Int : /\ Number(n) \in Chars /\ Number(n) # SEP
                    /\ Byte(n) \in Chars /\ Byte(n) # SEP /\ Byte(n) # NUL
                    /\ atoi(<<Number(n)>>) = n
<1>1. /\ SEP \in Chars /\ NUL \in Chars /\ MAGIC_HDR \in Chars
      /\ \A n \in Int : Number(n) \in Chars /\ Byte(n) \in Chars
  BY SMT DEF Chars, SEP, NUL, MAGIC_HDR, Number, Byte
<1>2. /\ SEP[1] = "semicolon" /\ NUL[1] = "nul" /\ MAGIC_HDR[1] = "magic"
      /\ \A n \in Int : /\ Number(n)[1] = "number" /\ Number(n)[2] = n
                        /\ Byte(n)[1] = "byte" /\ Byte(n)[2] = n
  BY SMT DEF SEP, NUL, MAGIC_HDR, Number, Byte
<1>3. /\ SEP # NUL /\ SEP # MAGIC_HDR
      /\ \A n \in Int : Number(n) # SEP /\ Byte(n) # SEP /\ Byte(n) # NUL
  BY <1>2, SMT
<1>4. \A n \in Int : atoi(<<Number(n)>>) = n
  <2> SUFFICES ASSUME NEW n \in Int PROVE atoi(<<Number(n)>>) = n
    OBVIOUS
  <2>1. <<Number(n)>> # <<>> /\ <<Number(n)>>[1] = Number(n)
    BY SMT
  <2> QED BY <1>2, <2>1, Zenon DEF atoi
<1> QED BY <1>1, <1>3, <1>4

\* Two sequences one after the other, and three.
LEMMA Joined2 ==
  ASSUME NEW S, NEW a \in Seq(S), NEW b \in Seq(S)
  PROVE  /\ a \o b \in Seq(S)
         /\ Len(a) \in Nat /\ Len(b) \in Nat
         /\ Len(a \o b) = Len(a) + Len(b)
         /\ \A n \in 1 .. Len(a) : (a \o b)[n] = a[n]
         /\ \A n \in 1 .. Len(b) : (a \o b)[Len(a) + n] = b[n]
<1>1. /\ Len(a) \in Nat /\ Len(b) \in Nat
      /\ a \o b \in Seq(S) /\ Len(a \o b) = Len(a) + Len(b)
  BY SMT
<1>2. /\ \A n \in 1 .. Len(a) : (a \o b)[n] = a[n]
      /\ \A n \in 1 .. Len(b) : (a \o b)[Len(a) + n] = b[n]
  BY <1>1, SMT
<1> QED BY <1>1, <1>2

LEMMA Joined ==
  ASSUME NEW S, NEW a \in Seq(S), NEW b \in Seq(S), NEW c \in Seq(S)
  PROVE  /\ (a \o b) \o c \in Seq(S)
         /\ Len((a \o b) \o c) = Len(a) + Len(b) + Len(c)
         /\ \A n \in 1 .. Len(a) : ((a \o b) \o c)[n] = a[n]
         /\ \A n \in 1 .. Len(b) : ((a \o b) \o c)[Len(a) + n] = b[n]
         /\ \A n \in 1 .. Len(c) : ((a \o b) \o c)[Len(a) + Len(b) + n] = c[n]
<1>1. /\ a \o b \in Seq(S) /\ Len(a \o b) = Len(a) + Len(b)
      /\ Len(a) \in Nat /\ Len(b) \in Nat /\ Len(c) \in Nat
      /\ \A n \in 1 .. Len(a) : (a \o b)[n] = a[n]
      /\ \A n \in 1 .. Len(b) : (a \o b)[Len(a) + n] = b[n]
  BY Joined2
<1>2. /\ (a \o b) \o c \in Seq(S) /\ Len((a \o b) \o c) = Len(a \o b) + Len(c)
      /\ \A n \in 1 .. Len(a \o b) : ((a \o b) \o c)[n] = (a \o b)[n]
      /\ \A n \in 1 .. Len(c) : ((a \o b) \o c)[Len(a \o b) + n] = c[n]
  BY <1>1, Joined2
<1>3. /\ \A n \in 1 .. Len(a) : n \in 1 .. Len(a \o b)
      /\ \A n \in 1 .. Len(b) : Len(a) + n \in 1 .. Len(a \o b)
  BY <1>1, SMT
<1> QED BY <1>1, <1>2, <1>3, Zenon

-----------------------------------------------------------------------------
\* The semicolons up to a place in a string; Cut looks for their number.
Seps(buffer, c) == {d \in 1 .. c : buffer[d] = SEP}

Counts(buffer, c, n) ==
  c \in 1 .. Len(buffer) /\ buffer[c] = SEP /\ Cardinality(Seps(buffer, c)) = n

LEMMA SepsFinite ==
  ASSUME NEW buffer, NEW c \in Nat
  PROVE  IsFiniteSet(Seps(buffer, c)) /\ Cardinality(Seps(buffer, c)) \in Nat
<1>1. IsFiniteSet(1 .. c)
  BY FS_Interval
<1>2. Seps(buffer, c) \in SUBSET (1 .. c)
  BY DEF Seps
<1> QED BY <1>1, <1>2, FS_Subset, FS_CardinalityType

\* The n-th semicolon is the only one with that many up to it.
LEMMA CutIs ==
  ASSUME NEW buffer \in Seq(Chars), NEW c, NEW n, Counts(buffer, c, n)
  PROVE  Cut(buffer, n) = c
<1>1. Len(buffer) \in Nat /\ DOMAIN buffer = 1 .. Len(buffer)
  BY SMT
<1>2. ASSUME NEW x \in 1 .. Len(buffer), NEW y \in 1 .. Len(buffer), x < y,
             buffer[y] = SEP
      PROVE  Cardinality(Seps(buffer, x)) < Cardinality(Seps(buffer, y))
  <2>1. x \in Nat /\ y \in Nat
    BY <1>1, SMT
  <2>2. Seps(buffer, x) \cup {y} \in SUBSET Seps(buffer, y)
    BY <1>2, <2>1, SMT DEF Seps
  <2>3. y \notin Seps(buffer, x)
    BY <1>2, <2>1, SMT DEF Seps
  <2>4. Cardinality(Seps(buffer, x) \cup {y}) = Cardinality(Seps(buffer, x)) + 1
    BY <2>1, <2>3, SepsFinite, FS_AddElement
  <2>5. Cardinality(Seps(buffer, x) \cup {y}) <= Cardinality(Seps(buffer, y))
    BY <2>1, <2>2, SepsFinite, FS_Subset
  <2>6. Cardinality(Seps(buffer, x)) \in Nat /\ Cardinality(Seps(buffer, y)) \in Nat
    BY <2>1, SepsFinite
  <2> QED BY <2>4, <2>5, <2>6, SMT
<1>3. \A d \in 1 .. Len(buffer) : Counts(buffer, d, n) => d = c
  <2> SUFFICES ASSUME NEW d \in 1 .. Len(buffer), Counts(buffer, d, n) PROVE d = c
    OBVIOUS
  <2>1. c \in 1 .. Len(buffer) /\ buffer[c] = SEP /\ buffer[d] = SEP
    BY DEF Counts
  <2>2. c \in Nat /\ d \in Nat
    BY <1>1, <2>1, SMT
  <2>3. Cardinality(Seps(buffer, c)) = n /\ Cardinality(Seps(buffer, d)) = n
    BY DEF Counts
  <2>4. n \in Nat
    BY <2>2, <2>3, SepsFinite
  <2>5. ~ (c < d) /\ ~ (d < c)
    BY <1>2, <2>1, <2>3, <2>4, SMT
  <2> QED BY <2>2, <2>5, SMT
<1>4. Cut(buffer, n) = CHOOSE d \in 1 .. Len(buffer) : Counts(buffer, d, n)
  BY <1>1, Zenon DEF Cut, Counts, Seps
<1>5. c \in 1 .. Len(buffer)
  BY DEF Counts
<1> QED BY <1>3, <1>4, <1>5

\* From one semicolon to the next.
LEMMA FirstSep ==
  ASSUME NEW buffer \in Seq(Chars), NEW c \in 1 .. Len(buffer), buffer[c] = SEP,
         \A d \in 1 .. c - 1 : buffer[d] # SEP
  PROVE  Counts(buffer, c, 1)
<1>1. c \in Nat /\ Len(buffer) \in Nat
  BY SMT
<1>2. Seps(buffer, c) = {c}
  BY <1>1, SMT DEF Seps
<1> QED BY <1>2, FS_Singleton DEF Counts

LEMMA NextSep ==
  ASSUME NEW buffer \in Seq(Chars), NEW b, NEW n \in Nat, Counts(buffer, b, n),
         NEW c \in 1 .. Len(buffer), b < c, buffer[c] = SEP,
         \A d \in b + 1 .. c - 1 : buffer[d] # SEP
  PROVE  Counts(buffer, c, n + 1)
<1>1. b \in Nat /\ c \in Nat /\ b >= 1
  BY SMT DEF Counts
<1>2. Seps(buffer, c) = Seps(buffer, b) \cup {c}
  BY <1>1, SMT DEF Seps, Counts
<1>3. c \notin Seps(buffer, b)
  BY <1>1, SMT DEF Seps
<1>4. Cardinality(Seps(buffer, c)) = Cardinality(Seps(buffer, b)) + 1
  BY <1>1, <1>2, <1>3, SepsFinite, FS_AddElement
<1> QED BY <1>4 DEF Counts
-----------------------------------------------------------------------------
\* The first element of a sequence that satisfies a test: 0 when none does.
LEMMA LeastIndex ==
  ASSUME NEW S, S \subseteq Nat, S # {}
  PROVE  Min(S) \in S /\ \A t \in S : Min(S) <= t
<1>1. PICK x \in S : \A y \in S : ~ (<<y, x>> \in OpToRel(<, Nat))
  BY NatLessThanWellFounded, WFMin
<1>2. \A y \in S : ~ (y < x)
  BY <1>1 DEF OpToRel
<1>3. \A y \in S : x <= y
  BY <1>2, SMT
<1> QED BY <1>1, <1>3 DEF Min

\* A C string is what is before the first NUL.
LEMMA CStringFact ==
  ASSUME NEW chars \in Seq(Chars)
  PROVE  /\ CString(chars) \in Seq(Chars)
         /\ Len(CString(chars)) \in 0 .. Len(chars)
         /\ \A c \in 1 .. Len(CString(chars)) :
              CString(chars)[c] = chars[c] /\ chars[c] # NUL
         /\ \/ Len(CString(chars)) = Len(chars)
            \/ chars[Len(CString(chars)) + 1] = NUL
<1> DEFINE I == {c \in 1 .. Len(chars) : chars[c] = NUL}
           end == IF I # {} THEN Min(I) ELSE 0
<1>1. CString(chars) = IF end = 0 THEN chars ELSE SubSeq(chars, 1, end - 1)
  BY Zenon DEF CString, SelectInSeq
<1>2. Len(chars) \in Nat
  BY SMT
<1>3. CASE I = {}
  <2>1. CString(chars) = chars
    BY <1>1, <1>3
  <2>2. \A c \in 1 .. Len(chars) : chars[c] # NUL
    BY <1>3
  <2> QED BY <1>2, <2>1, <2>2, SMT
<1>4. CASE I # {}
  <2>1. I \subseteq Nat
    BY <1>2, SMT
  <2>2. Min(I) \in I /\ \A t \in I : Min(I) <= t
    BY <1>4, <2>1, LeastIndex
  <2> DEFINE m == Min(I)
  <2>3. m \in 1 .. Len(chars) /\ chars[m] = NUL
    BY <2>2
  <2>4. \A c \in 1 .. m - 1 : chars[c] # NUL
    <3> SUFFICES ASSUME NEW c \in 1 .. m - 1, chars[c] = NUL PROVE FALSE
      OBVIOUS
    <3>1. c \in 1 .. Len(chars)
      BY <1>2, <2>3, SMT
    <3>2. m <= c
      BY <2>2, <3>1
    <3> QED BY <2>3, <3>2, SMT
  <2>5. m # 0
    BY <2>3, SMT
  <2>6. CString(chars) = SubSeq(chars, 1, m - 1)
    BY <1>1, <1>4, <2>5
  <2> HIDE DEF m, I
  <2>7. /\ SubSeq(chars, 1, m - 1) \in Seq(Chars)
        /\ Len(SubSeq(chars, 1, m - 1)) = m - 1
        /\ \A c \in 1 .. m - 1 : SubSeq(chars, 1, m - 1)[c] = chars[c]
    BY <1>2, <2>3, SMT
  <2> QED BY <1>2, <2>3, <2>4, <2>6, <2>7, SMT
<1> QED BY <1>3, <1>4

-----------------------------------------------------------------------------
\* What construct_string writes: ten characters, the payload's, and three.
HeaderString(pckt) == <<MAGIC_HDR, SEP, Number(pckt.type), SEP, Number(pckt.seqno), SEP,
                Number(pckt.ackno), SEP, Number(pckt.winsize), SEP>>

LEMMA Written ==
  ASSUME NEW pckt \in WirePackets
  PROVE  LET text == PayloadString(pckt)
             buffer == construct_string(pckt)
         IN  /\ text \in Seq(Chars) /\ Len(text) \in Nat
             /\ buffer \in Seq(Chars) /\ Len(buffer) = Len(text) + 13
             /\ \A n \in 1 .. 10 : buffer[n] = HeaderString(pckt)[n]
             /\ \A n \in 1 .. Len(text) : buffer[10 + n] = text[n]
             /\ buffer[11 + Len(text)] = SEP
             /\ buffer[12 + Len(text)] = Number(pckt.payload_length)
             /\ buffer[13 + Len(text)] = SEP
<1> DEFINE text == PayloadString(pckt)
           head == HeaderString(pckt)
           tail == <<SEP, Number(pckt.payload_length), SEP>>
<1>1. /\ pckt.type \in Int /\ pckt.seqno \in Int /\ pckt.ackno \in Int
      /\ pckt.winsize \in Int /\ pckt.payload_length \in Int
      /\ pckt.payload \in Seq(Chars) /\ pckt.length_bytes \in Seq(Chars)
  BY DEF WirePackets
<1>2. head \in Seq(Chars) /\ Len(head) = 10
  <2>1. /\ MAGIC_HDR \in Chars /\ SEP \in Chars /\ Number(pckt.type) \in Chars
        /\ Number(pckt.seqno) \in Chars /\ Number(pckt.ackno) \in Chars
        /\ Number(pckt.winsize) \in Chars
    BY <1>1, CharFacts
  <2> QED BY <2>1, SMT DEF HeaderString
<1>3. /\ tail \in Seq(Chars) /\ Len(tail) = 3
      /\ tail[1] = SEP /\ tail[2] = Number(pckt.payload_length) /\ tail[3] = SEP
  <2>1. SEP \in Chars /\ Number(pckt.payload_length) \in Chars
    BY <1>1, CharFacts
  <2> QED BY <2>1, SMT
<1>4. text \in Seq(Chars) /\ Len(text) \in Nat
  <2>1. pckt.payload \o pckt.length_bytes \in Seq(Chars)
    BY <1>1, SMT
  <2>2. text \in Seq(Chars)
    BY <2>1, CStringFact DEF PayloadString
  <2> QED BY <2>2, SMT
<1>5. construct_string(pckt) = (head \o text) \o tail
  BY DEF construct_string, HeaderString
<1> HIDE DEF head, text, tail
<1> DEFINE buffer == (head \o text) \o tail
<1>6. /\ buffer \in Seq(Chars)
      /\ Len(buffer) = Len(head) + Len(text) + Len(tail)
      /\ \A n \in 1 .. Len(head) : buffer[n] = head[n]
      /\ \A n \in 1 .. Len(text) : buffer[Len(head) + n] = text[n]
      /\ \A n \in 1 .. Len(tail) : buffer[Len(head) + Len(text) + n] = tail[n]
  <2>1. head \in Seq(Chars) /\ text \in Seq(Chars) /\ tail \in Seq(Chars)
    BY <1>2, <1>3, <1>4
  <2> QED BY ONLY <2>1, Joined
<1> HIDE DEF buffer
<1>7. 10 + Len(text) + 1 = 11 + Len(text) /\ 10 + Len(text) + 2 = 12 + Len(text)
      /\ 10 + Len(text) + 3 = 13 + Len(text) /\ 10 + Len(text) + 3 = Len(text) + 13
  BY <1>4, SMT
<1>8. /\ Len(buffer) = Len(text) + 13
      /\ \A n \in 1 .. 10 : buffer[n] = head[n]
      /\ \A n \in 1 .. Len(text) : buffer[10 + n] = text[n]
  BY <1>2, <1>3, <1>6, <1>7
<1>9. 1 \in 1 .. Len(tail) /\ 2 \in 1 .. Len(tail) /\ 3 \in 1 .. Len(tail)
  BY <1>3, SMT
<1>10. /\ buffer[11 + Len(text)] = SEP
       /\ buffer[12 + Len(text)] = Number(pckt.payload_length)
       /\ buffer[13 + Len(text)] = SEP
  BY <1>2, <1>3, <1>6, <1>7, <1>9
<1> QED BY <1>4, <1>5, <1>6, <1>8, <1>10 DEF buffer, head, text, tail
-----------------------------------------------------------------------------
\* The header's characters: every second one is a semicolon.
LEMMA HeaderChars ==
  ASSUME NEW pckt \in WirePackets
  PROVE  /\ HeaderString(pckt)[1] = MAGIC_HDR
         /\ HeaderString(pckt)[3] = Number(pckt.type)
         /\ HeaderString(pckt)[5] = Number(pckt.seqno)
         /\ HeaderString(pckt)[7] = Number(pckt.ackno)
         /\ HeaderString(pckt)[9] = Number(pckt.winsize)
         /\ \A n \in {2, 4, 6, 8, 10} : HeaderString(pckt)[n] = SEP
         /\ \A n \in {1, 3, 5, 7, 9} : HeaderString(pckt)[n] # SEP
<1>1. /\ pckt.type \in Int /\ pckt.seqno \in Int /\ pckt.ackno \in Int
      /\ pckt.winsize \in Int
  BY DEF WirePackets
<1>2. /\ MAGIC_HDR # SEP /\ Number(pckt.type) # SEP /\ Number(pckt.seqno) # SEP
      /\ Number(pckt.ackno) # SEP /\ Number(pckt.winsize) # SEP
  BY <1>1, CharFacts
<1>3. /\ HeaderString(pckt)[1] = MAGIC_HDR
      /\ HeaderString(pckt)[3] = Number(pckt.type)
      /\ HeaderString(pckt)[5] = Number(pckt.seqno)
      /\ HeaderString(pckt)[7] = Number(pckt.ackno)
      /\ HeaderString(pckt)[9] = Number(pckt.winsize)
      /\ HeaderString(pckt)[2] = SEP /\ HeaderString(pckt)[4] = SEP
      /\ HeaderString(pckt)[6] = SEP /\ HeaderString(pckt)[8] = SEP
      /\ HeaderString(pckt)[10] = SEP
  BY SMT DEF HeaderString
<1> QED BY <1>2, <1>3

\* The first five semicolons are the header's.
LEMMA HeaderCuts ==
  ASSUME NEW pckt \in WirePackets
  PROVE  LET buffer == construct_string(pckt)
         IN  /\ Counts(buffer, 2, 1) /\ Counts(buffer, 4, 2) /\ Counts(buffer, 6, 3)
             /\ Counts(buffer, 8, 4) /\ Counts(buffer, 10, 5)
<1> DEFINE buffer == construct_string(pckt)
           text   == PayloadString(pckt)
<1>1. /\ buffer \in Seq(Chars) /\ Len(text) \in Nat /\ Len(buffer) = Len(text) + 13
      /\ \A n \in 1 .. 10 : buffer[n] = HeaderString(pckt)[n]
  BY Written
<1> HIDE DEF buffer, text
<1>2. \A n \in 1 .. 10 : n \in 1 .. Len(buffer)
  BY <1>1, SMT
<1>3. /\ \A n \in {2, 4, 6, 8, 10} : n \in 1 .. Len(buffer) /\ buffer[n] = SEP
      /\ \A n \in {1, 3, 5, 7, 9} : buffer[n] # SEP
  BY <1>1, <1>2, HeaderChars
<1>4. /\ \A d \in 1 .. 2 - 1 : d = 1
      /\ \A d \in 2 + 1 .. 4 - 1 : d = 3
      /\ \A d \in 4 + 1 .. 6 - 1 : d = 5
      /\ \A d \in 6 + 1 .. 8 - 1 : d = 7
      /\ \A d \in 8 + 1 .. 10 - 1 : d = 9
  BY SMT
<1>5. Counts(buffer, 2, 1)
  BY <1>1, <1>3, <1>4, FirstSep
<1>6. /\ 1 + 1 = 2 /\ 2 + 1 = 3 /\ 3 + 1 = 4 /\ 4 + 1 = 5
      /\ 2 < 4 /\ 4 < 6 /\ 6 < 8 /\ 8 < 10
  BY SMT
<1>7. Counts(buffer, 4, 1 + 1)
  BY <1>1, <1>3, <1>4, <1>5, <1>6, NextSep
<1>8. Counts(buffer, 6, 2 + 1)
  BY <1>1, <1>3, <1>4, <1>7, <1>6, NextSep
<1>9. Counts(buffer, 8, 3 + 1)
  BY <1>1, <1>3, <1>4, <1>8, <1>6, NextSep
<1>10. Counts(buffer, 10, 4 + 1)
  BY <1>1, <1>3, <1>4, <1>9, <1>6, NextSep
<1> QED BY <1>5, <1>6, <1>7, <1>8, <1>9, <1>10 DEF buffer

\* A field of one character.
LEMMA OneChar ==
  ASSUME NEW buffer \in Seq(Chars), NEW c \in 1 .. Len(buffer)
  PROVE  SubSeq(buffer, c, c) = <<buffer[c]>>
<1> DEFINE s == SubSeq(buffer, c, c)
           t == <<buffer[c]>>
<1>1. c \in Nat /\ Len(buffer) \in Nat /\ buffer[c] \in Chars
  BY SMT
<1>2. s \in Seq(Chars) /\ Len(s) = 1 /\ s[1] = buffer[c]
  BY <1>1, SMT
<1>3. t \in Seq(Chars) /\ Len(t) = 1 /\ t[1] = buffer[c]
  BY <1>1, SMT
<1> HIDE DEF s, t
<1>4. s = t
  BY <1>2, <1>3, SMT
<1> QED BY <1>4 DEF s, t

\* The header is taken out of the string as it was put in.
LEMMA HeaderArrives ==
  ASSUME NEW pckt \in WirePackets
  PROVE  SameHeader(Arrived(pckt), pckt)
<1> DEFINE buffer == construct_string(pckt)
<1>1. /\ Cut(buffer, 1) = 2 /\ Cut(buffer, 2) = 4 /\ Cut(buffer, 3) = 6
      /\ Cut(buffer, 4) = 8 /\ Cut(buffer, 5) = 10
  BY Written, HeaderCuts, CutIs
<1>2. /\ buffer \in Seq(Chars)
      /\ \A n \in 1 .. 10 : n \in 1 .. Len(buffer) /\ buffer[n] = HeaderString(pckt)[n]
  BY Written, SMT
<1>3. /\ Field(buffer, 1) = SubSeq(buffer, 1, 1)
      /\ Field(buffer, 2) = SubSeq(buffer, 3, 3)
      /\ Field(buffer, 3) = SubSeq(buffer, 5, 5)
      /\ Field(buffer, 4) = SubSeq(buffer, 7, 7)
      /\ Field(buffer, 5) = SubSeq(buffer, 9, 9)
  <2> HIDE DEF buffer
  <2>1. /\ 2 - 1 = 1 /\ 3 - 1 = 2 /\ 4 - 1 = 3 /\ 5 - 1 = 4
        /\ 2 # 1 /\ 3 # 1 /\ 4 # 1 /\ 5 # 1
        /\ 2 + 1 = 3 /\ 4 + 1 = 5 /\ 6 + 1 = 7 /\ 8 + 1 = 9
        /\ 6 - 1 = 5 /\ 8 - 1 = 7 /\ 10 - 1 = 9
    BY SMT
  <2> QED BY <1>1, <2>1, SMT DEF Field
<1> HIDE DEF buffer
<1>4. /\ Field(buffer, 1) = <<MAGIC_HDR>>
      /\ Field(buffer, 2) = <<Number(pckt.type)>>
      /\ Field(buffer, 3) = <<Number(pckt.seqno)>>
      /\ Field(buffer, 4) = <<Number(pckt.ackno)>>
      /\ Field(buffer, 5) = <<Number(pckt.winsize)>>
  BY <1>2, <1>3, OneChar, HeaderChars
<1>5. /\ pckt.type \in Int /\ pckt.seqno \in Int /\ pckt.ackno \in Int
      /\ pckt.winsize \in Int
  BY DEF WirePackets
<1>6. /\ atoi(Field(buffer, 2)) = pckt.type /\ atoi(Field(buffer, 3)) = pckt.seqno
      /\ atoi(Field(buffer, 4)) = pckt.ackno /\ atoi(Field(buffer, 5)) = pckt.winsize
  BY <1>4, <1>5, CharFacts
<1>7. /\ Arrived(pckt).magic = Field(buffer, 1)
      /\ Arrived(pckt).type = atoi(Field(buffer, 2))
      /\ Arrived(pckt).seqno = atoi(Field(buffer, 3))
      /\ Arrived(pckt).ackno = atoi(Field(buffer, 4))
      /\ Arrived(pckt).winsize = atoi(Field(buffer, 5))
  BY DEF Arrived, deconstruct_string, buffer
<1> QED BY <1>4, <1>6, <1>7 DEF SameHeader
-----------------------------------------------------------------------------
\* The payload's field ends where its string has the first semicolon, or ends.
LEMMA PayloadField ==
  ASSUME NEW pckt \in WirePackets
  PROVE  LET text  == PayloadString(pckt)
             field == Arrived(pckt).payload
         IN  \E e \in 0 .. Len(text) :
               /\ Len(field) = e
               /\ \A c \in 1 .. e : field[c] = text[c] /\ text[c] # SEP
               /\ e = Len(text) \/ text[e + 1] = SEP
<1> DEFINE text   == PayloadString(pckt)
           buffer == construct_string(pckt)
           J      == {n \in 1 .. Len(text) + 1 : buffer[10 + n] = SEP}
           m      == Min(J)
<1>1. /\ buffer \in Seq(Chars) /\ Len(text) \in Nat /\ Len(buffer) = Len(text) + 13
      /\ \A n \in 1 .. Len(text) : buffer[10 + n] = text[n]
      /\ buffer[11 + Len(text)] = SEP
  BY Written
<1>2. Counts(buffer, 10, 5)
  BY HeaderCuts
<1>3. Arrived(pckt).payload = Field(buffer, 6)
  BY DEF Arrived, deconstruct_string
<1> HIDE DEF text, buffer
<1>4. m \in J /\ \A n \in J : m <= n
  <2>1. 10 + (Len(text) + 1) = 11 + Len(text) /\ Len(text) + 1 \in 1 .. Len(text) + 1
    BY <1>1, SMT
  <2>2. Len(text) + 1 \in J
    BY <1>1, <2>1
  <2>3. J \subseteq Nat
    BY <1>1, SMT
  <2> QED BY <2>2, <2>3, LeastIndex
<1>5. m \in 1 .. Len(text) + 1 /\ buffer[10 + m] = SEP
  BY <1>4
<1>6. \A n \in 1 .. m - 1 : n \in 1 .. Len(text) /\ buffer[10 + n] # SEP
  <2> SUFFICES ASSUME NEW n \in 1 .. m - 1
               PROVE  n \in 1 .. Len(text) /\ buffer[10 + n] # SEP
    OBVIOUS
  <2>1. n \in 1 .. Len(text) /\ n \in 1 .. Len(text) + 1 /\ ~ (m <= n)
    BY <1>1, <1>5, SMT
  <2> QED BY <1>4, <2>1
<1> HIDE DEF J, m
<1>7. Counts(buffer, 10 + m, 5 + 1)
  <2>1. 10 + m \in 1 .. Len(buffer) /\ 10 < 10 + m
    BY <1>1, <1>5, SMT
  <2>2. \A d \in 10 + 1 .. (10 + m) - 1 : d - 10 \in 1 .. m - 1 /\ d = 10 + (d - 10)
    BY <1>1, <1>5, SMT
  <2>3. \A d \in 10 + 1 .. (10 + m) - 1 : buffer[d] # SEP
    BY <1>6, <2>2
  <2> QED BY <1>1, <1>2, <1>5, <2>1, <2>3, NextSep
<1>8. Cut(buffer, 6) = 10 + m /\ Cut(buffer, 5) = 10
  <2>1. 5 + 1 = 6
    BY SMT
  <2> QED BY <1>1, <1>2, <1>7, <2>1, CutIs
<1>9. Field(buffer, 6) = SubSeq(buffer, 11, 9 + m)
  <2>1. 6 # 1 /\ 6 - 1 = 5 /\ 10 + 1 = 11 /\ (10 + m) - 1 = 9 + m
    BY <1>1, <1>5, SMT
  <2> QED BY <1>8, <2>1, Zenon DEF Field
<1>10. /\ Len(SubSeq(buffer, 11, 9 + m)) = m - 1
       /\ \A c \in 1 .. m - 1 : SubSeq(buffer, 11, 9 + m)[c] = buffer[10 + c]
  BY <1>1, <1>5, SMT
<1>11. m - 1 \in 0 .. Len(text)
  BY <1>1, <1>5, SMT
<1>12. m - 1 = Len(text) \/ text[(m - 1) + 1] = SEP
  <2>1. (m - 1) + 1 = m /\ (m - 1 = Len(text) \/ m \in 1 .. Len(text))
    BY <1>1, <1>5, SMT
  <2> QED BY <1>1, <1>5, <2>1
<1>13. \A c \in 1 .. m - 1 : Arrived(pckt).payload[c] = text[c] /\ text[c] # SEP
  BY <1>1, <1>3, <1>6, <1>9, <1>10
<1> QED BY <1>3, <1>9, <1>10, <1>11, <1>12, <1>13 DEF text

\* A string without a semicolon leaves the length in its field.
LEMMA LengthArrives ==
  ASSUME NEW pckt \in WirePackets,
         \A c \in 1 .. Len(PayloadString(pckt)) : PayloadString(pckt)[c] # SEP
  PROVE  Arrived(pckt).payload_length = pckt.payload_length
<1> DEFINE text   == PayloadString(pckt)
           buffer == construct_string(pckt)
           L      == Len(text)
<1>1. /\ buffer \in Seq(Chars) /\ L \in Nat /\ Len(buffer) = L + 13
      /\ \A n \in 1 .. L : buffer[10 + n] = text[n]
      /\ buffer[11 + L] = SEP
      /\ buffer[12 + L] = Number(pckt.payload_length)
      /\ buffer[13 + L] = SEP
  BY Written
<1>2. Counts(buffer, 10, 5)
  BY HeaderCuts
<1>3. Arrived(pckt).payload_length = atoi(Field(buffer, 7))
  BY DEF Arrived, deconstruct_string
<1>4. \A n \in 1 .. L : buffer[10 + n] # SEP
  BY <1>1
<1>5. pckt.payload_length \in Int
  BY DEF WirePackets
<1> HIDE DEF text, buffer, L
<1>6. Counts(buffer, 11 + L, 5 + 1)
  <2>1. 11 + L \in 1 .. Len(buffer) /\ 10 < 11 + L
    BY <1>1, SMT
  <2>2. \A d \in 10 + 1 .. (11 + L) - 1 : d - 10 \in 1 .. L /\ d = 10 + (d - 10)
    BY <1>1, SMT
  <2>3. \A d \in 10 + 1 .. (11 + L) - 1 : buffer[d] # SEP
    BY <1>4, <2>2
  <2> QED BY <1>1, <1>2, <2>1, <2>3, NextSep
<1>7. Counts(buffer, 13 + L, 6 + 1)
  <2>1. /\ 13 + L \in 1 .. Len(buffer) /\ 11 + L < 13 + L /\ 5 + 1 = 6
        /\ \A d \in (11 + L) + 1 .. (13 + L) - 1 : d = 12 + L
    BY <1>1, SMT
  <2>2. buffer[12 + L] # SEP
    BY <1>1, <1>5, CharFacts
  <2> QED BY <1>1, <1>6, <2>1, <2>2, NextSep
<1>8. Cut(buffer, 6) = 11 + L /\ Cut(buffer, 7) = 13 + L
  <2>1. 5 + 1 = 6 /\ 6 + 1 = 7
    BY SMT
  <2> QED BY <1>1, <1>6, <1>7, <2>1, CutIs
<1>9. Field(buffer, 7) = SubSeq(buffer, 12 + L, 12 + L)
  <2>1. /\ 7 # 1 /\ 7 - 1 = 6 /\ (11 + L) + 1 = 12 + L /\ (13 + L) - 1 = 12 + L
    BY <1>1, SMT
  <2> QED BY <1>8, <2>1, Zenon DEF Field
<1>10. 12 + L \in 1 .. Len(buffer)
  BY <1>1, SMT
<1> QED BY <1>1, <1>3, <1>5, <1>9, <1>10, OneChar, CharFacts

-----------------------------------------------------------------------------
\* What a cell of a payload is as a character.
LEMMA CellFacts ==
  ASSUME NEW kind \in Kinds, NEW b \in Int
  PROVE  /\ Cell(kind, b) \in Chars
         /\ Cell(kind, b) = SEP <=> kind = "semicolon"
         /\ Cell(kind, b) = NUL <=> kind = "nul"
BY CharFacts DEF Cell, Kinds

\* The kinds that the two bytes of a length may be of.
LengthPairs == Kinds \X {"nul", "other"}

LEMMA LengthPairsFact ==
  ASSUME NEW lengthkinds \in LengthPairs
  PROVE  /\ lengthkinds[1] \in Kinds /\ lengthkinds[2] \in Kinds
         /\ Range(lengthkinds) = {lengthkinds[1], lengthkinds[2]}
<1>1. lengthkinds[1] \in Kinds /\ lengthkinds[2] \in Kinds /\ DOMAIN lengthkinds = {1, 2}
  BY SMT DEF LengthPairs, Kinds
<1> QED BY <1>1 DEF Range

\* The packets that were made are packets that can be written as strings.
LEMMA OnWire ==
  ASSUME PInv, NEW k \in DOMAIN data_packets, NEW kinds \in Contents,
         NEW lengthkinds \in LengthPairs
  PROVE  LET dat == DataOnWire(data_packets[k], kinds, lengthkinds)
         IN  /\ dat \in WirePackets
             /\ AckOnWire(data_packets[k], kinds) \in WirePackets
             /\ Len(dat.payload) = payload_size
             /\ \A c \in 1 .. payload_size :
                  \E b \in Int : dat.payload[c] = Cell(kinds[c - 1], b)
             /\ Len(dat.length_bytes) = 2
             /\ \A d \in 1 .. 2 : \E b \in Int : dat.length_bytes[d] = Cell(lengthkinds[d], b)
<1> DEFINE p == data_packets[k]
<1>1. payload_size \in Nat \ {0} /\ file_length \in Nat /\ p \in Packets
  BY SMT DEF PInv
<1>2. /\ p.seqno \in Int /\ p.ackno \in Int /\ p.payload_length \in Int
      /\ p.payload \in [0 .. payload_size - 1 -> Bytes]
  BY <1>1 DEF Packets
<1>3. Bytes \subseteq Int
  BY <1>1, SMT DEF Bytes, Junk
<1>4. \A c \in 1 .. payload_size : c - 1 \in 0 .. payload_size - 1
  BY <1>1, SMT
<1>5. \A c \in 1 .. payload_size : p.payload[c - 1] \in Int /\ kinds[c - 1] \in Kinds
  BY <1>2, <1>3, <1>4 DEF Contents
<1> HIDE DEF p
<1> DEFINE cells == [c \in 1 .. payload_size |-> Cell(kinds[c - 1], p.payload[c - 1])]
           bytes(pair) == [d \in 1 .. 2 |-> Cell(pair[d], p.payload_length)]
<1>6. \A c \in 1 .. payload_size : Cell(kinds[c - 1], p.payload[c - 1]) \in Chars
  BY <1>5, CellFacts
<1>7. /\ cells \in Seq(Chars) /\ Len(cells) = payload_size
      /\ \A c \in 1 .. payload_size : cells[c] = Cell(kinds[c - 1], p.payload[c - 1])
  BY <1>1, <1>6, SMT
<1>8. /\ 10 * payload_size \in Int /\ DAT \in Int /\ ACK \in Int /\ 0 \in Int
      /\ p.ackno + 1 \in Int
  BY <1>1, <1>2, SMT DEF DAT, ACK
<1> HIDE DEF cells, p
<1>9. \A pair \in LengthPairs :
        /\ DataOnWire(p, kinds, pair) \in WirePackets
        /\ DataOnWire(p, kinds, pair).payload = cells
        /\ DataOnWire(p, kinds, pair).length_bytes = bytes(pair)
        /\ Len(bytes(pair)) = 2
        /\ \A d \in 1 .. 2 : bytes(pair)[d] = Cell(pair[d], p.payload_length)
  <2> SUFFICES ASSUME NEW pair \in LengthPairs
               PROVE  /\ DataOnWire(p, kinds, pair) \in WirePackets
                      /\ DataOnWire(p, kinds, pair).payload = cells
                      /\ DataOnWire(p, kinds, pair).length_bytes = bytes(pair)
                      /\ Len(bytes(pair)) = 2
                      /\ \A d \in 1 .. 2 : bytes(pair)[d] = Cell(pair[d], p.payload_length)
    OBVIOUS
  <2>1. \A d \in 1 .. 2 : Cell(pair[d], p.payload_length) \in Chars
    <3>1. \A d \in 1 .. 2 : d = 1 \/ d = 2
      BY SMT
    <3>2. \A d \in 1 .. 2 : pair[d] \in Kinds
      BY <3>1, LengthPairsFact
    <3> QED BY <1>2, <3>2, CellFacts
  <2>2. /\ bytes(pair) \in Seq(Chars) /\ Len(bytes(pair)) = 2
        /\ \A d \in 1 .. 2 : bytes(pair)[d] = Cell(pair[d], p.payload_length)
    BY <2>1, SMT
  <2>3. DataOnWire(p, kinds, pair) =
          [type |-> DAT, seqno |-> p.seqno, ackno |-> p.ackno, winsize |-> 10 * payload_size,
           payload |-> cells, payload_length |-> p.payload_length,
           length_bytes |-> bytes(pair)]
    BY DEF DataOnWire, cells
  <2> HIDE DEF bytes
  <2> QED BY <1>2, <1>7, <1>8, <2>2, <2>3 DEF WirePackets
<1>10. AckOnWire(p, kinds) \in WirePackets
  <2>1. <<"nul", "nul">> \in LengthPairs
    BY DEF LengthPairs, Kinds
  <2>2. DataOnWire(p, kinds, <<"nul", "nul">>) \in WirePackets
    BY <1>9, <2>1
  <2> QED BY <1>2, <1>8, <2>2 DEF AckOnWire, WirePackets
<1> DEFINE dat == DataOnWire(p, kinds, lengthkinds)
<1>11. /\ dat \in WirePackets /\ Len(dat.payload) = payload_size
       /\ \A c \in 1 .. payload_size :
            \E b \in Int : dat.payload[c] = Cell(kinds[c - 1], b)
  <2>1. dat \in WirePackets /\ dat.payload = cells
    BY <1>9
  <2> HIDE DEF dat
  <2>2. \A c \in 1 .. payload_size : dat.payload[c] = Cell(kinds[c - 1], p.payload[c - 1])
    BY <1>7, <2>1
  <2> QED BY <1>5, <1>7, <2>1, <2>2
<1>12. /\ Len(dat.length_bytes) = 2
       /\ \A d \in 1 .. 2 : \E b \in Int : dat.length_bytes[d] = Cell(lengthkinds[d], b)
  BY <1>2, <1>9
<1> QED BY <1>10, <1>11, <1>12 DEF p

\* What a data packet may hold is a content, and its length has two bytes.
LEMMA KindsFact ==
  ASSUME NEW k
  PROVE  /\ DataContents(data_packets[k]) \subseteq Contents
         /\ LengthKinds(data_packets[k].payload_length) \subseteq LengthPairs
BY DEF DataContents, LengthKinds, LengthPairs, Kinds

\* Whatever the file holds, header fields arrive, of data packets and ACKs.
THEOREM HeadersSurvive == Spec => []HeaderSurvivesPayload
<1>1. PInv => HeaderSurvivesPayload
  <2> SUFFICES ASSUME PInv, NEW k \in DOMAIN data_packets
               PROVE  /\ \A kinds \in Contents :
                           SameHeader(Arrived(AckOnWire(data_packets[k], kinds)),
                                      AckOnWire(data_packets[k], kinds))
                      /\ \A kinds \in DataContents(data_packets[k]) :
                           \A lengthkinds \in LengthKinds(data_packets[k].payload_length) :
                             SameHeader(Arrived(DataOnWire(data_packets[k], kinds, lengthkinds)),
                                        DataOnWire(data_packets[k], kinds, lengthkinds))
    BY Zenon DEF HeaderSurvivesPayload
  <2>1. <<"nul", "nul">> \in LengthPairs
    BY DEF LengthPairs, Kinds
  <2>2. \A kinds \in Contents :
          /\ AckOnWire(data_packets[k], kinds) \in WirePackets
          /\ \A lengthkinds \in LengthPairs :
               DataOnWire(data_packets[k], kinds, lengthkinds) \in WirePackets
    BY <2>1, OnWire
  <2> QED BY <2>2, KindsFact, HeaderArrives
<1> QED BY <1>1, PacketsInvariance, PTL

(***************************************************************************)
(* The text that is sent of a payload: its characters up to the first NUL, *)
(* and bytes of the length after a payload that has none.                  *)
(***************************************************************************)
LEMMA TextSent ==
  ASSUME NEW pckt \in WirePackets
  PROVE  LET text  == PayloadString(pckt)
             p     == pckt.payload
             bytes == pckt.length_bytes
         IN  /\ Len(p) \in Nat /\ Len(bytes) \in Nat /\ Len(text) \in 0 .. Len(p) + Len(bytes)
             /\ \A c \in 1 .. Len(p) : c <= Len(text) => text[c] = p[c] /\ p[c] # NUL
             /\ Len(text) < Len(p) => p[Len(text) + 1] = NUL
             /\ \A d \in 1 .. Len(bytes) :
                  Len(p) + d <= Len(text) => text[Len(p) + d] = bytes[d]
<1> DEFINE p     == pckt.payload
           bytes == pckt.length_bytes
           chars == p \o bytes
           text  == CString(chars)
<1>1. p \in Seq(Chars) /\ bytes \in Seq(Chars)
  BY DEF WirePackets
<1>2. PayloadString(pckt) = text
  BY DEF PayloadString
<1> HIDE DEF p, bytes
<1>3. /\ chars \in Seq(Chars) /\ Len(p) \in Nat /\ Len(bytes) \in Nat
      /\ Len(chars) = Len(p) + Len(bytes)
      /\ \A c \in 1 .. Len(p) : chars[c] = p[c]
      /\ \A c \in 1 .. Len(bytes) : chars[Len(p) + c] = bytes[c]
  BY ONLY <1>1, Joined2
<1> HIDE DEF chars
<1>4. /\ Len(text) \in 0 .. Len(chars)
      /\ \A c \in 1 .. Len(text) : text[c] = chars[c] /\ chars[c] # NUL
      /\ Len(text) = Len(chars) \/ chars[Len(text) + 1] = NUL
  BY <1>3, CStringFact
<1> HIDE DEF text
<1>5. ASSUME NEW c \in 1 .. Len(p), c <= Len(text)
      PROVE  text[c] = p[c] /\ p[c] # NUL
  <2>1. c \in 1 .. Len(text)
    BY <1>3, <1>4, <1>5, SMT
  <2> QED BY <1>3, <1>4, <2>1
<1>6. ASSUME Len(text) < Len(p) PROVE p[Len(text) + 1] = NUL
  <2>1. Len(text) # Len(chars) /\ Len(text) + 1 \in 1 .. Len(p)
    BY <1>3, <1>4, <1>6, SMT
  <2> QED BY <1>3, <1>4, <2>1
<1>7. ASSUME NEW d \in 1 .. Len(bytes), Len(p) + d <= Len(text)
      PROVE  text[Len(p) + d] = bytes[d]
  <2>1. Len(p) + d \in 1 .. Len(text)
    BY <1>3, <1>7, SMT
  <2> QED BY <1>3, <1>4, <2>1
<1>8. Len(text) \in 0 .. Len(p) + Len(bytes)
  BY <1>3, <1>4
<1> QED BY <1>2, <1>3, <1>5, <1>6, <1>7, <1>8 DEF p, bytes

\* Of a payload arrives exactly what is before its first semicolon or NUL.
LEMMA TextArrives ==
  ASSUME PInv, NEW k \in DOMAIN data_packets, NEW kinds \in Contents,
         NEW lengthkinds \in LengthPairs
  PROVE  ArrivesAsText(DataOnWire(data_packets[k], kinds, lengthkinds), kinds)
<1> DEFINE dat   == DataOnWire(data_packets[k], kinds, lengthkinds)
           text  == PayloadString(dat)
           field == Arrived(dat).payload
           p     == dat.payload
<1>1. /\ dat \in WirePackets /\ Len(p) = payload_size /\ Len(dat.length_bytes) = 2
      /\ \A c \in 1 .. payload_size : \E b \in Int : p[c] = Cell(kinds[c - 1], b)
  BY OnWire
<1>2. payload_size \in Nat
  BY DEF PInv
<1> HIDE DEF dat
<1>3. PICK e \in 0 .. Len(text) :
        /\ Len(field) = e
        /\ \A c \in 1 .. e : field[c] = text[c] /\ text[c] # SEP
        /\ e = Len(text) \/ text[e + 1] = SEP
  BY <1>1, PayloadField
<1>4. /\ Len(text) \in 0 .. payload_size + 2
      /\ \A c \in 1 .. payload_size : c <= Len(text) => text[c] = p[c] /\ p[c] # NUL
      /\ Len(text) < payload_size => p[Len(text) + 1] = NUL
  BY <1>1, TextSent
<1> HIDE DEF text, field, p
<1>5. \A d \in 0 .. payload_size - 1 : kinds[d] \in Kinds
  BY DEF Contents
<1>6. \A c \in 1 .. payload_size :
        /\ c - 1 \in 0 .. payload_size - 1
        /\ p[c] = SEP <=> kinds[c - 1] = "semicolon"
        /\ p[c] = NUL <=> kinds[c - 1] = "nul"
  <2>1. \A c \in 1 .. payload_size : c - 1 \in 0 .. payload_size - 1
    BY <1>2, SMT
  <2> QED BY <1>1, <1>5, <2>1, CellFacts
<1>7. ASSUME NEW c \in 1 .. payload_size, \A d \in 0 .. c - 1 : kinds[d] = "other"
      PROVE  c <= Len(field) /\ field[c] = p[c]
  <2>1. \A d \in 1 .. c : p[d] # SEP /\ p[d] # NUL
    <3> SUFFICES ASSUME NEW d \in 1 .. c PROVE p[d] # SEP /\ p[d] # NUL
      OBVIOUS
    <3>1. d \in 1 .. payload_size /\ d - 1 \in 0 .. c - 1
      BY <1>2, SMT
    <3>2. kinds[d - 1] = "other"
      BY <1>7, <3>1
    <3> QED BY <1>6, <3>1, <3>2
  <2>2. c <= Len(text)
    <3> SUFFICES ASSUME ~ (c <= Len(text)) PROVE FALSE
      OBVIOUS
    <3>1. Len(text) < payload_size /\ Len(text) + 1 \in 1 .. c
      BY <1>2, <1>4, SMT
    <3> QED BY <1>4, <2>1, <3>1
  <2>3. c <= e
    <3> SUFFICES ASSUME ~ (c <= e) PROVE FALSE
      OBVIOUS
    <3>1. /\ e + 1 \in 1 .. c /\ e + 1 \in 1 .. payload_size
          /\ e + 1 <= Len(text) /\ e # Len(text)
      BY <1>2, <1>3, <1>4, <2>2, SMT
    <3>2. text[e + 1] = SEP /\ text[e + 1] = p[e + 1]
      BY <1>3, <1>4, <3>1
    <3> QED BY <2>1, <3>1, <3>2
  <2>4. c \in 1 .. e
    BY <1>2, <1>3, <1>4, <2>3, SMT
  <2> QED BY <1>3, <1>4, <2>2, <2>3, <2>4
<1>8. ASSUME NEW c \in 1 .. payload_size, c <= Len(field), NEW d \in 0 .. c - 1
      PROVE  kinds[d] = "other"
  <2>1. /\ d + 1 \in 1 .. payload_size /\ (d + 1) - 1 = d
        /\ d + 1 \in 1 .. e /\ d + 1 <= Len(text)
    BY <1>2, <1>3, <1>4, <1>8, SMT
  <2>2. p[d + 1] # SEP /\ p[d + 1] # NUL
    BY <1>3, <1>4, <2>1
  <2>3. kinds[d] # "semicolon" /\ kinds[d] # "nul" /\ kinds[d] \in Kinds
    BY <1>5, <1>6, <2>1, <2>2
  <2> QED BY <2>3 DEF Kinds
<1> QED BY <1>7, <1>8 DEF ArrivesAsText, dat, field, p

\* With no semicolon in it, and none read after it, the length arrives too.
LEMMA TextEnds ==
  ASSUME PInv, NEW k \in DOMAIN data_packets, NEW kinds \in Contents,
         NEW lengthkinds \in LengthPairs, Range(kinds) \cup Range(lengthkinds) \subseteq {"nul", "other"}
  PROVE  LET dat == DataOnWire(data_packets[k], kinds, lengthkinds)
         IN  Arrived(dat).payload_length = dat.payload_length
<1> DEFINE dat   == DataOnWire(data_packets[k], kinds, lengthkinds)
           text  == PayloadString(dat)
           p     == dat.payload
           bytes == dat.length_bytes
<1>1. /\ dat \in WirePackets /\ Len(p) = payload_size
      /\ \A c \in 1 .. payload_size : \E b \in Int : p[c] = Cell(kinds[c - 1], b)
      /\ Len(bytes) = 2 /\ \A d \in 1 .. 2 : \E b \in Int : bytes[d] = Cell(lengthkinds[d], b)
  BY OnWire
<1>2. payload_size \in Nat
  BY DEF PInv
<1> HIDE DEF dat
<1>3. /\ Len(text) \in 0 .. payload_size + 2
      /\ \A c \in 1 .. payload_size : c <= Len(text) => text[c] = p[c] /\ p[c] # NUL
      /\ \A d \in 1 .. 2 : payload_size + d <= Len(text) => text[payload_size + d] = bytes[d]
  BY <1>1, TextSent
<1> HIDE DEF text, p, bytes
<1>4. \A d \in 0 .. payload_size - 1 : kinds[d] \in Kinds /\ kinds[d] # "semicolon"
  <2>1. \A d \in 0 .. payload_size - 1 : kinds[d] \in Range(kinds)
    BY DEF Contents, Range
  <2> QED BY <2>1 DEF Contents
<1>5. \A d \in 1 .. 2 : bytes[d] # SEP
  <2>1. \A d \in 1 .. 2 : lengthkinds[d] \in Range(lengthkinds) /\ lengthkinds[d] \in Kinds
    <3>1. \A d \in 1 .. 2 : d = 1 \/ d = 2
      BY SMT
    <3> QED BY <3>1, LengthPairsFact
  <2> QED BY <1>1, <2>1, CellFacts
<1>6. \A c \in 1 .. payload_size : p[c] # SEP
  <2>1. \A c \in 1 .. payload_size : c - 1 \in 0 .. payload_size - 1
    BY <1>2, SMT
  <2> QED BY <1>1, <1>4, <2>1, CellFacts
<1>7. \A c \in 1 .. Len(text) : text[c] # SEP
  <2> SUFFICES ASSUME NEW c \in 1 .. Len(text) PROVE text[c] # SEP
    OBVIOUS
  <2>1. \/ c \in 1 .. payload_size /\ c <= Len(text)
        \/ c - payload_size \in 1 .. 2 /\ c = payload_size + (c - payload_size) /\ c <= Len(text)
    BY <1>2, <1>3, SMT
  <2>2. CASE c \in 1 .. payload_size /\ c <= Len(text)
    BY <1>3, <1>6, <2>2
  <2>3. CASE c - payload_size \in 1 .. 2 /\ c = payload_size + (c - payload_size) /\ c <= Len(text)
    BY <1>3, <1>5, <2>3
  <2> QED BY <2>1, <2>2, <2>3
<1> QED BY <1>1, <1>7, LengthArrives DEF dat, text

\* Exactly the text of a payload arrives; with no semicolon, also its length.
THEOREM PayloadsArrive == Spec => []PayloadArrivesToSemicolon
<1>1. PInv => PayloadArrivesToSemicolon
  <2> SUFFICES ASSUME PInv, NEW k \in DOMAIN data_packets,
                      NEW kinds \in DataContents(data_packets[k]),
                      NEW lengthkinds \in LengthKinds(data_packets[k].payload_length)
               PROVE  LET pckt == DataOnWire(data_packets[k], kinds, lengthkinds)
                      IN  /\ ArrivesAsText(pckt, kinds)
                          /\ Range(kinds) \cup Range(lengthkinds) \subseteq {"nul", "other"} =>
                               Arrived(pckt).payload_length = pckt.payload_length
    BY Zenon DEF PayloadArrivesToSemicolon
  <2>1. kinds \in Contents /\ lengthkinds \in LengthPairs
    BY KindsFact
  <2> QED BY <2>1, TextArrives, TextEnds
<1> QED BY <1>1, PacketsInvariance, PTL
=============================================================================
