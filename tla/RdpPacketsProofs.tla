-------------------------- MODULE RdpPacketsProofs --------------------------
(***************************************************************************)
(* Which numbers the packets of a transfer have, for every file length and *)
(* payload size: packetize's sequence numbers grow, and two packets share  *)
(* an ackno only where FinAcknoIsItsOwn says so.                           *)
(***************************************************************************)
EXTENDS RdpPacketList, WellFoundedInduction, TLAPS

\* Multiplication by a positive number keeps strict order, one factor apart.
LEMMA MultipleGap ==
  ASSUME NEW p \in Nat, NEW a \in Int, NEW b \in Int, a < b
  PROVE  p * a + p <= p * b
<1>1. PICK d \in Nat : b = a + 1 + d
  BY SMT
<1>2. p * b = p * a + p + p * d
  BY <1>1, SMT
<1>3. p * d >= 0
  BY SMT
<1> QED BY <1>2, <1>3, SMT

\* The last packet of a file carries between one byte and a full payload.
LEMMA FullPacketsFact ==
  /\ FullPackets \in Nat
  /\ LastLength \in 1 .. MAX_PAYLOAD_SIZE
  /\ file_length = MAX_PAYLOAD_SIZE * FullPackets + LastLength
<1> DEFINE p == MAX_PAYLOAD_SIZE
           q == (file_length - 1) \div p
<1>1. p \in Nat /\ p > 0 /\ file_length \in Nat /\ file_length > 0
  BY SizesAssumption, SMT DEF SizesAssumption
<1>2. /\ q \in Int
      /\ p * q <= file_length - 1
      /\ file_length - 1 < p * q + p
  BY <1>1, Z3
<1>3. q >= 0
  <2>1. SUFFICES ASSUME q < 0 PROVE FALSE
    BY <1>2, SMT
  <2>2. p * q + p <= p * 0
    BY <1>1, <1>2, <2>1, MultipleGap
  <2> QED BY <1>1, <1>2, <2>2, SMT
<1> QED BY <1>1, <1>2, <1>3, SMT DEF FullPackets, LastLength

-----------------------------------------------------------------------------
\* Every field of a packet of the transfer is what create_packet makes it.
LEMMA PacketFields ==
  /\ NumPackets \in Nat \ {0}
  /\ SynPacket.ackno = 1 /\ SynPacket.seqno = 0
  /\ FinPacket.ackno = file_length + MAX_PAYLOAD_SIZE
  /\ \A k \in DataIdx : /\ k \in Nat \ {0}
                        /\ DataPacket(k).ackno = Ackno(k)
                        /\ DataPacket(k).seqno = Seqno(k)
                        /\ Ackno(k) = Seqno(k) + PayloadLength(k)
  /\ \A pckt : AckFor(pckt).seqno = pckt.ackno
<1>1. NumPackets \in Nat \ {0}
  BY FullPacketsFact, SMT DEF NumPackets
<1>2. SynPacket.ackno = 1 /\ SynPacket.seqno = 0
  BY SMT DEF SynPacket, create_packet, first_seqno
<1>3. FinPacket.ackno = file_length + MAX_PAYLOAD_SIZE
  BY SizesAssumption, SMT DEF SizesAssumption, FinPacket, create_packet, last_ackno
<1>4. \A k \in DataIdx : /\ k \in Nat \ {0}
                         /\ DataPacket(k).ackno = Ackno(k)
                         /\ DataPacket(k).seqno = Seqno(k)
                         /\ Ackno(k) = Seqno(k) + PayloadLength(k)
  BY <1>1, SMT DEF DataIdx, Ackno, DataPacket, create_packet
<1>5. \A pckt : AckFor(pckt).seqno = pckt.ackno
  BY SMT DEF AckFor, create_packet
<1> QED BY <1>1, <1>2, <1>3, <1>4, <1>5

\* The closed forms of the numbers of data packet k.
LEMMA DataNumbers ==
  ASSUME NEW k \in DataIdx
  PROVE  /\ PayloadLength(k) \in 1 .. MAX_PAYLOAD_SIZE
         /\ Seqno(k) \in Nat \ {0}
         /\ Ackno(k) \in Nat
         /\ Ackno(k) > 1
         /\ k <= FullPackets =>
              /\ Seqno(k) = MAX_PAYLOAD_SIZE * k - MAX_PAYLOAD_SIZE + 1
              /\ Ackno(k) = MAX_PAYLOAD_SIZE * k + 1
              /\ MAX_PAYLOAD_SIZE * k >= MAX_PAYLOAD_SIZE
              /\ MAX_PAYLOAD_SIZE * k <= MAX_PAYLOAD_SIZE * FullPackets
         /\ k > FullPackets =>
              /\ k = NumPackets
              /\ Seqno(k) = MAX_PAYLOAD_SIZE * FullPackets + LastLength
              /\ Ackno(k) = MAX_PAYLOAD_SIZE * FullPackets + 2 * LastLength
<1> DEFINE p == MAX_PAYLOAD_SIZE
           m == FullPackets
<1>1. /\ p \in Nat /\ p > 0 /\ m \in Nat /\ LastLength \in 1 .. p
      /\ file_length = p * m + LastLength
      /\ p * m \in Nat
  BY SizesAssumption, FullPacketsFact, SMT DEF SizesAssumption
<1>2. k \in Nat /\ k > 0 /\ k <= m + 1
  BY <1>1, SMT DEF DataIdx, NumPackets
<1>3. Ackno(k) = Seqno(k) + PayloadLength(k)
  BY PacketFields
<1>4. CASE k <= m
  <2>1. p * (k - 1) = p * k - p
    BY <1>1, <1>2, SMT
  <2>2. p * 0 + p <= p * k
    BY <1>1, <1>2, MultipleGap
  <2>3. p * k <= p * m
    <3>1. CASE k = m
      BY <3>1, <1>1, SMT
    <3>2. CASE k < m
      <4>1. p * k + p <= p * m
        BY <1>1, <1>2, <3>2, MultipleGap
      <4> QED BY <4>1, <1>1, <1>2, SMT
    <3> QED BY <3>1, <3>2, <1>1, <1>2, <1>4, SMT
  <2>4. Seqno(k) = p * k - p + 1 /\ PayloadLength(k) = p
    BY <2>1, <1>4 DEF Seqno, PayloadLength
  <2>5. p * k \in Nat
    BY <1>1, <1>2, SMT
  <2> HIDE DEF m
  <2> QED BY <1>1, <1>2, <1>3, <1>4, <2>2, <2>3, <2>4, <2>5, SMT DEF m
<1>5. CASE k > m
  <2>1. k = NumPackets
    BY <1>1, <1>2, <1>5, SMT DEF NumPackets
  <2>2. ~(k <= m)
    BY <1>1, <1>2, <1>5, SMT
  <2>3. Seqno(k) = p * m + LastLength /\ PayloadLength(k) = LastLength
    BY <2>2, <1>1 DEF Seqno, PayloadLength
  <2> QED BY <1>1, <1>2, <1>3, <1>5, <2>1, <2>2, <2>3, SMT
<1> QED BY <1>1, <1>2, <1>4, <1>5, SMT

\* Data packets are numbered in the order of the file, and so are the acknos
\* the receiver answers with.
LEMMA NumbersGrow ==
  ASSUME NEW j \in DataIdx, NEW k \in DataIdx, j < k
  PROVE  Seqno(j) < Seqno(k) /\ Ackno(j) < Ackno(k)
<1> DEFINE p == MAX_PAYLOAD_SIZE
           m == FullPackets
<1>1. /\ p \in Nat /\ p > 0 /\ m \in Nat /\ LastLength \in 1 .. p
      /\ p * m \in Nat
  BY SizesAssumption, FullPacketsFact, SMT DEF SizesAssumption
<1>2. j \in Nat /\ k \in Nat /\ k <= m + 1 /\ p * j \in Nat /\ p * k \in Nat
  BY <1>1, SMT DEF DataIdx, NumPackets
<1>3. j <= m
  BY <1>1, <1>2, SMT
<1>4. p * j + p <= p * k
  BY <1>1, <1>2, MultipleGap
<1>5. CASE k <= m
  BY <1>1, <1>2, <1>3, <1>4, <1>5, DataNumbers, SMT
<1>6. CASE k > m
  BY <1>1, <1>2, <1>3, <1>6, DataNumbers, SMT
<1> QED BY <1>1, <1>2, <1>5, <1>6, SMT

\* Two data packets never share a sequence number or an ackno, and none has
\* the ackno of the SYN.
LEMMA NumbersDistinct ==
  ASSUME NEW j \in DataIdx, NEW k \in DataIdx
  PROVE  /\ Seqno(j) = Seqno(k) => j = k
         /\ Ackno(j) = Ackno(k) => j = k
         /\ Ackno(k) # SynPacket.ackno
<1>1. j \in Nat /\ k \in Nat
  BY PacketFields
<1>2. /\ Seqno(j) \in Nat /\ Seqno(k) \in Nat
      /\ Ackno(j) \in Nat /\ Ackno(k) \in Nat /\ Ackno(k) > 1
  BY DataNumbers
<1>3. CASE j < k
  BY <1>1, <1>2, <1>3, NumbersGrow, PacketFields, SMT
<1>4. CASE k < j
  BY <1>1, <1>2, <1>4, NumbersGrow, PacketFields, SMT
<1> QED BY <1>1, <1>2, <1>3, <1>4, PacketFields, SMT
-----------------------------------------------------------------------------
\* A non-empty set of indices has a least one.
LEMMA LeastIndex ==
  ASSUME NEW S, S \subseteq Nat, S # {}
  PROVE  Min(S) \in S /\ \A t \in S : Min(S) <= t
<1>1. PICK x \in S : \A y \in S : ~ (<<y, x>> \in OpToRel(<, Nat))
  BY NatLessThanWellFounded, WFMin
<1>2. \A y \in S : ~ (y < x)
  BY <1>1 DEF OpToRel
<1>3. \A y \in S : x <= y
  BY <1>2, SMT
<1> QED BY <1>1, <1>3 DEF Min

-----------------------------------------------------------------------------
(***************************************************************************)
(* The list.  add_packet puts the packet at the end; store_dataPacket then *)
(* finds it there or before, and overwrites it by itself: a packet is all  *)
(* that its sequence number says.                                          *)
(***************************************************************************)
DataPackets == {DataPacket(k) : k \in DataIdx}

\* Storing a packet that the list has changes nothing.
LEMMA StoredAgain ==
  ASSUME NEW list \in Seq(DataPackets), NEW k \in DataIdx,
         NEW n \in 1 .. Len(list), list[n] = DataPacket(k)
  PROVE  store_dataPacket(DataPacket(k), list) = list
<1> DEFINE I == {j \in 1 .. Len(list) : list[j].seqno = DataPacket(k).seqno}
           t == Min(I)
<1>1. n \in I
  OBVIOUS
<1>2. I \subseteq Nat /\ I # {}
  BY <1>1, SMT
<1>3. t \in I
  BY <1>2, LeastIndex
<1>4. t # 0 /\ t \in 1 .. Len(list) /\ list[t].seqno = DataPacket(k).seqno
  BY <1>3, SMT
<1>5. store_dataPacket(DataPacket(k), list) =
        IF t = 0 THEN Append(list, DataPacket(k)) ELSE [list EXCEPT ![t] = DataPacket(k)]
  BY <1>2 DEF store_dataPacket, SelectInSeq
<1> HIDE DEF t, I
<1>6. list[t] = DataPacket(k)
  <2>1. list[t] \in DataPackets
    BY <1>4, SMT
  <2>2. PICK j \in DataIdx : list[t] = DataPacket(j)
    BY <2>1 DEF DataPackets
  <2>3. Seqno(j) = Seqno(k)
    BY <1>4, <2>2, PacketFields
  <2> QED BY <2>2, <2>3, NumbersDistinct
<1>7. [list EXCEPT ![t] = DataPacket(k)] = list
  BY <1>4, <1>6, SMT
<1> QED BY <1>4, <1>5, <1>7

\* So a DAT that arrives is appended, whether the list has it or not.
LEMMA DatAppended ==
  ASSUME NEW list \in Seq(DataPackets), NEW k \in DataIdx
  PROVE  /\ store_dataPacket(DataPacket(k), add_packet(DataPacket(k), list)) =
              Append(list, DataPacket(k))
         /\ Append(list, DataPacket(k)) \in Seq(DataPackets)
<1> DEFINE longer == Append(list, DataPacket(k))
<1>1. DataPacket(k) \in DataPackets
  BY DEF DataPackets
<1>2. /\ longer \in Seq(DataPackets)
      /\ Len(list) + 1 \in 1 .. Len(longer)
      /\ longer[Len(list) + 1] = DataPacket(k)
  BY <1>1, SMT
<1> HIDE DEF longer
<1>3. store_dataPacket(DataPacket(k), longer) = longer
  BY <1>2, StoredAgain
<1> QED BY <1>2, <1>3 DEF add_packet, longer

\* The sequence numbers of a list, and of one with a packet more.
SeqnosIn(list) == {list[n].seqno : n \in DOMAIN list}

LEMMA SeqnosAppended ==
  ASSUME NEW list \in Seq(DataPackets), NEW k \in DataIdx
  PROVE  SeqnosIn(Append(list, DataPacket(k))) = SeqnosIn(list) \cup {Seqno(k)}
<1> DEFINE longer == Append(list, DataPacket(k))
<1>1. DataPacket(k) \in DataPackets
  BY DEF DataPackets
<1>2. /\ DOMAIN list = 1 .. Len(list) /\ Len(list) \in Nat
      /\ DOMAIN longer = 1 .. Len(list) + 1
      /\ \A n \in 1 .. Len(list) : longer[n] = list[n]
      /\ longer[Len(list) + 1] = DataPacket(k)
  BY <1>1, SMT
<1>3. DOMAIN longer = DOMAIN list \cup {Len(list) + 1}
  BY <1>2, SMT
<1> HIDE DEF longer
<1>4. SeqnosIn(longer) = SeqnosIn(list) \cup {DataPacket(k).seqno}
  BY <1>2, <1>3, Zenon DEF SeqnosIn
<1> QED BY <1>4, PacketFields DEF longer

=============================================================================
