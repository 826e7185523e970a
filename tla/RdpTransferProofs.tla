------------------------- MODULE RdpTransferProofs --------------------------
(***************************************************************************)
(* Proofs about RdpTransfer for every file length, payload size, window    *)
(* size and bound on the timers: the invariants that do not depend on the  *)
(* window.                                                                 *)
(***************************************************************************)
EXTENDS RdpTransfer, RdpPacketsProofs, WellFoundedInduction

\* The FIN's ackno is the last data packet's exactly when that is full.
THEOREM FinAcknoCollides ==
  FinAcknoIsItsOwn <=> LastLength # MAX_PAYLOAD_SIZE
<1>1. /\ MAX_PAYLOAD_SIZE \in Nat /\ LastLength \in 1 .. MAX_PAYLOAD_SIZE
      /\ FullPackets \in Nat /\ MAX_PAYLOAD_SIZE * FullPackets \in Nat
      /\ FinPacket.ackno = MAX_PAYLOAD_SIZE * FullPackets + LastLength + MAX_PAYLOAD_SIZE
  BY FullPacketsFact, PacketFields, SizesAssumption, SMT DEF SizesAssumption
<1>2. NumPackets \in DataIdx /\ NumPackets > FullPackets
  BY <1>1, SMT DEF DataIdx, NumPackets
<1>3. Ackno(NumPackets) = MAX_PAYLOAD_SIZE * FullPackets + 2 * LastLength
  BY <1>2, DataNumbers
<1>4. ASSUME LastLength # MAX_PAYLOAD_SIZE, NEW k \in DataIdx
      PROVE  Ackno(k) # FinPacket.ackno
  <2>1. k \in Nat
    BY PacketFields
  <2>2. CASE k <= FullPackets
    BY <1>1, <2>1, <2>2, DataNumbers, SMT
  <2>3. CASE k > FullPackets
    BY <1>1, <1>4, <2>1, <2>3, DataNumbers, SMT
  <2> QED BY <1>1, <2>1, <2>2, <2>3, SMT
<1> QED BY <1>1, <1>2, <1>3, <1>4, SMT DEF FinAcknoIsItsOwn

-----------------------------------------------------------------------------
\* find_timer finds a timer with the ackno if there is one, and the first.
LEMMA FindLeast ==
  ASSUME NEW list \in Seq(Timers), NEW t \in DOMAIN list
  PROVE  LET f == find_timer(list, list[t].pckt_ackno)
         IN  /\ f \in DOMAIN list
             /\ list[f].pckt_ackno = list[t].pckt_ackno
             /\ f <= t
<1> DEFINE a     == list[t].pckt_ackno
           found == {u \in DOMAIN list : list[u].pckt_ackno = a}
<1>1. t \in found /\ found \in SUBSET Nat
  BY SMT
<1>2. \E n \in found : \A m \in found : n <= m
  <2> DEFINE R == OpToRel(<, Nat)
  <2>1. IsWellFoundedOn(R, Nat)
    BY NatLessThanWellFounded
  <2>2. \A x, y \in Nat : <<y, x>> \in R <=> y < x
    BY DEF OpToRel
  <2> HIDE DEF R
  <2>3. PICK x \in found : \A y \in found : ~ (<<y, x>> \in R)
    BY <1>1, <2>1, WFMin
  <2>4. ASSUME NEW y \in found PROVE x <= y
    <3>1. x \in Nat /\ y \in Nat /\ ~ (y < x)
      BY <1>1, <2>2, <2>3
    <3> QED BY <3>1, SMT
  <2> QED BY <2>3, <2>4
<1>3. find_timer(list, a) = CHOOSE n \in found : \A m \in found : n <= m
  BY <1>1 DEF find_timer
<1>4. find_timer(list, a) \in found /\ \A m \in found : find_timer(list, a) <= m
  BY <1>2, <1>3
<1> QED BY <1>1, <1>4

\* find_timer returns the first timer with an ackno.
LEMMA FindFirst ==
  ASSUME NEW list \in Seq(Timers), NEW a, NEW t \in DOMAIN list,
         list[t].pckt_ackno = a,
         \A u \in DOMAIN list : u < t => list[u].pckt_ackno # a
  PROVE  find_timer(list, a) = t
<1> DEFINE found == {u \in DOMAIN list : list[u].pckt_ackno = a}
<1>1. t \in found /\ DOMAIN list \subseteq Nat
  BY SMT
<1>2. \A u \in found : t <= u
  BY <1>1, SMT
<1>3. \A s \in found : (\A u \in found : s <= u) => s = t
  BY <1>1, <1>2, SMT
<1>4. find_timer(list, a) = CHOOSE s \in found : \A u \in found : s <= u
  BY <1>1 DEF find_timer
<1> HIDE DEF found
<1> QED BY <1>1, <1>2, <1>3, <1>4

\* Where the timers of a list in place are found.
LEMMA FindInPlace ==
  ASSUME NEW list \in Seq(Timers), InPlace(list)
  PROVE  /\ \A k \in DataIdx : k \in DOMAIN list /\ find_timer(list, Ackno(k)) = k
         /\ Len(list) > NumPackets =>
              /\ NumPackets + 1 \in DOMAIN list
              /\ find_timer(list, SynPacket.ackno) = NumPackets + 1
         /\ Len(list) > NumPackets + 1 \/ ~FinAcknoIsItsOwn =>
              /\ find_timer(list, FinPacket.ackno) \in DOMAIN list
              /\ list[find_timer(list, FinPacket.ackno)].pckt_ackno = FinPacket.ackno
              /\ FinAcknoIsItsOwn =>
                   find_timer(list, FinPacket.ackno) = NumPackets + 2
<1>1. /\ NumPackets \in Nat \ {0}
      /\ DOMAIN list = 1 .. Len(list) /\ Len(list) \in Nat
      /\ Len(list) >= NumPackets
      /\ FinPacket.ackno \in Nat /\ FinPacket.ackno > 1
      /\ SynPacket.ackno = 1
  BY PacketFields, SizesAssumption, SMT DEF InPlace, SizesAssumption
<1>2. \A t \in DOMAIN list :
        /\ t \in DataIdx => list[t].pckt_ackno = Ackno(t)
        /\ t = NumPackets + 1 => list[t].pckt_ackno = SynPacket.ackno
        /\ t > NumPackets + 1 => list[t].pckt_ackno = FinPacket.ackno
        /\ t \in DataIdx \/ t = NumPackets + 1 \/ t > NumPackets + 1
  BY <1>1, SMT DEF InPlace, DataIdx
<1>3. ASSUME NEW k \in DataIdx
      PROVE  k \in DOMAIN list /\ find_timer(list, Ackno(k)) = k
  <2>1. k \in DOMAIN list
    BY <1>1, SMT DEF DataIdx
  <2>2. \A u \in DOMAIN list : u < k => u \in DataIdx /\ u # k
    BY <1>1, SMT DEF DataIdx
  <2>3. \A u \in DOMAIN list : u < k => list[u].pckt_ackno # Ackno(k)
    BY <1>2, <2>2, NumbersDistinct
  <2> QED BY <1>2, <2>1, <2>3, FindFirst
<1>4. ASSUME Len(list) > NumPackets
      PROVE  /\ NumPackets + 1 \in DOMAIN list
             /\ find_timer(list, SynPacket.ackno) = NumPackets + 1
  <2>1. NumPackets + 1 \in DOMAIN list
    BY <1>1, <1>4, SMT
  <2>2. \A u \in DOMAIN list : u < NumPackets + 1 => u \in DataIdx
    BY <1>1, SMT DEF DataIdx
  <2>3. \A u \in DOMAIN list : u < NumPackets + 1 => list[u].pckt_ackno # SynPacket.ackno
    BY <1>2, <2>2, NumbersDistinct
  <2> QED BY <1>2, <2>1, <2>3, FindFirst
<1>5. ASSUME NEW k \in DataIdx, Ackno(k) = FinPacket.ackno
      PROVE  /\ find_timer(list, FinPacket.ackno) \in DOMAIN list
             /\ list[find_timer(list, FinPacket.ackno)].pckt_ackno = FinPacket.ackno
  BY <1>2, <1>3, <1>5
<1>6. ASSUME FinAcknoIsItsOwn, Len(list) > NumPackets + 1
      PROVE  /\ NumPackets + 2 \in DOMAIN list
             /\ list[NumPackets + 2].pckt_ackno = FinPacket.ackno
             /\ find_timer(list, FinPacket.ackno) = NumPackets + 2
  <2>1. NumPackets + 2 \in DOMAIN list /\ NumPackets + 2 > NumPackets + 1
    BY <1>1, <1>6, SMT
  <2>2. \A u \in DOMAIN list : u < NumPackets + 2 => u \in DataIdx \/ u = NumPackets + 1
    BY <1>1, SMT DEF DataIdx
  <2>3. SynPacket.ackno # FinPacket.ackno
    BY <1>1, SMT
  <2>4. \A u \in DOMAIN list : u < NumPackets + 2 => list[u].pckt_ackno # FinPacket.ackno
    BY <1>2, <1>6, <2>2, <2>3 DEF FinAcknoIsItsOwn
  <2> QED BY <1>2, <2>1, <2>4, FindFirst
<1> QED BY <1>3, <1>4, <1>5, <1>6 DEF FinAcknoIsItsOwn

-----------------------------------------------------------------------------
\* What find_timer returns depends on the acknos of a list only.
LEMMA FindSame ==
  ASSUME NEW list \in Seq(Timers), NEW list2 \in Seq(Timers),
         Len(list2) = Len(list),
         \A t \in DOMAIN list : list2[t].pckt_ackno = list[t].pckt_ackno
  PROVE  /\ DOMAIN list2 = DOMAIN list
         /\ \A a : find_timer(list2, a) = find_timer(list, a)
<1>1. DOMAIN list2 = DOMAIN list
  BY SMT
<1>2. ASSUME NEW a
      PROVE  {t \in DOMAIN list2 : list2[t].pckt_ackno = a}
               = {t \in DOMAIN list : list[t].pckt_ackno = a}
  BY <1>1
<1> QED
  <2> DEFINE First(S) == IF S = {} THEN NULL ELSE CHOOSE t \in S : \A u \in S : t <= u
  <2>1. ASSUME NEW a PROVE find_timer(list2, a) = find_timer(list, a)
    <3>1. /\ find_timer(list2, a) = First({t \in DOMAIN list2 : list2[t].pckt_ackno = a})
          /\ find_timer(list, a) = First({t \in DOMAIN list : list[t].pckt_ackno = a})
      BY DEF find_timer
    <3> HIDE DEF First
    <3> QED BY <1>2, <3>1
  <2> QED BY <1>1, <2>1

\* A list stays in place when acknos stay and no timer starts running but the
\* one that is found.
LEMMA InPlaceKept ==
  ASSUME NEW list \in Seq(Timers), NEW list2 \in Seq(Timers), InPlace(list),
         Len(list2) = Len(list),
         \A t \in DOMAIN list :
           /\ list2[t].pckt_ackno = list[t].pckt_ackno
           /\ list2[t].running =>
                list[t].running \/ t = find_timer(list, list[t].pckt_ackno)
  PROVE  InPlace(list2)
<1>1. /\ DOMAIN list2 = DOMAIN list
      /\ \A a : find_timer(list2, a) = find_timer(list, a)
  BY FindSame
<1>2. ASSUME NEW t \in DOMAIN list, list2[t].running
      PROVE  t = find_timer(list2, list2[t].pckt_ackno)
  BY <1>1, <1>2 DEF InPlace
<1> QED BY <1>1, <1>2 DEF InPlace

\* What stopping and restarting change of a timer, and leave.
LEMMA TimerFields ==
  ASSUME NEW timer \in Timers
  PROVE  /\ stopped(timer) \in Timers
         /\ stopped(timer).pckt_ackno = timer.pckt_ackno
         /\ stopped(timer).sent = timer.sent
         /\ ~stopped(timer).running
         /\ restarted(timer) \in Timers
         /\ restarted(timer).pckt_ackno = timer.pckt_ackno
         /\ restarted(timer).sent
         /\ restarted(timer).running
         /\ ~restarted(timer).timedout
<1>1. stopped(timer) \in Timers /\ restarted(timer) \in Timers
  BY DEF stopped, restarted, Timers
<1>2. /\ stopped(timer).pckt_ackno = timer.pckt_ackno
      /\ stopped(timer).sent = timer.sent
  BY DEF stopped, Timers
<1>3. ~stopped(timer).running
  BY DEF stopped, Timers
<1>4. restarted(timer).pckt_ackno = timer.pckt_ackno
  BY DEF restarted, Timers
<1>5. restarted(timer).sent
  BY DEF restarted, Timers
<1>6. restarted(timer).running
  BY DEF restarted, Timers
<1>7. ~restarted(timer).timedout
  BY DEF restarted, Timers
<1> QED BY <1>1, <1>2, <1>3, <1>4, <1>5, <1>6, <1>7

\* Replacing one timer of a list.
LEMMA ReplaceTimer ==
  ASSUME NEW list \in Seq(Timers), NEW f \in DOMAIN list, NEW x \in Timers,
         NEW list2, list2 = [list EXCEPT ![f] = x]
  PROVE  /\ list2 \in Seq(Timers)
         /\ Len(list2) = Len(list)
         /\ DOMAIN list2 = DOMAIN list
         /\ \A t \in DOMAIN list : list2[t] = IF t = f THEN x ELSE list[t]
<1>1. list \in [1 .. Len(list) -> Timers] /\ Len(list) \in Nat
  BY SMT
<1>2. list2 \in [1 .. Len(list) -> Timers]
  BY <1>1, SMT
<1> QED BY <1>1, <1>2, SMT

\* stop_timer stops one timer, and the list stays in place.
LEMMA StopTimer ==
  ASSUME NEW list \in Seq(Timers), InPlace(list), NEW a,
         find_timer(list, a) \in DOMAIN list,
         NEW list2, list2 = stop_timer(list, a)
  PROVE  /\ list2 \in Seq(Timers)
         /\ InPlace(list2)
         /\ Len(list2) = Len(list)
         /\ \A t \in DOMAIN list :
              list2[t] = IF t = find_timer(list, a) THEN stopped(list[t]) ELSE list[t]
<1> DEFINE f == find_timer(list, a)
<1>1. \A t \in DOMAIN list : list[t] \in Timers
  BY SMT
<1>2. /\ list2 \in Seq(Timers)
      /\ Len(list2) = Len(list)
      /\ \A t \in DOMAIN list : list2[t] = IF t = f THEN stopped(list[f]) ELSE list[t]
  <2>1. stopped(list[f]) \in Timers
    BY <1>1, TimerFields
  <2>2. list2 = [list EXCEPT ![f] = stopped(list[f])]
    BY DEF stop_timer
  <2> QED BY <2>1, <2>2, ReplaceTimer
<1> HIDE DEF f
<1>3. ASSUME NEW t \in DOMAIN list
      PROVE  /\ list2[t].pckt_ackno = list[t].pckt_ackno
             /\ list2[t].running => list[t].running
  <2>1. CASE t = f
    <3>1. list2[t] = stopped(list[t]) /\ list[t] \in Timers
      BY <1>1, <1>2, <2>1
    <3> QED BY <2>1, <3>1, TimerFields
  <2>2. CASE t # f
    <3>1. list2[t] = list[t]
      BY <1>2, <2>2
    <3> QED BY <3>1
  <2> QED BY <2>1, <2>2
<1> QED BY <1>2, <1>3, InPlaceKept DEF f

\* start_timer restarts one timer, and the list stays in place.
LEMMA StartTimer ==
  ASSUME NEW list \in Seq(Timers), InPlace(list), NEW a,
         find_timer(list, a) \in DOMAIN list,
         list[find_timer(list, a)].pckt_ackno = a,
         NEW list2, list2 = start_timer(list, a)
  PROVE  /\ list2 \in Seq(Timers)
         /\ InPlace(list2)
         /\ Len(list2) = Len(list)
         /\ \A t \in DOMAIN list :
              list2[t] = IF t = find_timer(list, a) THEN restarted(list[t]) ELSE list[t]
<1> DEFINE f == find_timer(list, a)
<1>1. \A t \in DOMAIN list : list[t] \in Timers
  BY SMT
<1>2. /\ list2 \in Seq(Timers)
      /\ Len(list2) = Len(list)
      /\ \A t \in DOMAIN list : list2[t] = IF t = f THEN restarted(list[f]) ELSE list[t]
  <2>1. restarted(list[f]) \in Timers
    BY <1>1, TimerFields
  <2>2. list2 = [list EXCEPT ![f] = restarted(list[f])]
    BY DEF start_timer
  <2> QED BY <2>1, <2>2, ReplaceTimer
<1>3. f = find_timer(list, list[f].pckt_ackno)
  OBVIOUS
<1> HIDE DEF f
<1>4. ASSUME NEW t \in DOMAIN list
      PROVE  /\ list2[t].pckt_ackno = list[t].pckt_ackno
             /\ list2[t].running => \/ list[t].running
                                    \/ t = find_timer(list, list[t].pckt_ackno)
  <2>1. CASE t = f
    <3>1. list2[t] = restarted(list[t]) /\ list[t] \in Timers
      BY <1>1, <1>2, <2>1
    <3> QED BY <2>1, <3>1, <1>3, TimerFields
  <2>2. CASE t # f
    <3>1. list2[t] = list[t]
      BY <1>2, <2>2
    <3> QED BY <3>1
  <2> QED BY <2>1, <2>2
<1> QED BY <1>2, <1>4, InPlaceKept DEF f

\* The elements of a list with one more timer.
LEMMA AppendFact ==
  ASSUME NEW list \in Seq(Timers), NEW x \in Timers
  PROVE  /\ Append(list, x) \in Seq(Timers)
         /\ Len(list) \in Nat
         /\ Len(Append(list, x)) = Len(list) + 1
         /\ DOMAIN list = 1 .. Len(list)
         /\ DOMAIN Append(list, x) = 1 .. Len(list) + 1
         /\ \A t \in 1 .. Len(list) : Append(list, x)[t] = list[t]
         /\ Append(list, x)[Len(list) + 1] = x
  OBVIOUS

\* A timer is appended for the SYN first, then for FINs only.
LEMMA InPlaceExtended ==
  ASSUME NEW list \in Seq(Timers), NEW list2 \in Seq(Timers), InPlace(list),
         NEW a, NEW n \in Nat, n = Len(list),
         \/ n = NumPackets /\ a = SynPacket.ackno
         \/ n > NumPackets /\ a = FinPacket.ackno,
         Len(list2) = n + 1,
         \A t \in DOMAIN list : list2[t] = list[t],
         list2[n + 1].pckt_ackno = a,
         ~list2[n + 1].running
  PROVE  InPlace(list2)
<1>1. /\ NumPackets \in Nat /\ NumPackets > 0
      /\ DOMAIN list = 1 .. n /\ DOMAIN list2 = 1 .. n + 1
      /\ n >= NumPackets
  <2>1. n >= NumPackets
    BY DEF InPlace
  <2> QED BY <2>1, PacketFields, SMT
<1>2. ASSUME NEW t \in DOMAIN list2
      PROVE  /\ t \in DataIdx       => list2[t].pckt_ackno = Ackno(t)
             /\ t = NumPackets + 1  => list2[t].pckt_ackno = SynPacket.ackno
             /\ t > NumPackets + 1  => list2[t].pckt_ackno = FinPacket.ackno
  <2>1. CASE t \in DOMAIN list
    BY <2>1 DEF InPlace
  <2>2. CASE t = n + 1
    <3>1. t \notin DataIdx
      BY <1>1, <2>2, SMT DEF DataIdx
    <3>2. /\ t = NumPackets + 1 => a = SynPacket.ackno
          /\ t > NumPackets + 1 => a = FinPacket.ackno
      BY <1>1, <2>2, SMT
    <3> QED BY <2>2, <3>1, <3>2
  <2>3. t \in DOMAIN list \/ t = n + 1
    BY <1>1, SMT
  <2> QED BY <2>1, <2>2, <2>3
<1>3. ASSUME NEW t \in DOMAIN list2, list2[t].running
      PROVE  t = find_timer(list2, list2[t].pckt_ackno)
  <2>1. t # n + 1
    BY <1>3
  <2>2. t \in DOMAIN list
    BY <1>1, <2>1, SMT
  <2>3. t = find_timer(list, list[t].pckt_ackno)
    BY <1>3, <2>2 DEF InPlace
  <2>4. ASSUME NEW u \in DOMAIN list2, u < t
        PROVE  list2[u].pckt_ackno # list2[t].pckt_ackno
    <3>1. u \in DOMAIN list /\ ~ (t <= u)
      BY <1>1, <2>2, <2>4, SMT
    <3>2. list[u].pckt_ackno # list[t].pckt_ackno
      BY <2>3, <3>1, FindLeast
    <3> QED BY <2>2, <3>1, <3>2
  <2> QED BY <2>4, FindFirst
<1> QED BY <1>1, <1>2, <1>3 DEF InPlace

\* add_timer keeps the list in place for a SYN or FIN timer.
LEMMA AppendTimer ==
  ASSUME NEW list \in Seq(Timers), InPlace(list), NEW a \in Nat,
         \/ Len(list) = NumPackets /\ a = SynPacket.ackno
         \/ Len(list) > NumPackets /\ a = FinPacket.ackno,
         NEW list2, list2 = add_timer(list, create_timer(a, TRUE))
  PROVE  /\ list2 \in Seq(Timers)
         /\ InPlace(list2)
         /\ Len(list2) = Len(list) + 1
         /\ \A t \in DOMAIN list : list2[t] = list[t]
<1> DEFINE timer == create_timer(a, TRUE)
<1>1. timer \in Timers /\ timer.pckt_ackno = a /\ ~timer.running
  BY SMT DEF create_timer, Timers
<1>2. list2 = Append(list, timer)
  BY DEF add_timer
<1> HIDE DEF timer
<1>3. /\ Append(list, timer) \in Seq(Timers)
      /\ Len(list) \in Nat
      /\ Len(Append(list, timer)) = Len(list) + 1
      /\ \A t \in DOMAIN list : Append(list, timer)[t] = list[t]
      /\ Append(list, timer)[Len(list) + 1] = timer
  BY <1>1, AppendFact
<1>4. InPlace(Append(list, timer))
  BY <1>1, <1>3, InPlaceExtended
<1> QED BY <1>2, <1>3, <1>4, Zenon

-----------------------------------------------------------------------------
\* What a channel holds after a send or a receive.
LEMMA SendFact ==
  ASSUME NEW c, NEW S, NEW c2 \in AfterSend(c, S)
  PROVE  c2 \subseteq c \cup S
BY DEF AfterSend

\* Receiving adds nothing to a channel.
LEMMA ReceiveFact ==
  ASSUME NEW c, NEW p, NEW c2 \in AfterReceive(c, p)
  PROVE  c2 \subseteq c
BY DEF AfterReceive

\* Packets of different types differ, and ACKs of different acknos.
LEMMA PacketsDiffer ==
  /\ FinPacket # SynPacket
  /\ \A k \in DataIdx : DataPacket(k) # FinPacket
  /\ \A p, q : AckFor(p) = AckFor(q) => p.ackno = q.ackno
<1>1. FinPacket.type = "FIN" /\ SynPacket.type = "SYN"
  BY DEF FinPacket, SynPacket, create_packet
<1>2. \A k \in DataIdx : DataPacket(k).type = "DAT"
  BY DEF DataPacket, create_packet
<1>3. \A p, q : AckFor(p) = AckFor(q) => p.ackno = q.ackno
  <2>1. \A p : AckFor(p).seqno = p.ackno
    BY PacketFields
  <2> QED BY <2>1
<1> QED BY <1>1, <1>2, <1>3

(***************************************************************************)
(* The invariant.  Facts is what also holds when a sender is run again.    *)
(* To the properties IInv adds that nothing is in flight before the SYN is *)
(* sent, and that a FIN, once it is sent, has a timer: stop_timer ends the *)
(* program when it finds none.                                             *)
(***************************************************************************)
Facts ==
  /\ TypeOK
  /\ AckedIsStored
  /\ PathTellsTheTruth
  /\ WrittenIsComplete
  /\ FinAcknoIsItsOwn => SuccessMeansWritten

FinIsTimed ==
  /\ pc = "syn" => toReceiver = {} /\ toSender = {}
  /\ FinPacket \in toReceiver => Len(timers) > NumPackets + 1
  /\ AckFor(FinPacket) \in toSender =>
       Len(timers) > NumPackets + 1 \/ ~FinAcknoIsItsOwn

IInv ==
  /\ Facts
  /\ NeverAborts
  /\ FinIsTimed

-----------------------------------------------------------------------------
\* packetACKd looks at the timer with the packet's own index.
AckedIn(list, k) == ~list[k].running /\ list[k].sent

\* The packet that packetACKd looks for is at its own index, now and next.
LEMMA AckedAt ==
  /\ timers \in Seq(Timers) /\ InPlace(timers) =>
       \A k \in DataIdx : packetACKd(k) <=> AckedIn(timers, k)
  /\ timers' \in Seq(Timers) /\ InPlace(timers)' =>
       \A k \in DataIdx : packetACKd(k)' <=> AckedIn(timers', k)
<1>1. ASSUME timers \in Seq(Timers), InPlace(timers), NEW k \in DataIdx
      PROVE  packetACKd(k) <=> AckedIn(timers, k)
  <2>1. find_timer(timers, Ackno(k)) = k
    BY <1>1, FindInPlace
  <2> QED BY <2>1 DEF packetACKd, AckedIn
<1>2. ASSUME timers' \in Seq(Timers), InPlace(timers)', NEW k \in DataIdx
      PROVE  packetACKd(k)' <=> AckedIn(timers', k)
  <2>1. find_timer(timers', Ackno(k)) = k
    BY <1>2, FindInPlace DEF InPlace
  <2> QED BY <2>1 DEF packetACKd, AckedIn
<1> QED BY <1>1, <1>2

(***************************************************************************)
(* What a step does to the timers: the list stays in place and does not    *)
(* shrink, and a packet becomes acknowledged only when it is stored.       *)
(***************************************************************************)
TimersStep ==
  /\ timers' \in Seq(Timers)
  /\ InPlace(timers')
  /\ Len(timers') \in Nat /\ Len(timers) \in Nat
  /\ Len(timers') >= Len(timers)
  /\ \A k \in DataIdx : AckedIn(timers', k) => AckedIn(timers, k) \/ Seqno(k) \in stored

\* The ACK of a FIN in flight before the sender has a timer for one.
LateFinAck ==
  /\ FinAcknoIsItsOwn
  /\ AckFor(FinPacket) \in toSender
  /\ ~ (Len(timers) > NumPackets + 1)

\* The timer an ACK in flight stops: it is there, and it is not that of a
\* data packet the receiver does not have.
LEMMA AckFound ==
  ASSUME Facts, pc # "syn", NEW pckt \in toSender,
         ~ (LateFinAck /\ pckt = AckFor(FinPacket))
  PROVE  /\ find_timer(timers, pckt.seqno) \in DOMAIN timers
         /\ find_timer(timers, pckt.seqno) # NULL
         /\ \A k \in DataIdx : k = find_timer(timers, pckt.seqno) => Seqno(k) \in stored
<1>1. /\ timers \in Seq(Timers) /\ InPlace(timers)
      /\ Len(timers) \in Nat /\ NumPackets \in Nat
      /\ DOMAIN timers = 1 .. Len(timers)
      /\ Len(timers) > NumPackets
  <2>2. timers \in Seq(Timers) /\ InPlace(timers) /\ Len(timers) # NumPackets
    BY DEF Facts, TypeOK
  <2>3. Len(timers) >= NumPackets /\ NumPackets \in Nat
    BY <2>2, PacketFields DEF InPlace
  <2>4. Len(timers) \in Nat /\ DOMAIN timers = 1 .. Len(timers)
    BY <2>2, SMT
  <2>5. Len(timers) # NumPackets
    BY <2>2
  <2>6. Len(timers) > NumPackets
    <3>1. Len(timers) \in Nat
      BY <2>4
    <3> QED BY <2>3, <2>5, <3>1, SMT
  <2> QED BY <2>2, <2>3, <2>4, <2>6
<1>7. /\ NumPackets + 1 \notin DataIdx /\ NumPackets + 1 # NULL
      /\ NumPackets + 2 \notin DataIdx /\ NumPackets + 2 # NULL
  <2>1. NumPackets \in Nat
    BY PacketFields
  <2> QED BY <2>1, SMT DEF DataIdx, NULL
<1>2. PICK p \in ToReceiverPackets : pckt = AckFor(p)
  BY DEF Facts, TypeOK, ToSenderPackets
<1>3. pckt.seqno = p.ackno
  BY <1>2, PacketFields
<1>4. CASE p = SynPacket
  <2>2. /\ find_timer(timers, pckt.seqno) = NumPackets + 1
        /\ NumPackets + 1 \in DOMAIN timers
    BY <1>1, <1>3, <1>4, FindInPlace
  <2> QED BY <1>7, <2>2
<1>5. ASSUME NEW k \in DataIdx, p = DataPacket(k)
      PROVE  /\ find_timer(timers, pckt.seqno) = k
             /\ k \in DOMAIN timers
             /\ k # NULL
             /\ Seqno(k) \in stored
  <2>1. pckt.seqno = Ackno(k) /\ k # 0
    BY <1>3, <1>5, PacketFields
  <2>2. find_timer(timers, pckt.seqno) = k /\ k \in DOMAIN timers
    BY <1>1, <2>1, FindInPlace
  <2>3. Seqno(k) \in stored
    BY <1>2, <1>5 DEF Facts, PathTellsTheTruth
  <2> QED BY <2>1, <2>2, <2>3 DEF NULL
<1>6. CASE p = FinPacket
  <2>1. pckt.seqno = FinPacket.ackno
    BY <1>3, <1>6
  <2>2. CASE FinAcknoIsItsOwn
    <3>1. Len(timers) > NumPackets + 1
      BY <1>2, <1>6, <2>2 DEF LateFinAck
    <3>2. /\ find_timer(timers, pckt.seqno) = NumPackets + 2
          /\ NumPackets + 2 \in DOMAIN timers
      BY <1>1, <2>1, <2>2, <3>1, FindInPlace
    <3> QED BY <1>7, <3>2
  <2>3. CASE ~FinAcknoIsItsOwn
    <3>1. PICK k \in DataIdx : Ackno(k) = FinPacket.ackno
      BY <2>3 DEF FinAcknoIsItsOwn
    <3>2. DataPacket(k).ackno = p.ackno
      BY <1>6, <3>1, PacketFields
    <3>3. AckFor(DataPacket(k)) = AckFor(p)
      BY <3>2 DEF AckFor
    <3>4. Seqno(k) \in stored
      BY <1>2, <3>3 DEF Facts, PathTellsTheTruth
    <3>5. find_timer(timers, Ackno(k)) = k /\ k \in DOMAIN timers
      BY <1>1, FindInPlace
    <3>6. k # NULL
      BY PacketFields DEF NULL
    <3> QED BY <2>1, <3>1, <3>4, <3>5, <3>6
  <2> QED BY <2>2, <2>3
<1> QED BY <1>4, <1>5, <1>6 DEF ToReceiverPackets

\* Under the invariant, so does every ACK.
LEMMA AckInFlight ==
  ASSUME IInv, NEW pckt \in toSender
  PROVE  /\ find_timer(timers, pckt.seqno) \in DOMAIN timers
         /\ find_timer(timers, pckt.seqno) # NULL
         /\ \A k \in DataIdx : k = find_timer(timers, pckt.seqno) => Seqno(k) \in stored
<1>1. Facts /\ pc # "syn" /\ ~LateFinAck
  BY DEF IInv, FinIsTimed, LateFinAck
<1> QED BY <1>1, AckFound

-----------------------------------------------------------------------------
\* A step that leaves the timers alone.
LEMMA TimersUnchanged ==
  ASSUME Facts, UNCHANGED timers
  PROVE  TimersStep
<1>1. timers \in Seq(Timers) /\ InPlace(timers)
  BY DEF Facts, TypeOK
<1>2. Len(timers) \in Nat
  BY <1>1, SMT
<1>3. Len(timers) >= Len(timers)
  BY <1>2, SMT
<1> QED BY <1>1, <1>2, <1>3 DEF TimersStep

\* Stopping the timer of an ACK in flight acknowledges only what is stored.
LEMMA TimersStopped ==
  ASSUME Facts, NEW a, timers' = stop_timer(timers, a),
         find_timer(timers, a) \in DOMAIN timers,
         \A k \in DataIdx : k = find_timer(timers, a) => Seqno(k) \in stored
  PROVE  TimersStep /\ Len(timers') = Len(timers)
<1> DEFINE f == find_timer(timers, a)
<1>1. timers \in Seq(Timers) /\ InPlace(timers)
  BY DEF Facts, TypeOK
<1>2. /\ timers' \in Seq(Timers) /\ InPlace(timers')
      /\ Len(timers') = Len(timers)
      /\ \A t \in DOMAIN timers :
           timers'[t] = IF t = f THEN stopped(timers[t]) ELSE timers[t]
  BY <1>1, StopTimer
<1>3. ASSUME NEW k \in DataIdx, AckedIn(timers', k)
      PROVE  AckedIn(timers, k) \/ Seqno(k) \in stored
  <2>1. k \in DOMAIN timers
    BY <1>1, FindInPlace
  <2>2. CASE k = f
    BY <2>2
  <2>3. CASE k # f
    BY <1>2, <1>3, <2>1, <2>3 DEF AckedIn
  <2> QED BY <2>2, <2>3
<1>4. Len(timers) \in Nat /\ Len(timers) >= Len(timers)
  BY <1>1, SMT
<1> QED BY <1>2, <1>3, <1>4 DEF TimersStep

\* Starting a timer acknowledges nothing.
LEMMA TimersStarted ==
  ASSUME Facts, NEW list \in Seq(Timers), InPlace(list),
         Len(list) \in Nat, Len(timers) \in Nat, Len(list) >= Len(timers),
         \A t \in DOMAIN timers : list[t] = timers[t],
         NEW a, timers' = start_timer(list, a),
         find_timer(list, a) \in DOMAIN list,
         list[find_timer(list, a)].pckt_ackno = a
  PROVE  TimersStep /\ Len(timers') = Len(list)
<1> DEFINE f == find_timer(list, a)
<1>1. timers \in Seq(Timers) /\ InPlace(timers)
  BY DEF Facts, TypeOK
<1>2. /\ timers' \in Seq(Timers) /\ InPlace(timers')
      /\ Len(timers') = Len(list)
      /\ \A t \in DOMAIN list :
           timers'[t] = IF t = f THEN restarted(list[t]) ELSE list[t]
  BY StartTimer
<1>3. ASSUME NEW k \in DataIdx, AckedIn(timers', k)
      PROVE  AckedIn(timers, k)
  <2>1. k \in DOMAIN timers /\ k \in DOMAIN list
    BY <1>1, FindInPlace
  <2>2. k # f
    <3>1. SUFFICES ASSUME k = f PROVE FALSE
      OBVIOUS
    <3>2. timers'[k] = restarted(list[k])
      BY <1>2, <2>1, <3>1
    <3>3. list[k] \in Timers
      BY <2>1, SMT
    <3>4. restarted(list[k]).running
      BY <3>3, TimerFields
    <3> QED BY <1>3, <3>2, <3>4 DEF AckedIn
  <2> QED BY <1>2, <1>3, <2>1, <2>2 DEF AckedIn
<1> QED BY <1>2, <1>3 DEF TimersStep

-----------------------------------------------------------------------------
\* A function on a list's domain whose values are timers is a list.
LEMMA TimerListFact ==
  ASSUME NEW list \in Seq(Timers), NEW list2 \in [DOMAIN list -> Timers]
  PROVE  /\ list2 \in Seq(Timers)
         /\ Len(list2) = Len(list)
         /\ Len(list) \in Nat
<1>1. list2 \in [1 .. Len(list) -> Timers] /\ Len(list) \in Nat
  BY SMT
<1> QED BY <1>1, SMT

\* A poll marks timers, and neither starts nor stops one.
LEMMA TimersPolled ==
  ASSUME Facts, NEW late, poll_timers(late)
  PROVE  TimersStep /\ Len(timers') = Len(timers)
<1>1. timers \in Seq(Timers) /\ InPlace(timers)
  BY DEF Facts, TypeOK
<1>2. ASSUME NEW timer \in Timers
      PROVE  /\ expired(timer) \in Timers
             /\ expired(timer).pckt_ackno = timer.pckt_ackno
             /\ expired(timer).running <=> timer.running
             /\ expired(timer).sent <=> timer.sent
  <2>1. expired(timer) \in Timers
    BY DEF expired, Timers
  <2>2. expired(timer).pckt_ackno = timer.pckt_ackno
    BY DEF expired, Timers
  <2>3. expired(timer).running = timer.running
    BY DEF expired, Timers
  <2>4. expired(timer).sent = timer.sent
    BY DEF expired, Timers
  <2> QED BY <2>1, <2>2, <2>3, <2>4
<1>3. \A t \in DOMAIN timers : timers[t] \in Timers
  BY <1>1, SMT
<1>4. /\ timers' \in [DOMAIN timers -> Timers]
      /\ \A t \in DOMAIN timers :
           timers'[t] = IF t \in late THEN expired(timers[t]) ELSE timers[t]
  BY <1>2, <1>3 DEF poll_timers
<1>5. timers' \in Seq(Timers) /\ Len(timers') = Len(timers) /\ Len(timers) \in Nat
  BY <1>1, <1>4, TimerListFact
<1>6. \A t \in DOMAIN timers : /\ timers'[t].pckt_ackno = timers[t].pckt_ackno
                               /\ timers'[t].running <=> timers[t].running
                               /\ timers'[t].sent <=> timers[t].sent
  BY <1>2, <1>3, <1>4
<1>7. InPlace(timers')
  BY <1>1, <1>5, <1>6, InPlaceKept
<1>8. \A k \in DataIdx : k \in DOMAIN timers
  BY <1>1, FindInPlace
<1>9. Len(timers') >= Len(timers)
  BY <1>5, SMT
<1> QED BY <1>5, <1>6, <1>7, <1>8, <1>9 DEF TimersStep, AckedIn

\* Sending expired packets again restarts their timers and no other.
LEMMA TimersResent ==
  ASSUME Facts, resend_timedoutPackets
  PROVE  TimersStep /\ Len(timers') = Len(timers) /\ Resends \subseteq DataIdx
<1> DEFINE sent     == Resends \cap DataIdx
           restarts == {find_timer(timers, Ackno(k)) : k \in sent}
<1>1. timers \in Seq(Timers) /\ InPlace(timers)
  BY DEF Facts, TypeOK
<1>2. \A t \in DOMAIN timers : timers[t] \in Timers
  BY <1>1, SMT
<1>3. /\ timers' \in [DOMAIN timers -> Timers]
      /\ \A t \in DOMAIN timers :
           timers'[t] = IF t \in restarts THEN restarted(timers[t]) ELSE timers[t]
  <2>1. timers' = [t \in DOMAIN timers |->
                     IF t \in restarts THEN restarted(timers[t]) ELSE timers[t]]
    BY DEF resend_timedoutPackets
  <2>2. \A t \in DOMAIN timers : restarted(timers[t]) \in Timers
    BY <1>2, TimerFields
  <2> HIDE DEF restarts
  <2> QED BY <1>2, <2>1, <2>2
<1>4. timers' \in Seq(Timers) /\ Len(timers') = Len(timers) /\ Len(timers) \in Nat
  BY <1>1, <1>3, TimerListFact
<1>5. \A t \in restarts : t \in DataIdx /\ t \in DOMAIN timers
                            /\ t = find_timer(timers, timers[t].pckt_ackno)
  <2>1. \A k \in DataIdx : /\ find_timer(timers, Ackno(k)) = k
                           /\ k \in DOMAIN timers
    BY <1>1, FindInPlace
  <2>2. \A k \in DataIdx : timers[k].pckt_ackno = Ackno(k)
    BY <1>1, <2>1 DEF InPlace
  <2> QED BY <2>1, <2>2
<1> HIDE DEF restarts
<1>6. ASSUME NEW t \in DOMAIN timers
      PROVE  /\ timers'[t].pckt_ackno = timers[t].pckt_ackno
             /\ timers'[t].running =>
                  timers[t].running \/ t = find_timer(timers, timers[t].pckt_ackno)
             /\ t \in DataIdx /\ AckedIn(timers', t) => AckedIn(timers, t)
  <2>1. CASE t \in restarts
    <3>1. timers'[t] = restarted(timers[t]) /\ timers[t] \in Timers
      BY <1>2, <1>3, <2>1
    <3>2. timers'[t].running /\ timers'[t].pckt_ackno = timers[t].pckt_ackno
      BY <3>1, TimerFields
    <3> QED BY <1>5, <2>1, <3>2 DEF AckedIn
  <2>2. CASE t \notin restarts
    BY <1>3, <2>2 DEF AckedIn
  <2> QED BY <2>1, <2>2
<1>7. InPlace(timers')
  BY <1>1, <1>4, <1>6, InPlaceKept
<1>8. \A k \in DataIdx : k \in DOMAIN timers
  BY <1>1, FindInPlace
<1>9. Len(timers') >= Len(timers)
  BY <1>4, SMT
<1>10. Resends \subseteq DataIdx
  <2>1. SUFFICES ASSUME NEW t \in Resends PROVE t \in DataIdx
    OBVIOUS
  <2>2. t \in DOMAIN timers /\ timers[t].running
    BY DEF Resends, Expired
  <2>3. PICK k \in DataIdx : Ackno(k) = timers[t].pckt_ackno
    BY DEF Resends
  <2>4. t = find_timer(timers, timers[t].pckt_ackno)
    BY <1>1, <2>2 DEF InPlace
  <2>5. find_timer(timers, Ackno(k)) = k
    BY <1>1, FindInPlace
  <2> QED BY <2>3, <2>4, <2>5
<1> QED BY <1>4, <1>6, <1>7, <1>8, <1>9, <1>10 DEF TimersStep

\* Sending the SYN adds a timer that runs, and acknowledges nothing.
LEMMA TimersOfSyn ==
  ASSUME Facts, SendSyn
  PROVE  TimersStep /\ Len(timers') = NumPackets + 1
<1> DEFINE list == add_timer(timers, create_timer(SynPacket.ackno, TRUE))
<1>1. timers \in Seq(Timers) /\ InPlace(timers) /\ Len(timers) = NumPackets
  BY DEF Facts, TypeOK, SendSyn
<1>2. SynPacket.ackno \in Nat /\ NumPackets \in Nat
  BY PacketFields
<1>3. /\ list \in Seq(Timers) /\ InPlace(list)
      /\ Len(list) = Len(timers) + 1
      /\ \A t \in DOMAIN timers : list[t] = timers[t]
  BY <1>1, <1>2, AppendTimer
<1> HIDE DEF list
<1>4. Len(list) = NumPackets + 1
  BY <1>1, <1>3
<1>5. Len(list) \in Nat /\ Len(timers) \in Nat /\ Len(list) > NumPackets
      /\ Len(list) >= Len(timers)
  BY <1>1, <1>2, <1>4, SMT
<1>6. /\ find_timer(list, SynPacket.ackno) = NumPackets + 1
      /\ NumPackets + 1 \in DOMAIN list
  BY <1>3, <1>5, FindInPlace
<1>7. list[NumPackets + 1].pckt_ackno = SynPacket.ackno
  BY <1>3, <1>6 DEF InPlace
<1>8. timers' = start_timer(list, SynPacket.ackno)
  BY DEF SendSyn, list
<1> QED BY <1>3, <1>4, <1>5, <1>6, <1>7, <1>8, TimersStarted

\* Sending a FIN starts its timer, new or old, and acknowledges nothing.
LEMMA TimersOfFin ==
  ASSUME Facts, SendFin
  PROVE  TimersStep /\ Len(timers') > NumPackets + 1
<1> DEFINE longer == add_timer(timers, create_timer(FinPacket.ackno, TRUE))
           list   == IF Len(timers) < MAX_TIMERS THEN longer ELSE timers
<1>1. timers \in Seq(Timers) /\ InPlace(timers) /\ Len(timers) # NumPackets
  BY DEF Facts, TypeOK, SendFin
<1>2. FinPacket.ackno \in Nat /\ NumPackets \in Nat
  BY PacketFields, SizesAssumption, SMT DEF SizesAssumption
<1>3. Len(timers) \in Nat
  BY <1>1, SMT
<1>4. Len(timers) >= NumPackets
  BY <1>1 DEF InPlace
<1>5. Len(timers) # NumPackets
  BY <1>1
<1>6. Len(timers) > NumPackets
  BY <1>2, <1>3, <1>4, <1>5, SMT
<1>7. /\ longer \in Seq(Timers) /\ InPlace(longer)
      /\ Len(longer) = Len(timers) + 1
      /\ \A t \in DOMAIN timers : longer[t] = timers[t]
  BY <1>1, <1>2, <1>6, AppendTimer
<1> HIDE DEF longer
<1>8. /\ list \in Seq(Timers) /\ InPlace(list)
      /\ \A t \in DOMAIN timers : list[t] = timers[t]
  BY <1>1, <1>7
<1>9. Len(list) \in Nat /\ Len(list) >= Len(timers) /\ Len(list) > NumPackets + 1
  <2>1. Len(list) = IF Len(timers) < MAX_TIMERS THEN Len(timers) + 1 ELSE Len(timers)
    BY <1>7
  <2> HIDE DEF list
  <2> QED BY <1>2, <1>3, <1>6, <2>1, TimersAssumption, SMT DEF TimersAssumption
<1>10. timers' = start_timer(list, FinPacket.ackno)
  BY DEF SendFin, longer
<1> HIDE DEF list
<1>11. /\ find_timer(list, FinPacket.ackno) \in DOMAIN list
       /\ list[find_timer(list, FinPacket.ackno)].pckt_ackno = FinPacket.ackno
  BY <1>8, <1>9, FindInPlace
<1>12. TimersStep /\ Len(timers') = Len(list)
  BY <1>3, <1>8, <1>9, <1>10, <1>11, TimersStarted
<1> QED BY <1>9, <1>12

\* fill_window starts the timer of the packet that it sends.
LEMMA TimersOfFill ==
  ASSUME Facts, FillSend
  PROVE  TimersStep /\ Len(timers') = Len(timers)
<1>1. timers \in Seq(Timers) /\ InPlace(timers) /\ i \in DataIdx
  BY DEF Facts, TypeOK, FillSend
<1>2. Len(timers) \in Nat /\ Len(timers) >= Len(timers)
  BY <1>1, SMT
<1>3. find_timer(timers, Ackno(i)) = i /\ i \in DOMAIN timers
  BY <1>1, FindInPlace
<1>4. timers[i].pckt_ackno = Ackno(i)
  BY <1>1, <1>3 DEF InPlace
<1>5. timers' = start_timer(timers, Ackno(i))
  BY DEF FillSend
<1> QED BY <1>1, <1>2, <1>3, <1>4, <1>5, TimersStarted

\* The SYN's ACK stops the SYN's timer and no data packet's.
LEMMA TimersOfSynAck ==
  ASSUME Facts, NEW pckt, SynAcked(pckt)
  PROVE  TimersStep /\ Len(timers') = Len(timers)
<1>1. timers \in Seq(Timers) /\ InPlace(timers) /\ Len(timers) # NumPackets
  BY DEF Facts, TypeOK, SynAcked
<1>2. NumPackets \in Nat
  BY PacketFields
<1>3. Len(timers) \in Nat
  BY <1>1, SMT
<1>4. Len(timers) >= NumPackets
  BY <1>1 DEF InPlace
<1>5. Len(timers) # NumPackets
  BY <1>1
<1>6. Len(timers) > NumPackets
  BY <1>2, <1>3, <1>4, <1>5, SMT
<1>7. /\ find_timer(timers, SynPacket.ackno) = NumPackets + 1
      /\ NumPackets + 1 \in DOMAIN timers
  BY <1>1, <1>6, FindInPlace
<1>8. NumPackets + 1 \notin DataIdx
  BY <1>2, SMT DEF DataIdx
<1>9. timers' = stop_timer(timers, SynPacket.ackno)
  BY DEF SynAcked
<1> QED BY <1>7, <1>8, <1>9, TimersStopped

\* An ACK in flight makes handle_packet end the program only if it is late.
LEMMA TimersOfAck ==
  ASSUME Facts, pc # "syn", NEW pckt \in toSender, NEW next, handle_packet(pckt, next)
  PROVE  /\ TimersStep /\ Len(timers') = Len(timers)
         /\ pc' = next \/ (LateFinAck /\ pc' = "abort")
<1> DEFINE f == find_timer(timers, pckt.seqno)
<1>1. CASE f # NULL /\ f \in DOMAIN timers
           /\ \A k \in DataIdx : k = f => Seqno(k) \in stored
  <2>1. pc' = next /\ timers' = stop_timer(timers, pckt.seqno)
    BY <1>1 DEF handle_packet
  <2> QED BY <1>1, <2>1, TimersStopped
<1>2. CASE LateFinAck /\ f = NULL
  <2>1. pc' = "abort" /\ UNCHANGED timers
    BY <1>2 DEF handle_packet
  <2> QED BY <1>2, <2>1, TimersUnchanged
<1>3. CASE LateFinAck /\ pckt = AckFor(FinPacket) /\ f # NULL
  <2>1. timers \in Seq(Timers) /\ InPlace(timers) /\ pckt.seqno = FinPacket.ackno
    BY <1>3, PacketFields DEF Facts, TypeOK
  <2>2. PICK t \in DOMAIN timers : timers[t].pckt_ackno = pckt.seqno
    BY <1>3 DEF find_timer
  <2>3. f \in DOMAIN timers /\ timers[f].pckt_ackno = FinPacket.ackno
    BY <2>1, <2>2, FindLeast
  <2>4. f \notin DataIdx
    BY <1>3, <2>1, <2>3 DEF InPlace, LateFinAck, FinAcknoIsItsOwn
  <2> QED BY <1>1, <1>3, <2>3, <2>4
<1>4. CASE ~ (LateFinAck /\ pckt = AckFor(FinPacket))
  BY <1>1, <1>4, AckFound
<1> QED BY <1>2, <1>3, <1>4

-----------------------------------------------------------------------------
(***************************************************************************)
(* What a step does to the channels and to the receiver, and where it      *)
(* leaves the sender.                                                      *)
(***************************************************************************)
ChannelStep ==
  /\ toReceiver' \subseteq ToReceiverPackets
  /\ FinPacket \in toReceiver' =>
       FinPacket \in toReceiver \/ (AllStored /\ Len(timers') > NumPackets + 1)
  /\ toSender' \subseteq ToSenderPackets
  /\ \A k \in DataIdx : AckFor(DataPacket(k)) \in toSender' =>
       AckFor(DataPacket(k)) \in toSender \/ Seqno(k) \in stored'
  /\ AckFor(FinPacket) \in toSender' =>
       \/ AckFor(FinPacket) \in toSender
       \/ ~FinAcknoIsItsOwn
       \/ FinPacket \in toReceiver /\ receiver' = "written"
  /\ stored \subseteq stored' /\ stored' \subseteq {Seqno(k) : k \in DataIdx}
  /\ receiver' \in {"open", "written", "timeout"}
  /\ receiver = "written" => receiver' = "written"
  /\ receiver' = "written" => receiver = "written" \/ FinPacket \in toReceiver

ControlStep ==
  /\ pc' \in Ended \cup {"syn", "synwait", "fill0", "receive", "update", "fill",
                         "resend", "check", "finwait", "clock"}
  /\ pc' = "abort" => pc = "abort" \/ LateFinAck
  /\ pc' = "syn" => /\ pc = "syn" /\ Len(timers') = Len(timers)
                    /\ toReceiver # {} \/ UNCHANGED <<toReceiver, toSender>>
  /\ pc' # "syn" => Len(timers') # NumPackets
  /\ i' \in 1 .. NumPackets + 1
  /\ base_seqno' \in {0} \cup {Seqno(k) : k \in DataIdx}
  /\ occupied' \in Int
  /\ FinAcknoIsItsOwn /\ pc' = "success" => receiver' = "written"

\* Together the three step facts keep the facts.
LEMMA StepsKeepFacts ==
  ASSUME Facts, TimersStep, ChannelStep, ControlStep
  PROVE  Facts'
<1>1. TypeOK'
  BY DEF TimersStep, ChannelStep, ControlStep, TypeOK, Facts, InPlace, Ended
<1>2. AckedIsStored'
  <2>1. SUFFICES ASSUME NEW k \in DataIdx, packetACKd(k)'
                 PROVE  Seqno(k) \in stored'
    BY DEF AckedIsStored
  <2>2. AckedIn(timers', k)
    BY <2>1, AckedAt DEF TimersStep, InPlace
  <2>3. AckedIn(timers, k) => packetACKd(k)
    BY AckedAt DEF Facts, TypeOK
  <2>4. AckedIn(timers, k) \/ Seqno(k) \in stored
    BY <2>2 DEF TimersStep
  <2> QED BY <2>3, <2>4 DEF Facts, AckedIsStored, ChannelStep
<1>3. AllStored => AllStored'
  BY DEF AllStored, ChannelStep
<1>4. PathTellsTheTruth'
  <2>1. \A k \in DataIdx : AckFor(DataPacket(k)) \in toSender' => Seqno(k) \in stored'
    BY DEF Facts, PathTellsTheTruth, ChannelStep
  <2>2. FinPacket \in toReceiver' => AllStored'
    BY <1>3 DEF Facts, PathTellsTheTruth, ChannelStep
  <2>3. FinAcknoIsItsOwn /\ AckFor(FinPacket) \in toSender' => receiver' = "written"
    BY DEF Facts, PathTellsTheTruth, ChannelStep
  <2> QED BY <2>1, <2>2, <2>3 DEF PathTellsTheTruth
<1>5. WrittenIsComplete'
  BY <1>3 DEF Facts, PathTellsTheTruth, WrittenIsComplete, ChannelStep
<1>6. FinAcknoIsItsOwn => SuccessMeansWritten'
  BY DEF ControlStep, SuccessMeansWritten
<1> QED BY <1>1, <1>2, <1>4, <1>5, <1>6 DEF Facts

\* And the invariant.
LEMMA StepsKeepInvariant ==
  ASSUME IInv, TimersStep, ChannelStep, ControlStep
  PROVE  IInv'
<1>1. Facts'
  BY StepsKeepFacts DEF IInv
<1>2. NeverAborts'
  BY DEF NeverAborts, ControlStep, IInv, FinIsTimed, LateFinAck
<1>3. FinIsTimed'
  <2>1. Len(timers) > NumPackets + 1 => Len(timers') > NumPackets + 1
    <3>1. /\ Len(timers) \in Nat /\ Len(timers') \in Nat
          /\ Len(timers') >= Len(timers) /\ NumPackets \in Nat
      BY PacketFields DEF TimersStep
    <3> QED BY <3>1, SMT
  <2>2. pc' = "syn" => toReceiver' = {} /\ toSender' = {}
    BY DEF ControlStep, IInv, FinIsTimed
  <2>3. FinPacket \in toReceiver' => Len(timers') > NumPackets + 1
    BY <2>1 DEF IInv, FinIsTimed, ChannelStep
  <2>4. AckFor(FinPacket) \in toSender' =>
          Len(timers') > NumPackets + 1 \/ ~FinAcknoIsItsOwn
    BY <2>1 DEF IInv, FinIsTimed, ChannelStep
  <2> QED BY <2>2, <2>3, <2>4 DEF FinIsTimed
<1> QED BY <1>1, <1>2, <1>3 DEF IInv

-----------------------------------------------------------------------------
\* The three ways in which a step of the sender uses the path.
LEMMA ChannelsUnused ==
  ASSUME Facts, UNCHANGED <<toReceiver, toSender, stored, receiver>>
  PROVE  ChannelStep
BY DEF Facts, TypeOK, ChannelStep

\* A step that sends only what the facts allow keeps the channels truthful.
LEMMA ChannelSent ==
  ASSUME Facts, UNCHANGED <<toSender, stored, receiver>>,
         NEW S, S \subseteq ToReceiverPackets, toReceiver' \in AfterSend(toReceiver, S),
         FinPacket \in S => AllStored /\ Len(timers') > NumPackets + 1
  PROVE  ChannelStep
<1>1. toReceiver' \subseteq toReceiver \cup S
  BY SendFact
<1> QED BY <1>1 DEF Facts, TypeOK, ChannelStep

\* A step that only takes an ACK from its channel does too.
LEMMA ChannelHeard ==
  ASSUME Facts, UNCHANGED <<toReceiver, stored, receiver>>,
         NEW pckt, toSender' \in AfterReceive(toSender, pckt)
  PROVE  ChannelStep
<1>1. toSender' \subseteq toSender
  BY ReceiveFact
<1> QED BY <1>1 DEF Facts, TypeOK, ChannelStep

\* A step of the sender between two places of its program after the SYN.
LEMMA ControlMoved ==
  ASSUME Facts, pc # "syn", pc \notin Ended, Len(timers') = Len(timers),
         pc' \in {"synwait", "fill0", "receive", "update", "fill",
                  "resend", "check", "finwait", "clock", "timeout"},
         i' \in 1 .. NumPackets + 1,
         base_seqno' \in {0} \cup {Seqno(k) : k \in DataIdx},
         occupied' \in Int
  PROVE  ControlStep
<1>1. Len(timers') # NumPackets
  BY DEF Facts, TypeOK
<1> QED BY <1>1 DEF ControlStep, Ended

\* A step that ends the sender for an ACK that is late.
LEMMA ControlEnds ==
  ASSUME Facts, pc # "syn", LateFinAck, pc' = "abort", Len(timers') = Len(timers),
         UNCHANGED <<i, base_seqno, occupied>>
  PROVE  ControlStep
<1>1. Len(timers') # NumPackets
  BY DEF Facts, TypeOK
<1> QED BY <1>1 DEF ControlStep, Ended, Facts, TypeOK

\* The loops over data_packets stay in range.
LEMMA LoopFact ==
  ASSUME Facts
  PROVE  /\ i \in DataIdx => i + 1 \in 1 .. NumPackets + 1
         /\ 1 \in 1 .. NumPackets + 1 /\ 1 \in DataIdx
         /\ i \in 1 .. NumPackets + 1
         /\ base_seqno \in {0} \cup {Seqno(k) : k \in DataIdx}
         /\ occupied \in Int
         /\ \A k \in DataIdx : /\ occupied + PayloadLength(k) \in Int
                               /\ occupied - PayloadLength(k) \in Int
<1>1. /\ i \in 1 .. NumPackets + 1
      /\ base_seqno \in {0} \cup {Seqno(k) : k \in DataIdx}
      /\ occupied \in Int
  BY DEF Facts, TypeOK
<1>2. NumPackets \in Nat \ {0}
  BY PacketFields
<1>3. /\ i \in DataIdx => i + 1 \in 1 .. NumPackets + 1
      /\ 1 \in 1 .. NumPackets + 1 /\ 1 \in DataIdx
  BY <1>2, SMT DEF DataIdx
<1>4. ASSUME NEW k \in DataIdx
      PROVE  occupied + PayloadLength(k) \in Int /\ occupied - PayloadLength(k) \in Int
  <2>1. PayloadLength(k) \in 1 .. MAX_PAYLOAD_SIZE
    BY DataNumbers
  <2>2. PayloadLength(k) \in Int /\ occupied \in Int
    BY <1>1, <2>1, SizesAssumption, SMT DEF SizesAssumption
  <2> QED BY <2>2, SMT
<1> QED BY <1>1, <1>3, <1>4

-----------------------------------------------------------------------------
\* The sender's steps that send nothing and receive nothing.
LEMMA QuietStep ==
  ASSUME Facts, UNCHANGED <<stored, receiver>>,
         \/ FillSkip \/ FillDone \/ ReceiveNothing
         \/ UpdateAdvance \/ UpdateSkip \/ UpdateDone
         \/ NotAllAcked \/ FinWaitNothing \/ CheckClock
  PROVE  TimersStep /\ ChannelStep /\ ControlStep
<1>1. timers' = timers /\ UNCHANGED <<toReceiver, toSender, stored, receiver>>
  BY DEF FillSkip, FillDone, ReceiveNothing, UpdateAdvance, UpdateSkip, UpdateDone,
         NotAllAcked, FinWaitNothing, CheckClock
<1>2. TimersStep /\ ChannelStep
  BY <1>1, TimersUnchanged, ChannelsUnused
<1>3. Len(timers') = Len(timers)
  BY <1>1
<1>4. CASE FillSkip
  BY <1>2, <1>3, <1>4, LoopFact, ControlMoved DEF FillSkip, Filling, Ended
<1>5. CASE FillDone
  BY <1>2, <1>3, <1>5, LoopFact, ControlMoved DEF FillDone, Filling, Ended
<1>6. CASE ReceiveNothing
  BY <1>2, <1>3, <1>6, LoopFact, ControlMoved DEF ReceiveNothing, Ended
<1>7. CASE UpdateAdvance
  <2>1. i + 1 \in DataIdx
    BY <1>7 DEF UpdateAdvance, BaseAcked
  <2>2. base_seqno' \in {0} \cup {Seqno(k) : k \in DataIdx} /\ occupied' \in Int
    BY <1>7, <2>1, LoopFact DEF UpdateAdvance
  <2> QED BY <1>2, <1>3, <1>7, <2>2, LoopFact, ControlMoved DEF UpdateAdvance, Ended
<1>8. CASE UpdateSkip
  BY <1>2, <1>3, <1>8, LoopFact, ControlMoved DEF UpdateSkip, Ended
<1>9. CASE UpdateDone
  BY <1>2, <1>3, <1>9, LoopFact, ControlMoved DEF UpdateDone, Ended
<1>10. CASE NotAllAcked
  BY <1>2, <1>3, <1>10, LoopFact, ControlMoved DEF NotAllAcked, Ended
<1>11. CASE FinWaitNothing
  BY <1>2, <1>3, <1>11, LoopFact, ControlMoved DEF FinWaitNothing, Ended
<1>12. CASE CheckClock
  BY <1>2, <1>3, <1>12, LoopFact, ControlMoved DEF CheckClock, Ended
<1> QED BY <1>2, <1>4, <1>5, <1>6, <1>7, <1>8, <1>9, <1>10, <1>11, <1>12

\* The sender's steps that send.
LEMMA SendingStep ==
  ASSUME Facts, UNCHANGED <<stored, receiver>>,
         SendSyn \/ SynRetry \/ FillSend \/ resend_timedoutPackets \/ SendFin
  PROVE  TimersStep /\ ChannelStep /\ ControlStep
<1>1. FinPacket \notin {SynPacket} /\ SynPacket \in ToReceiverPackets
  BY PacketsDiffer DEF ToReceiverPackets
<1>2. CASE SendSyn
  <2>1. TimersStep /\ Len(timers') = NumPackets + 1
    BY <1>2, TimersOfSyn
  <2>2. ChannelStep
    BY <1>1, <1>2, ChannelSent DEF SendSyn
  <2>3. Len(timers') # NumPackets
    <3>1. NumPackets \in Nat
      BY PacketFields
    <3>2. NumPackets + 1 # NumPackets
      BY <3>1, SMT
    <3> QED BY <2>1, <3>2
  <2>4. ControlStep
    BY <1>2, <2>3, LoopFact DEF SendSyn, ControlStep
  <2> QED BY <2>1, <2>2, <2>4
<1>3. CASE SynRetry
  <2>1. TimersStep /\ Len(timers') = Len(timers)
    BY <1>3, TimersUnchanged DEF SynRetry
  <2>2. ChannelStep
    BY <1>1, <1>3, ChannelSent DEF SynRetry
  <2>3. ControlStep
    BY <1>3, <2>1, LoopFact, ControlMoved DEF SynRetry, Ended
  <2> QED BY <2>1, <2>2, <2>3
<1>4. CASE FillSend
  <2>1. TimersStep /\ Len(timers') = Len(timers)
    BY <1>4, TimersOfFill
  <2>2. i \in DataIdx
    BY <1>4 DEF FillSend
  <2>3. DataPacket(i) \in ToReceiverPackets /\ FinPacket \notin {DataPacket(i)}
    BY <2>2, PacketsDiffer DEF ToReceiverPackets
  <2>4. ChannelStep
    BY <1>4, <2>3, ChannelSent DEF FillSend
  <2>5. ControlStep
    BY <1>4, <2>1, <2>2, LoopFact, ControlMoved DEF FillSend, Filling, Ended
  <2> QED BY <2>1, <2>4, <2>5
<1>5. CASE resend_timedoutPackets
  <2>1. TimersStep /\ Len(timers') = Len(timers) /\ Resends \subseteq DataIdx
    BY <1>5, TimersResent
  <2>2. {DataPacket(k) : k \in Resends \cap DataIdx} \subseteq ToReceiverPackets
    BY DEF ToReceiverPackets
  <2>3. FinPacket \notin {DataPacket(k) : k \in Resends \cap DataIdx}
    BY PacketsDiffer
  <2>4. ChannelStep
    BY <1>5, <2>2, <2>3, ChannelSent DEF resend_timedoutPackets
  <2>5. ControlStep
    BY <1>5, <2>1, LoopFact, ControlMoved DEF resend_timedoutPackets, Ended
  <2> QED BY <2>1, <2>4, <2>5
<1>6. CASE SendFin
  <2>1. TimersStep /\ Len(timers') > NumPackets + 1
    BY <1>6, TimersOfFin
  <2>2. AllStored
    BY <1>6 DEF SendFin, allPacketsAcknowledged, AllStored, Facts, AckedIsStored
  <2>3. ChannelStep
    BY <1>6, <2>1, <2>2, ChannelSent DEF SendFin, ToReceiverPackets
  <2>4. Len(timers') # NumPackets
    <3>1. NumPackets \in Nat /\ Len(timers') \in Nat
      BY <2>1, PacketFields DEF TimersStep
    <3> QED BY <2>1, <3>1, SMT
  <2>5. ControlStep
    BY <1>6, <2>4, LoopFact DEF SendFin, ControlStep
  <2> QED BY <2>1, <2>3, <2>5
<1> QED BY <1>2, <1>3, <1>4, <1>5, <1>6

\* Only the ACK of a FIN has the FIN's ackno, if no data packet does.
LEMMA FinAckIsTheFins ==
  ASSUME Facts, NEW pckt \in toSender, pckt.seqno = FinPacket.ackno, FinAcknoIsItsOwn
  PROVE  receiver = "written"
<1>1. PICK p \in ToReceiverPackets : pckt = AckFor(p)
  BY DEF Facts, TypeOK, ToSenderPackets
<1>2. p.ackno = FinPacket.ackno
  BY <1>1, PacketFields
<1>3. \A k \in DataIdx : p # DataPacket(k)
  BY <1>2, PacketFields DEF FinAcknoIsItsOwn
<1>4. p # SynPacket
  <2>1. SynPacket.ackno # FinPacket.ackno
    BY PacketFields, SizesAssumption, SMT DEF SizesAssumption
  <2> QED BY <1>2, <2>1
<1>5. p = FinPacket
  BY <1>3, <1>4 DEF ToReceiverPackets
<1> QED BY <1>1, <1>5 DEF Facts, PathTellsTheTruth

\* The sender's steps that receive.
LEMMA HearingStep ==
  ASSUME Facts, UNCHANGED <<stored, receiver>>, NEW pckt \in toSender,
         SynAcked(pckt) \/ ReceiveAck(pckt) \/ FinWaitAck(pckt)
  PROVE  TimersStep /\ ChannelStep /\ ControlStep
<1>1. ChannelStep
  BY ChannelHeard DEF SynAcked, ReceiveAck, FinWaitAck
<1>2. CASE SynAcked(pckt)
  <2>1. TimersStep /\ Len(timers') = Len(timers)
    BY <1>2, TimersOfSynAck
  <2>2. ControlStep
    BY <1>2, <2>1, LoopFact, ControlMoved DEF SynAcked, Ended
  <2> QED BY <1>1, <2>1, <2>2
<1>3. CASE ReceiveAck(pckt)
  <2>1. /\ TimersStep /\ Len(timers') = Len(timers)
        /\ pc' = "update" \/ (LateFinAck /\ pc' = "abort")
    BY <1>3, TimersOfAck DEF ReceiveAck
  <2>2. CASE pc' = "update"
    <3>1. ControlStep
      BY <1>3, <2>1, <2>2, LoopFact, ControlMoved DEF ReceiveAck, Ended
    <3> QED BY <1>1, <2>1, <3>1
  <2>3. CASE LateFinAck /\ pc' = "abort"
    <3>1. ControlStep
      BY <1>3, <2>1, <2>3, LoopFact, ControlEnds DEF ReceiveAck
    <3> QED BY <1>1, <2>1, <3>1
  <2> QED BY <2>1, <2>2, <2>3
<1>4. CASE FinWaitAck(pckt)
  <2> DEFINE next == IF pckt.seqno = FinPacket.ackno THEN "success" ELSE "clock"
  <2>1. /\ TimersStep /\ Len(timers') = Len(timers)
        /\ pc' = next \/ (LateFinAck /\ pc' = "abort")
    BY <1>4, TimersOfAck DEF FinWaitAck, FinAcked
  <2>4. CASE LateFinAck /\ pc' = "abort"
    <3>1. ControlStep
      BY <1>4, <2>1, <2>4, LoopFact, ControlEnds DEF FinWaitAck
    <3> QED BY <1>1, <2>1, <3>1
  <2>2. CASE pckt.seqno = FinPacket.ackno /\ pc' = next
    <3>1. FinAcknoIsItsOwn => receiver' = "written"
      BY <2>2, FinAckIsTheFins
    <3>2. Len(timers') # NumPackets
      BY <1>4, <2>1 DEF Facts, TypeOK, FinWaitAck
    <3>3. ControlStep
      BY <1>4, <2>1, <2>2, <3>1, <3>2, LoopFact DEF FinWaitAck, ControlStep, Ended
    <3> QED BY <1>1, <2>1, <3>3
  <2>3. CASE pckt.seqno # FinPacket.ackno /\ pc' = next
    <3>1. ControlStep
      BY <1>4, <2>1, <2>3, LoopFact, ControlMoved DEF FinWaitAck, Ended
    <3> QED BY <1>1, <2>1, <3>1
  <2> QED BY <2>1, <2>2, <2>3, <2>4
<1> QED BY <1>2, <1>3, <1>4

\* A poll of the timers.
LEMMA PollStep ==
  ASSUME Facts, UNCHANGED <<stored, receiver>>, Poll
  PROVE  TimersStep /\ ChannelStep /\ ControlStep
<1>1. PICK late \in SUBSET CanBeLate : poll_timers(late)
  BY DEF Poll
<1>2. TimersStep /\ Len(timers') = Len(timers)
  BY <1>1, TimersPolled
<1>3. ChannelStep
  BY <1>1, ChannelsUnused DEF poll_timers
<1>4. ControlStep
  BY <1>1, <1>2, LoopFact
  DEF poll_timers, ControlStep, Facts, TypeOK, SuccessMeansWritten, Ended
<1> QED BY <1>2, <1>3, <1>4

\* A step of the receiver: it answers a packet that is in flight.
LEMMA ReceiverStep ==
  ASSUME Facts, Receiver
  PROVE  TimersStep /\ ChannelStep /\ ControlStep
<1>1. PICK pckt \in toReceiver : Answer(pckt)
  BY DEF Receiver, ReceiveDat, ReceiveSyn, ReceiveFin, Answer
<1>2. UNCHANGED senderVars /\ toReceiver # {}
  BY <1>1 DEF Answer
<1>3. TimersStep
  BY <1>2, TimersUnchanged DEF senderVars
<1>4. ControlStep
  <2>1. receiver = "open"
    BY <1>1 DEF Answer
  <2>2. FinAcknoIsItsOwn => pc # "success"
    BY <2>1 DEF Facts, SuccessMeansWritten
  <2> QED BY <1>2, <2>2, LoopFact DEF senderVars, ControlStep, Facts, TypeOK
<1>5. ASSUME NEW p \in ToReceiverPackets, Answer(p)
      PROVE  /\ toReceiver' \subseteq toReceiver
             /\ toSender' \subseteq toSender \cup {AckFor(p)}
             /\ AckFor(p) \in ToSenderPackets
             /\ p \in toReceiver
             /\ receiver = "open"
  BY <1>5, SendFact, ReceiveFact DEF Answer, ToSenderPackets
<1>6. ASSUME NEW k \in DataIdx, ReceiveDat(k)
      PROVE  ChannelStep
  <2>1. DataPacket(k) \in ToReceiverPackets /\ Answer(DataPacket(k))
    BY <1>6 DEF ToReceiverPackets, ReceiveDat
  <2>2. ASSUME NEW j \in DataIdx, AckFor(DataPacket(j)) = AckFor(DataPacket(k))
        PROVE  Seqno(j) \in stored'
    <3>1. Ackno(j) = Ackno(k)
      BY <2>2, PacketsDiffer, PacketFields
    <3>2. j = k
      BY <3>1, NumbersDistinct
    <3> QED BY <1>6, <3>2 DEF ReceiveDat
  <2>3. FinAcknoIsItsOwn => AckFor(FinPacket) # AckFor(DataPacket(k))
    BY PacketsDiffer, PacketFields DEF FinAcknoIsItsOwn
  <2> QED BY <1>5, <1>6, <2>1, <2>2, <2>3
          DEF ReceiveDat, ChannelStep, Facts, TypeOK
<1>7. ASSUME ReceiveSyn
      PROVE  ChannelStep
  <2>1. SynPacket \in ToReceiverPackets /\ Answer(SynPacket)
    BY <1>7 DEF ToReceiverPackets, ReceiveSyn
  <2>2. \A k \in DataIdx : AckFor(DataPacket(k)) # AckFor(SynPacket)
    BY PacketsDiffer, PacketFields, NumbersDistinct
  <2>3. AckFor(FinPacket) # AckFor(SynPacket)
    <3>1. SynPacket.ackno # FinPacket.ackno
      BY PacketFields, SizesAssumption, SMT DEF SizesAssumption
    <3> QED BY <3>1, PacketsDiffer
  <2> QED BY <1>5, <1>7, <2>1, <2>2, <2>3 DEF ReceiveSyn, ChannelStep, Facts, TypeOK
<1>8. ASSUME ReceiveFin
      PROVE  ChannelStep
  <2>1. FinPacket \in ToReceiverPackets /\ Answer(FinPacket)
    BY <1>8 DEF ToReceiverPackets, ReceiveFin
  <2>2. AllStored /\ FinPacket \in toReceiver
    BY <1>5, <2>1 DEF Facts, PathTellsTheTruth
  <2> QED BY <1>5, <1>8, <2>1, <2>2 DEF ReceiveFin, ChannelStep, Facts, TypeOK, AllStored
<1> QED BY <1>3, <1>4, <1>6, <1>7, <1>8 DEF Receiver

-----------------------------------------------------------------------------
\* The timers that initiate_transfer starts from: one for each data packet, in
\* place, none of a packet that is acknowledged.
LEMMA DataTimersInPlace ==
  /\ DataTimers \in Seq(Timers) /\ Len(DataTimers) = NumPackets
  /\ InPlace(DataTimers)
  /\ \A k \in DataIdx : ~AckedIn(DataTimers, k)
<1>1. ASSUME NEW k \in DataIdx
      PROVE  /\ DataTimers[k] \in Timers
             /\ DataTimers[k].pckt_ackno = Ackno(k)
             /\ ~DataTimers[k].running /\ ~DataTimers[k].sent
  <2>1. Ackno(k) \in Nat
    BY DataNumbers
  <2>2. DataTimers[k] = create_timer(Ackno(k), FALSE)
    BY DEF DataTimers
  <2>3. create_timer(Ackno(k), FALSE) \in Timers
    BY <2>1 DEF create_timer, Timers
  <2>4. /\ create_timer(Ackno(k), FALSE).pckt_ackno = Ackno(k)
        /\ ~create_timer(Ackno(k), FALSE).running
        /\ ~create_timer(Ackno(k), FALSE).sent
    BY DEF create_timer
  <2> QED BY <2>2, <2>3, <2>4
<1>2. /\ DataTimers \in Seq(Timers) /\ Len(DataTimers) = NumPackets
      /\ DOMAIN DataTimers = DataIdx
  <2>1. DataTimers \in [1 .. NumPackets -> Timers]
    BY <1>1 DEF DataTimers, DataIdx
  <2>2. NumPackets \in Nat
    BY PacketFields
  <2> QED BY <2>1, <2>2, SMT DEF DataIdx
<1>3. InPlace(DataTimers)
  <2>1. NumPackets \in Nat
    BY PacketFields
  <2>2. \A t \in DataIdx : t # NumPackets + 1 /\ ~ (t > NumPackets + 1)
    BY <2>1, SMT DEF DataIdx
  <2>3. Len(DataTimers) >= NumPackets
    BY <1>2, <2>1, SMT
  <2> QED BY <1>1, <1>2, <2>2, <2>3 DEF InPlace
<1> QED BY <1>1, <1>2, <1>3 DEF AckedIn

\* The programs start with no timer running and nothing in flight.
LEMMA InitInvariant == Init => IInv
<1> SUFFICES ASSUME Init PROVE IInv
  OBVIOUS
<1>1. /\ timers = DataTimers
      /\ pc = "syn" /\ i = 1 /\ base_seqno = 0 /\ occupied = 0
      /\ toReceiver = {} /\ toSender = {} /\ stored = {} /\ receiver = "open"
  BY DEF Init, SenderInit
<1>2. TypeOK
  <2>1. i \in 1 .. NumPackets + 1
    <3>1. NumPackets \in Nat
      BY PacketFields
    <3> QED BY <1>1, <3>1, SMT
  <2> QED BY <1>1, <2>1, DataTimersInPlace DEF TypeOK
<1>3. AckedIsStored
  BY <1>1, DataTimersInPlace, AckedAt DEF AckedIsStored
<1> QED BY <1>1, <1>2, <1>3 DEF IInv, Facts, PathTellsTheTruth, WrittenIsComplete, NeverAborts,
                            FinIsTimed, SuccessMeansWritten

\* The sender's steps are those of its three groups.
LEMMA SenderSteps ==
  Sender <=> InSender(SenderReceives) \/ InSender(SenderMoves) \/ InSender(Poll)
<1>1. Sender => InSender(SenderReceives) \/ InSender(SenderMoves) \/ InSender(Poll)
  BY DEF Sender, InSender, SenderReceives, SenderMoves
<1>2. InSender(SenderReceives) \/ InSender(SenderMoves) \/ InSender(Poll) => Sender
  BY DEF Sender, InSender, SenderReceives, SenderMoves
<1> QED BY <1>1, <1>2

\* What every step does, wherever the programs are.
LEMMA NextSteps ==
  ASSUME Facts, Next
  PROVE  TimersStep /\ ChannelStep /\ ControlStep
<1>1. CASE InSender(SenderReceives)
  <2>1. PICK pckt \in toSender : SynAcked(pckt) \/ ReceiveAck(pckt) \/ FinWaitAck(pckt)
    BY <1>1 DEF InSender, SenderReceives
  <2>2. UNCHANGED <<stored, receiver>>
    BY <1>1 DEF InSender
  <2> QED BY <2>1, <2>2, HearingStep
<1>2. CASE InSender(SenderMoves)
  <2>1. UNCHANGED <<stored, receiver>>
    BY <1>2 DEF InSender
  <2>2. CASE SendSyn \/ SynRetry \/ FillSend \/ resend_timedoutPackets \/ SendFin
    BY <2>1, <2>2, SendingStep
  <2>3. CASE \/ FillSkip \/ FillDone \/ ReceiveNothing
             \/ UpdateAdvance \/ UpdateSkip \/ UpdateDone
             \/ NotAllAcked \/ FinWaitNothing \/ CheckClock
    BY <2>1, <2>3, QuietStep
  <2> QED BY <1>2, <2>2, <2>3 DEF InSender, SenderMoves
<1>3. CASE InSender(Poll)
  BY <1>3, PollStep DEF InSender
<1>4. CASE Receiver
  BY <1>4, ReceiverStep
<1> QED BY <1>1, <1>2, <1>3, <1>4, SenderSteps DEF Next

\* Every step keeps the invariant.
LEMMA NextInvariant == IInv /\ [Next]_vars => IInv'
<1> SUFFICES ASSUME IInv, [Next]_vars PROVE IInv'
  OBVIOUS
<1>1. CASE Next
  BY <1>1, NextSteps, StepsKeepInvariant DEF IInv
<1>2. CASE UNCHANGED vars
  BY <1>2 DEF IInv, Facts, TypeOK, InPlace, AckedIsStored, packetACKd, PathTellsTheTruth,
              WrittenIsComplete, AllStored, NeverAborts, FinIsTimed, SuccessMeansWritten,
              vars, senderVars
<1> QED BY <1>1, <1>2

\* The invariant holds of every behaviour.
THEOREM Invariance == Spec => []IInv
<1>1. Init => IInv
  BY InitInvariant
<1>2. IInv /\ [Next]_vars => IInv'
  BY NextInvariant
<1> QED BY <1>1, <1>2, PTL DEF Spec

\* Type correctness, and the timer list in place, at all times.
THEOREM TypeCorrect == Spec => []TypeOK
<1>1. IInv => TypeOK
  BY DEF IInv, Facts
<1> QED BY <1>1, Invariance, PTL

\* What the sender takes for acknowledged is in the receiver's list.
THEOREM AckedStored == Spec => []AckedIsStored
<1>1. IInv => AckedIsStored
  BY DEF IInv, Facts
<1> QED BY <1>1, Invariance, PTL

\* No ACK and no FIN in flight is ahead of the facts.
THEOREM PathTruthful == Spec => []PathTellsTheTruth
<1>1. IInv => PathTellsTheTruth
  BY DEF IInv, Facts
<1> QED BY <1>1, Invariance, PTL

\* When the receiver starts to write its file it holds every data packet.
THEOREM WrittenComplete == Spec => []WrittenIsComplete
<1>1. IInv => WrittenIsComplete
  BY DEF IInv, Facts
<1> QED BY <1>1, Invariance, PTL

\* No ACK ends the sender, and no expired timer sends it past data_packets.
THEOREM NoAbort == Spec => []NeverAborts
<1>1. IInv => NeverAborts
  BY DEF IInv
<1> QED BY <1>1, Invariance, PTL

\* An expired data timer is the timer at that packet's index.
THEOREM ResendsRight == Spec => []ResendsTheExpired
<1>1. IInv => ResendsTheExpired
  <2>1. SUFFICES ASSUME IInv, NEW t \in Expired, NEW k \in DataIdx,
                        Ackno(k) = timers[t].pckt_ackno
                 PROVE  k = t
    BY DEF ResendsTheExpired
  <2>2. timers \in Seq(Timers) /\ InPlace(timers)
    BY <2>1 DEF IInv, Facts, TypeOK
  <2>3. t = find_timer(timers, timers[t].pckt_ackno)
    BY <2>2 DEF Expired, InPlace
  <2>4. find_timer(timers, Ackno(k)) = k
    BY <2>2, FindInPlace
  <2> QED BY <2>1, <2>3, <2>4
<1> QED BY <1>1, Invariance, PTL

\* A sender that reports success has a receiver that writes the file, unless
\* full payloads make up the file.
THEOREM SuccessSound ==
  ASSUME LastLength # MAX_PAYLOAD_SIZE
  PROVE  Spec => []SuccessMeansWritten
<1>1. IInv => SuccessMeansWritten
  BY FinAcknoCollides DEF IInv, Facts
<1> QED BY <1>1, Invariance, PTL
=============================================================================
