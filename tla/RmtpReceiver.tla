---------------------------- MODULE RmtpReceiver ----------------------------
(***************************************************************************)
(* The sample RMTP receiver, samplecode/receiver.c: rmtp_recv for every    *)
(* packet that the loop of rmtp_receiver_run reads.  state is that of the  *)
(* pcb, or RESET when reset() has ended the program; the loop also ends    *)
(* when the state is TIME_WAIT, so the branch of rmtp_recv for that state  *)
(* is never taken.                                                         *)
(*                                                                         *)
(* A packet is its type, its seqno and the message that it carries: a      *)
(* natural number, Nothing for a bare header.  Packets shorter than a      *)
(* header are only counted in nerrs, which nothing reads: they are lost.   *)
(***************************************************************************)
EXTENDS Integers, Sequences, RdpNetwork

CONSTANTS
  RMTP_MAXWIN,   \* packets that the window covers (rmtp.h: 128)
  SEQ_SPACE      \* sequence numbers there are (u_int32_t: 2^32)

RMTP_MAXBUFS == 2 * RMTP_MAXWIN

\* A slot of the ring belongs to the same numbers before and after they wrap.
ASSUME RingAssumption ==
  /\ RMTP_MAXWIN \in Nat \ {0}
  /\ SEQ_SPACE \in Nat \ {0}
  /\ SEQ_SPACE % RMTP_MAXBUFS = 0

VARIABLES
  state,    \* pcb->state
  NFE,      \* pcb->NFE, the next frame expected
  pkts,     \* pcb->pkts with pcb->valid: the ring of packets received early
  output    \* what was consumed, in order: Nothing for a payload of no bytes

receiverVars == <<state, NFE, pkts, output>>

Nothing == 0
Seqnos  == 0 .. SEQ_SPACE - 1
Slots   == 0 .. RMTP_MAXBUFS - 1

-----------------------------------------------------------------------------
\* Fault: numbers do not wrap.
Plus_NoWrap(seqno, k) == seqno + k

\* Arithmetic and comparison of u_int32_t numbers.
Plus(seqno, k) == (seqno + k) % SEQ_SPACE

\* Fault: numbers are compared as they are.
SEQ_LT_Unsigned(a, b) == a < b

SEQ_LT(a, b)  == (a - b) % SEQ_SPACE >= SEQ_SPACE \div 2
SEQ_GEQ(a, b) == ~SEQ_LT(a, b)

Slot(seqno) == seqno % RMTP_MAXBUFS

ReceiverInit ==
  /\ state = "LISTEN"
  /\ NFE = 1
  /\ pkts = [s \in Slots |-> [seqno |-> -1, data |-> Nothing, valid |-> FALSE]]
  /\ output = <<>>

Ack(seqno) == [type |-> "ACK", seqno |-> seqno, data |-> Nothing]

rmtp_send_ack(seqno) == toSender' \in AfterSend(toSender, {Ack(seqno)})

readpkt(pkt) ==
  /\ pkt \in toReceiver
  /\ toReceiver' \in AfterReceive(toReceiver, pkt)

\* What was consumed after these payloads: each is written as it comes.
rmtp_consume(payloads) == output \o payloads

-----------------------------------------------------------------------------
ReceiveSyn(pkt) ==
  /\ state = "LISTEN" /\ pkt.type = "SYN"
  /\ readpkt(pkt)
  /\ NFE' = Plus(pkt.seqno, 1)
  /\ state' = "ESTABLISHED"
  /\ rmtp_send_ack(NFE')
  /\ UNCHANGED <<pkts, output>>

\* Fault: the FIN is taken to have the number of the last packet.
ProtocolError_FinOfLast(pkt) ==
  IF state = "LISTEN" THEN pkt.type # "SYN"
                      ELSE pkt.type = "FIN" /\ Plus(pkt.seqno, 1) # NFE

ProtocolError(pkt) ==
  IF state = "LISTEN" THEN pkt.type # "SYN"
                      ELSE pkt.type = "FIN" /\ pkt.seqno # NFE

\* The RST that reset() sends goes to a sender that has given up.
Reset(pkt) ==
  /\ state \in {"LISTEN", "ESTABLISHED"} /\ ProtocolError(pkt)
  /\ readpkt(pkt)
  /\ state' = "RESET"
  /\ UNCHANGED <<NFE, pkts, output, toSender>>

ReceiveFin(pkt) ==
  /\ state = "ESTABLISHED" /\ pkt.type = "FIN" /\ ~ProtocolError(pkt)
  /\ readpkt(pkt)
  /\ NFE' = Plus(pkt.seqno, 1)
  /\ state' = "TIME_WAIT"
  /\ rmtp_send_ack(NFE')
  /\ UNCHANGED <<pkts, output>>

(***************************************************************************)
(* In the established state every packet but a FIN is taken for data: a    *)
(* late SYN, or an RST, only has its number to keep it out.                *)
(***************************************************************************)
ReadsData(pkt) ==
  /\ state = "ESTABLISHED" /\ pkt.type # "FIN"
  /\ readpkt(pkt)

\* Fault: numbers before the window are not kept out.
InFeasibleWindow_NoStart(seqno) == SEQ_LT(seqno, Plus(NFE, RMTP_MAXWIN))

InFeasibleWindow(seqno) ==
  /\ SEQ_LT(seqno, Plus(NFE, RMTP_MAXWIN))
  /\ SEQ_GEQ(seqno, NFE)

ReceiveOutside(pkt) ==
  /\ ReadsData(pkt)
  /\ ~InFeasibleWindow(pkt.seqno)
  /\ rmtp_send_ack(NFE)
  /\ UNCHANGED receiverVars

\* Fault: whatever is in the window counts as expected.
InOrder_Feasible(seqno) == InFeasibleWindow(seqno)

InOrder(seqno) == InFeasibleWindow(seqno) /\ seqno = NFE

Holds(seqno) == pkts[Slot(seqno)].valid /\ pkts[Slot(seqno)].seqno = seqno

(***************************************************************************)
(* The loop after the packet that was expected: Early is how many packets  *)
(* after it the ring holds without a gap.  It takes each slot once.        *)
(***************************************************************************)
Early(seqno) ==
  CHOOSE k \in 0 .. RMTP_MAXBUFS :
    /\ \A j \in 1 .. k : Holds(Plus(seqno, j))
    /\ k = RMTP_MAXBUFS \/ ~Holds(Plus(seqno, k + 1))

ReceiveInOrder(pkt) ==
  /\ ReadsData(pkt)
  /\ InOrder(pkt.seqno)
  /\ LET early == Early(pkt.seqno)
         taken == {Slot(Plus(pkt.seqno, j)) : j \in 1 .. early}
     IN  /\ output' = rmtp_consume(<<pkt.data>> \o
                        [j \in 1 .. early |-> pkts[Slot(Plus(pkt.seqno, j))].data])
         /\ pkts' = [s \in Slots |-> IF s \in taken
                                     THEN [pkts[s] EXCEPT !.valid = FALSE]
                                     ELSE pkts[s]]
         /\ NFE' = Plus(pkt.seqno, early + 1)
  /\ rmtp_send_ack(NFE')
  /\ UNCHANGED state

Stash(pkt) ==
  /\ InFeasibleWindow(pkt.seqno) /\ ~InOrder(pkt.seqno)
  /\ pkts' = [pkts EXCEPT ![Slot(pkt.seqno)] =
                [seqno |-> pkt.seqno, data |-> pkt.data, valid |-> TRUE]]

\* Fault: the packet itself is acknowledged.
ReceiveEarly_AckReceived(pkt) ==
  /\ ReadsData(pkt) /\ Stash(pkt)
  /\ rmtp_send_ack(Plus(pkt.seqno, 1))
  /\ UNCHANGED <<state, NFE, output>>

\* The expected frame is acknowledged, not the received one.
ReceiveEarly(pkt) ==
  /\ ReadsData(pkt) /\ Stash(pkt)
  /\ rmtp_send_ack(NFE)
  /\ UNCHANGED <<state, NFE, output>>
=============================================================================
