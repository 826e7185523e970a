----------------------------- MODULE RdpNetwork -----------------------------
(***************************************************************************)
(* The two directions of the UDP path between rdps and rdpr, as sendto and *)
(* recvfrom in packet.c use it (and send and read in samplecode/rmtp.c): a *)
(* datagram may be lost, delivered more than once, late and in any order.  *)
(* Whether a datagram is lost is decided when it is sent; it is duplicated *)
(* by staying in flight after a delivery.  That is also what happens when  *)
(* recvfrom times out and receive_packet parses what its buffer still has  *)
(* of an earlier datagram.  A datagram that arrives damaged is lost:       *)
(* receive_packet returns NULL for it.                                     *)
(***************************************************************************)
VARIABLES
  toReceiver,   \* datagrams in flight from rdps to rdpr
  toSender      \* datagrams in flight from rdpr to rdps

\* What a channel may hold after the packets of the set pckts were sent.
AfterSend(channel, pckts) == {channel \cup arriving : arriving \in SUBSET pckts}

\* What a channel may hold after pckt was received from it.
AfterReceive(channel, pckt) == {channel, channel \ {pckt}}
=============================================================================
