---------------------------- MODULE MCRdpSession ----------------------------
(***************************************************************************)
(* Instances of RdpSession small enough for TLC.                           *)
(***************************************************************************)
EXTENDS RdpSession, FiniteSetsExt

CONSTANT ChannelBound   \* datagrams in flight in each direction

ShortChannels ==
  /\ Cardinality(toReceiver) <= ChannelBound
  /\ Cardinality(toSender) <= ChannelBound

\* As in MCRdpTransfer: nothing but resend_timedoutPackets reads timedout.
PollsBeforeResend == Poll /\ timers' # timers => pc = "resend"
=============================================================================
