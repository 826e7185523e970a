--------------------------- MODULE MCRdpTransfer ----------------------------
(***************************************************************************)
(* Instances of RdpTransfer small enough for TLC.                          *)
(***************************************************************************)
EXTENDS RdpTransfer, FiniteSets

CONSTANT ChannelBound   \* datagrams in flight in each direction

ShortChannels ==
  /\ Cardinality(toReceiver) <= ChannelBound
  /\ Cardinality(toSender) <= ChannelBound

(***************************************************************************)
(* Polls matter when resend_timedoutPackets is next: nothing else reads    *)
(* timedout, and a poll made earlier finds no timer that it would not find *)
(* there, except one that fill_window or an ACK has since reset.           *)
(***************************************************************************)
PollsBeforeResend == Poll /\ timers' # timers => pc = "resend"
=============================================================================
