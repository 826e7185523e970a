------------------------------ MODULE RdpRerun ------------------------------
(***************************************************************************)
(* RdpTransfer with a sender that is killed, or has given up, and is run   *)
(* again to send the same file: nothing in the protocol tells one run from *)
(* another.  The receiver waits on with what it has stored, and datagrams  *)
(* of an earlier run are in flight still, in both directions: rdps binds   *)
(* to the same address.                                                    *)
(***************************************************************************)
EXTENDS RdpTransfer

CONSTANT MAX_RERUNS   \* a bound of the model

ASSUME RerunsAssumption == MAX_RERUNS \in Nat

VARIABLE reruns

rerunVars == <<vars, reruns>>

RerunInit == Init /\ reruns = 0

\* What main and initiate_transfer start from: no state outlives the process.
Rerun ==
  /\ reruns < MAX_RERUNS
  /\ pc' = "syn" /\ i' = 1
  /\ timers' = DataTimers
  /\ base_seqno' = 0 /\ occupied' = 0
  /\ reruns' = reruns + 1
  /\ UNCHANGED <<toReceiver, toSender, stored, receiver>>

RerunNext == Rerun \/ (Next /\ UNCHANGED reruns)

RerunSpec == RerunInit /\ [][RerunNext]_rerunVars

-----------------------------------------------------------------------------
(***************************************************************************)
(* An ACK that an earlier run caused may end this run: handle_packet knows *)
(* no timer for the FIN's before it sends a FIN of its own, and exits.     *)
(* Then at least the file is written, and by WrittenIsComplete all of it.  *)
(***************************************************************************)
AbortMeansWritten == pc = "abort" => receiver = "written"
=============================================================================
