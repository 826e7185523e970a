---------------------------- MODULE RdpDelivery -----------------------------
(***************************************************************************)
(* What a reliable transfer promises, without packets, timers or a path:   *)
(* pieces of data are acknowledged only when the receiver stores them, the *)
(* receiver finishes only when every piece is acknowledged, and the sender *)
(* reports success only when the receiver has finished.  Either side may   *)
(* stop at any time, which is a stuttering step for ever after.            *)
(***************************************************************************)
CONSTANT Data   \* the pieces of the file

VARIABLES
  stored,     \* pieces the receiver has
  acked,      \* pieces the sender knows to be stored
  written,    \* the receiver writes its file
  success     \* the sender reports success

deliveryVars == <<stored, acked, written, success>>

Init ==
  /\ stored = {}
  /\ acked = {}
  /\ written = FALSE
  /\ success = FALSE

Store(D) ==
  /\ ~written
  /\ stored' = stored \cup D
  /\ UNCHANGED <<acked, written, success>>

Acknowledge(D) ==
  /\ D \subseteq stored
  /\ acked' = acked \cup D
  /\ UNCHANGED <<stored, written, success>>

Write ==
  /\ acked = Data
  /\ written' = TRUE
  /\ UNCHANGED <<stored, acked, success>>

Succeed ==
  /\ written
  /\ success' = TRUE
  /\ UNCHANGED <<stored, acked, written>>

Next == (\E D \in SUBSET Data : Store(D) \/ Acknowledge(D)) \/ Write \/ Succeed

Spec == Init /\ [][Next]_deliveryVars
=============================================================================
