--------------------------- MODULE RdpRerunProofs ---------------------------
(***************************************************************************)
(* Proofs about RdpRerun, for any number of runs of the sender: what holds *)
(* of one run whatever is in flight when it starts (Facts) holds of all of *)
(* them.  What is lost is that no ACK ends the sender.                     *)
(***************************************************************************)
EXTENDS RdpRerun, RdpTransferProofs

\* The facts, and what an end by an ACK of an earlier run comes with.
RerunInv == Facts /\ AbortMeansWritten

\* The first run starts as it does alone.
LEMMA RerunStarts == RerunInit => RerunInv
<1> SUFFICES ASSUME RerunInit PROVE RerunInv
  OBVIOUS
<1>1. IInv
  BY InitInvariant DEF RerunInit
<1> QED BY <1>1 DEF IInv, NeverAborts, RerunInv, AbortMeansWritten

\* A new run forgets what was acknowledged, and finds the path and the receiver
\* as the runs before it left them.
LEMMA RerunKeeps ==
  ASSUME RerunInv, Rerun
  PROVE  RerunInv'
<1>1. /\ pc' = "syn" /\ i' = 1 /\ timers' = DataTimers /\ base_seqno' = 0 /\ occupied' = 0
      /\ UNCHANGED <<toReceiver, toSender, stored, receiver>>
  BY DEF Rerun
<1>2. /\ timers' \in Seq(Timers) /\ Len(timers') = NumPackets /\ InPlace(timers')
      /\ \A k \in DataIdx : ~AckedIn(timers', k)
  BY <1>1, DataTimersInPlace
<1>3. 1 \in 1 .. NumPackets + 1
  BY LoopFact DEF RerunInv
<1>4. TypeOK'
  BY <1>1, <1>2, <1>3 DEF RerunInv, Facts, TypeOK, InPlace
<1>5. AckedIsStored'
  BY <1>2, AckedAt DEF AckedIsStored, InPlace
<1>6. /\ PathTellsTheTruth' /\ WrittenIsComplete' /\ AbortMeansWritten'
      /\ FinAcknoIsItsOwn => SuccessMeansWritten'
  BY <1>1 DEF RerunInv, Facts, PathTellsTheTruth, WrittenIsComplete, AllStored,
              AbortMeansWritten, SuccessMeansWritten
<1> QED BY <1>4, <1>5, <1>6 DEF RerunInv, Facts

\* A step of a run: the sender ends only for an ACK of a FIN that an earlier run
\* sent, and that the receiver took.
LEMMA RunKeeps ==
  ASSUME RerunInv, Next
  PROVE  RerunInv'
<1>1. TimersStep /\ ChannelStep /\ ControlStep
  BY NextSteps DEF RerunInv
<1>2. Facts'
  BY <1>1, StepsKeepFacts DEF RerunInv
<1>3. AbortMeansWritten'
  BY <1>1 DEF RerunInv, Facts, PathTellsTheTruth, AbortMeansWritten, ControlStep,
              ChannelStep, LateFinAck
<1> QED BY <1>2, <1>3 DEF RerunInv

\* The invariant holds of every number of runs.
THEOREM RerunInvariance == RerunSpec => []RerunInv
<1>1. RerunInit => RerunInv
  BY RerunStarts
<1>2. RerunInv /\ [RerunNext]_rerunVars => RerunInv'
  <2>1. SUFFICES ASSUME RerunInv, [RerunNext]_rerunVars PROVE RerunInv'
    OBVIOUS
  <2>2. CASE Rerun
    BY <2>1, <2>2, RerunKeeps
  <2>3. CASE Next
    BY <2>1, <2>3, RunKeeps
  <2>4. CASE UNCHANGED rerunVars
    BY <2>1, <2>4 DEF RerunInv, Facts, TypeOK, InPlace, AckedIsStored, packetACKd,
                      PathTellsTheTruth, WrittenIsComplete, AllStored, AbortMeansWritten,
                      SuccessMeansWritten, rerunVars, vars, senderVars
  <2> QED BY <2>1, <2>2, <2>3, <2>4 DEF RerunNext
<1> QED BY <1>1, <1>2, PTL DEF RerunSpec

-----------------------------------------------------------------------------
\* A packet that this run takes for acknowledged is stored, though the ACK may
\* be of an earlier run.
THEOREM RerunAckedStored == RerunSpec => []AckedIsStored
<1>1. RerunInv => AckedIsStored
  BY DEF RerunInv, Facts
<1> QED BY <1>1, RerunInvariance, PTL

\* No FIN, of this run or an earlier one, makes the receiver write a part.
THEOREM RerunWrittenComplete == RerunSpec => []WrittenIsComplete
<1>1. RerunInv => WrittenIsComplete
  BY DEF RerunInv, Facts
<1> QED BY <1>1, RerunInvariance, PTL

\* A run that an ACK of an earlier run ends by exit leaves a written file.
THEOREM RerunAbortWritten == RerunSpec => []AbortMeansWritten
<1>1. RerunInv => AbortMeansWritten
  BY DEF RerunInv
<1> QED BY <1>1, RerunInvariance, PTL

\* And so does one that reports success, unless full payloads make up the file.
THEOREM RerunSuccessSound ==
  ASSUME LastLength # MAX_PAYLOAD_SIZE
  PROVE  RerunSpec => []SuccessMeansWritten
<1>1. RerunInv => SuccessMeansWritten
  BY FinAcknoCollides DEF RerunInv, Facts
<1> QED BY <1>1, RerunInvariance, PTL
=============================================================================
