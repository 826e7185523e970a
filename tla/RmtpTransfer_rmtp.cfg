CONSTANTS
  RMTP_MAXWIN = 3
  SEQ_SPACE = 12
  Messages = 5
  InitialSeqnos = {9, 11}
SPECIFICATION Spec
INVARIANTS TypeOK DeliveredInSequence AcksTellTheTruth RingIsAhead NothingNewIsTurnedAway ResetIsProvoked
PROPERTIES ImplementsDelivery
CHECK_DEADLOCK FALSE
