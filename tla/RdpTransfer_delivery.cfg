CONSTANTS
  file_length = 5
  MAX_PAYLOAD_SIZE = 3
  WINDOW_SIZE = 3
  MAX_TIMERS = 4
SPECIFICATION Spec
INVARIANTS TypeOK AckedIsStored WrittenIsComplete SuccessMeansWritten NeverAborts PathTellsTheTruth
PROPERTIES ImplementsDelivery
CHECK_DEADLOCK FALSE
