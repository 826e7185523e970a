CONSTANTS
  file_length = 5
  MAX_PAYLOAD_SIZE = 3
  WINDOW_SIZE = 3
  MAX_TIMERS = 4
  MAX_RERUNS = 2
SPECIFICATION RerunSpec
INVARIANTS AckedIsStored WrittenIsComplete SuccessMeansWritten AbortMeansWritten
CHECK_DEADLOCK FALSE
