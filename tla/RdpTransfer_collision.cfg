CONSTANTS
  file_length = 3
  MAX_PAYLOAD_SIZE = 3
  WINDOW_SIZE = 3
  MAX_TIMERS = 3
SPECIFICATION Spec
INVARIANTS SuccessMeansWritten
CHECK_DEADLOCK FALSE
